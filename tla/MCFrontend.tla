----------------------------- MODULE MCFrontend -----------------------------
EXTENDS Frontend

CONSTANTS a1, b1    \* tokens of two users

MCUserOf == [t \in Tokens |-> IF t = b1 THEN "bo" ELSE "an"]
=============================================================================
