----------------------------- MODULE MCHttpEdge -----------------------------
EXTENDS HttpEdge, TLC

\* Flows and callbacks are interchangeable; the owners are not (OAuthInit).
MCSymmetry == Permutations(Flows) \cup Permutations(Callbacks)
=============================================================================
