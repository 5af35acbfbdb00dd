--------------------------- MODULE MCCalendarSync ---------------------------
(* Model values and symmetry for CalendarSync. *)
EXTENDS CalendarSync, TLC

Symmetry == Permutations(Shifts) \cup Permutations(Syncs)
=============================================================================
