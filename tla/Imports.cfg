\* Two items, two edits and two commits in progress.
SPECIFICATION Spec
CONSTANTS
  Items = {i1, i2}
  Patches = {p1, p2}
  Commits = {c1, c2}
INVARIANTS OneShiftPerItem TruthWasConfirmed
PROPERTIES EndsAreFinal ExtractionEnds
CHECK_DEADLOCK FALSE
