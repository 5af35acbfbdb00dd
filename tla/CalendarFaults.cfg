\* Two shifts, two contents each, two sync requests, every failure.
SPECIFICATION Spec
CONSTANTS
  Shifts = {s1, s2}
  Syncs = {r1, r2}
  MaxVersion = 2
  Faults = {"lost", "revoked", "crash"}
SYMMETRY Symmetry
INVARIANT MirrorAgrees
PROPERTIES MirrorMovesForward SyncsSettle
