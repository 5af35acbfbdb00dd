\* Three uploads of two files: one may meet the document of another.
SPECIFICATION Spec
CONSTANTS
  Docs = {d1, d2, d3}
  Files = {f1, f2}
  Uploads = {u1, u2, u3}
  Questions = {q1}
INVARIANTS IndexIsWhole
PROPERTIES ImplementsDocuments IndexingEnds
CHECK_DEADLOCK FALSE
