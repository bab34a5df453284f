\* A delete and an upload of the same content.
CONSTANTS
  Documents = {d1, d2}
  Shas = {s1}
  Requests = {r1, r2}
  None = None
SPECIFICATION Spec
INVARIANTS
  RowHasFile
