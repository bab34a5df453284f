\* Three requests: two race for a content while a third deletes it, or an
\* amendment lands while its parent goes.  Ids are never used twice.
CONSTANTS
  Documents = {d1, d2, d3}
  Shas = {s1, s2}
  Requests = {r1, r2, r3}
  None = None
SPECIFICATION Spec
SYMMETRY Symmetry
INVARIANTS
  TypeOK
  NoDanglingAmendment
  AuditNeverAhead
  Inv
PROPERTIES
  RowFirst
