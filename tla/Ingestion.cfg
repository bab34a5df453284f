\* Two requests that race each other, two workers, two jobs, one retry: the
\* attempts of one job overlap each other and those of the other job.
CONSTANTS
  Jobs = {1, 2}
  Workers = {w1, w2}
  Clients = {c1, c2}
  None = None
  MaxAttempts = 2
SPECIFICATION Spec
SYMMETRY Symmetry
INVARIANTS
  TypeOK
  ContentFromOneRun
  ParsedHasText
  NothingOutlivesDocument
\* All jobs settled or the document deleted: the system rests.
CHECK_DEADLOCK FALSE
