\* One job after the two first extractions, of either kind, claimed up to three
\* times as in the code, with two workers whose runs of it overlap and two
\* reviewers who race for its items.  The system may stop: every document can be
\* deleted and every id used.
CONSTANTS
  MaxJob = 3
  Workers = {w1, w2}
  Reviewers = {v1, v2}
  None = None
  MaxAttempts = 3
SPECIFICATION Spec
SYMMETRY Symmetry
INVARIANTS
  TypeOK
  OwnersPresent
  ItemsFitJob
  
  ResolutionAudited
PROPERTIES
  ResolutionFinal
CHECK_DEADLOCK FALSE
