\* One job and two workers.
CONSTANTS
  Jobs = {1}
  Workers = {w1, w2}
  NoJob = NoJob
  MaxAttempts = 2
SPECIFICATION Spec
INVARIANT CappedNeverRun
CHECK_DEADLOCK FALSE
