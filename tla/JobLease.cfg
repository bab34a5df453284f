\* Two jobs, two workers, a cap of two attempts: overlapping claims of one job,
\* both jobs in hand at once, and every attempt number up to one past the cap.
CONSTANTS
  Jobs = {1, 2}
  Workers = {w1, w2}
  NoJob = NoJob
  MaxAttempts = 2
SPECIFICATION FairSpec
INVARIANTS
  TypeOK
  ClaimsExclusive
  Inv
PROPERTIES
  FirstClaimFinal
  ImplementsTickets
  EventuallySettled
\* All jobs settled and nothing to poll: the system rests.
CHECK_DEADLOCK FALSE
