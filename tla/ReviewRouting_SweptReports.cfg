\* The amendment is deleted between a report's completion and its routing.
CONSTANTS
  MaxJob = 3
  Workers = {w1}
  Reviewers = {v1}
  None = None
  MaxAttempts = 1
SPECIFICATION Spec
INVARIANTS
  SweptReportsLeaveNoItems
CHECK_DEADLOCK FALSE
