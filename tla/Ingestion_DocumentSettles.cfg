\* A single crash at the wrong moment is enough.
CONSTANTS
  Jobs = {1}
  Workers = {w1}
  Clients = {c1}
  None = None
  MaxAttempts = 1
SPECIFICATION Spec
INVARIANTS
  DocumentSettles
CHECK_DEADLOCK FALSE
