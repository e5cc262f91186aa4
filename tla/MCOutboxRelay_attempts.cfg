\* An event the broker never accepts.
CONSTANTS
  a = a
  b = b
  Rows = {1}
  Relays = {a, b}
  BatchSize = 1
  MaxPublishAttempts = 3
  MaxFaults = 0
SPECIFICATION Spec
INVARIANT FailedAfterMaxAttempts
CHECK_DEADLOCK FALSE
