\* Two relays publish one event, the first taking longer than its window.
CONSTANTS
  a = a
  b = b
  Rows = {1}
  Relays = {a, b}
  BatchSize = 1
  MaxPublishAttempts = 3
  MaxFaults = 0
SPECIFICATION Spec
INVARIANT PublishedByOneRelay
CHECK_DEADLOCK FALSE
