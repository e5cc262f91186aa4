\* Two relays, two events, batches of two, two failures.
CONSTANTS
  a = a
  b = b
  Rows = {1, 2}
  Relays = {a, b}
  BatchSize = 2
  MaxPublishAttempts = 3
  MaxFaults = 2
SPECIFICATION Spec
INVARIANTS
  TypeOK
  BatchesAreDisjoint
  DuplicateNeedsFailure
  PublishedMeansConfirmed
PROPERTIES
  ReopenedOnlyWhenLate
  ImplementsOutbox
  EveryEventSettles
CHECK_DEADLOCK FALSE
