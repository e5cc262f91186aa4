\* Two kids, two tokens at a time, one key published or withdrawn.
CONSTANTS
  k1 = k1
  k2 = k2
  v1 = v1
  v2 = v2
  Kids = {k1, k2}
  Verifications = {v1, v2}
  Ttl = 4
  Interval = 2
  Timeout = 1
  MaxRotations = 1
  None = None
SPECIFICATION Spec
INVARIANTS
  TypeOK
  OneFetchAtATime
  KeysAreFresh
PROPERTIES
  WithdrawnKeyRunsOut
  KnownKeyIsNeverRefused
  LongPublishedKeyIsServed
  NewKeyIsLearned
CHECK_DEADLOCK FALSE
