\* Prefetch 2, two retries where the deployment before had one, messages of every kind, one fault.
CONSTANTS
  created = created
  unreadable = unreadable
  invalid = invalid
  h1 = h1
  h2 = h2
  Events = {created, unreadable, invalid}
  Unreadable = {unreadable}
  Invalid = {invalid}
  Mixes <- PairOrRefused
  Delayed = {created}
  Tiers <- TwoTiers
  OldTiers <- OneTier
  Handlers = {h1, h2}
  Lifecycle = Lifecycle
  Probe = Probe
  MaxConnections = 3
  MaxFaults = 1
  NoMessage = NoMessage
  NoEvent = NoEvent
SPECIFICATION Spec
INVARIANTS
  TypeOK
  NothingLost
  NoCopyWithoutFault
  OneConnectionUntilLoss
  DrainingIsCancelled
PROPERTIES
  OwnDeliveriesOnly
  ImplementsDelivery
  ExitIsClean
  StopEnds
  ConsumedWhileSubscribed
CHECK_DEADLOCK FALSE
