\* One order fails, is sent back by two requests at once and delivered again.
CONSTANTS
  o1 = o1
  o2 = o2
  o3 = o3
  w1 = w1
  w2 = w2
  c1 = c1
  r1 = r1
  r2 = r2
  Orders = {o1}
  Products = {1}
  Quantity <- BothProducts
  InitialStock <- OneOfEach
  Consumers = {w1, w2}
  Creators = {c1}
  Operators = {r1, r2}
  FailTrigger = {}
  Stray = {}
  MaxAttempts = 2
  MaxReprocess = 1
  ManualIntervention = FALSE
  NoMessage = NoMessage
  NoOrder = NoOrder
SPECIFICATION Spec
SYMMETRY ActorSymmetry
INVARIANTS
  PendingHasCarrier
  DeadLetteredIsSettled
PROPERTIES
  ProcessedIsFinal
CHECK_DEADLOCK FALSE
