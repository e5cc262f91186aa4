\* Order rows edited by hand; o2 always fails; o3 is an event without an order.
CONSTANTS
  o1 = o1
  o2 = o2
  o3 = o3
  w1 = w1
  w2 = w2
  c1 = c1
  r1 = r1
  r2 = r2
  Orders = {o1, o2, o3}
  Products = {1, 2}
  Quantity <- BothProducts
  InitialStock <- TwoOfEach
  Consumers = {w1, w2}
  Creators = {c1}
  Operators = {}
  FailTrigger = {o2}
  Stray = {o3}
  MaxAttempts = 2
  MaxReprocess = 0
  ManualIntervention = TRUE
  NoMessage = NoMessage
  NoOrder = NoOrder
SPECIFICATION Spec
SYMMETRY ConsumerSymmetry
INVARIANTS
  StockConserved
  AllOrNothing
CHECK_DEADLOCK FALSE
