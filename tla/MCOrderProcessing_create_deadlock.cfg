\* A request creates an order while another order of the same products is processed.
CONSTANTS
  o1 = o1
  o2 = o2
  o3 = o3
  w1 = w1
  w2 = w2
  c1 = c1
  r1 = r1
  r2 = r2
  Orders = {o1, o2}
  Products = {1, 2}
  Quantity <- BothProducts
  InitialStock <- OneOfEach
  Consumers = {w1, w2}
  Creators = {c1}
  Operators = {}
  FailTrigger = {}
  Stray = {}
  MaxAttempts = 2
  MaxReprocess = 0
  ManualIntervention = FALSE
  NoMessage = NoMessage
  NoOrder = NoOrder
SPECIFICATION Spec
INVARIANT NoCreateDeadlock
CHECK_DEADLOCK FALSE
