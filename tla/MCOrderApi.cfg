\* Two requests at a time, a pool of three, four orders, pages of one row.
CONSTANTS
  alice = alice
  root = root
  r1 = r1
  r2 = r2
  Ids = {1, 2, 3, 4}
  Catalog = {"known"}
  Mixes <- Together
  Upper <- Capitals
  Calls = {r1, r2}
  PoolSize = 3
  MaxAmount <- Widest
  MaxTime = 2
  Limit = 1
  MaxFaults = 1
  MaxFailures = 1
  Nobody = Nobody
  NoRequest = NoRequest
  NoAnswer = NoAnswer
SPECIFICATION Spec
INVARIANTS
  TypeOK
  WalkSeesAll
  AcceptedIsUnderWay
PROPERTIES
  FailuresHaveCause
  AnswersAreTrue
  EveryRequestIsAnswered
CHECK_DEADLOCK FALSE
