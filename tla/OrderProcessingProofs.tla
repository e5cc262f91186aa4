------------------------- MODULE OrderProcessingProofs -------------------------
(***************************************************************************)
(* What TLAPS proves about OrderProcessing, for any number of orders,      *)
(* products, consumers, requests, attempts and reprocessings.              *)
(***************************************************************************)
EXTENDS OrderProcessing, WellFoundedInduction, TLAPS

-----------------------------------------------------------------------------
(* The inductive invariant                                                 *)

(* What a handler has taken, decided and is handling fits where it stands. *)
HandlerInv ==
  \A w \in Consumers :
    /\ pc[w] # "idle" => msg[w] \in sent
    /\ taken[w] # {} => pc[w] = "items" /\ taken[w] \subseteq Items(msg[w].order)
    /\ pc[w] \in {"failOrder", "failTransition"} => verdict[w] # "NONE"
    /\ verdict[w] = "ORDER_NOT_FOUND" => pc[w] # "idle" /\ msg[w].order \in Stray

(* A message other than a stray one is about an order that has its row, an *)
(* order being inserted has none yet, and no two requests insert the same. *)
RowInv ==
  /\ \A m \in sent : m.order \in Stray \/ status[m.order] # "ABSENT"
  /\ \A o \in Stray : status[o] = "ABSENT"
  /\ \A c \in Creators :
       placing[c] # NoOrder => placing[c] \notin Stray /\ status[placing[c]] = "ABSENT"
  /\ \A c, d \in Creators : placing[c] = placing[d] /\ placing[c] # NoOrder => c = d

(* The row lock of an order has one holder, and the order stays PENDING    *)
(* while it is held.                                                       *)
OrderLockInv ==
  /\ \A w \in Consumers : pc[w] = "items" => status[msg[w].order] = "PENDING"
  /\ \A w, u \in Consumers :
       pc[w] = "items" /\ pc[u] = "items" /\ msg[w].order = msg[u].order => w = u

(* The row lock of a product has one holder; what fitted when it was       *)
(* locked still fits, and is not yet reserved; the products still to come  *)
(* are all greater.                                                        *)
ProductLockInv ==
  /\ \A w, u \in Consumers : w # u => taken[w] \intersect taken[u] = {}
  /\ \A w \in Consumers : \A p \in taken[w] :
       /\ FitsStock(msg[w].order, p)
       /\ ~AlreadyReserved(msg[w].order, p)
       /\ \A q \in Remaining(w) : p < q

IInv == TypeOK /\ HandlerInv /\ RowInv /\ OrderLockInv /\ ProductLockInv

-----------------------------------------------------------------------------
(* Handlers that hold no row when they are done                            *)

ConsumersTyped ==
  /\ pc \in [Consumers -> Statements]
  /\ msg \in [Consumers -> Message \union {NoMessage}]
  /\ \A w \in Consumers : pc[w] # "idle" => msg[w] \in Message
  /\ verdict \in [Consumers -> Verdicts]
  /\ taken \in [Consumers -> SUBSET Products]

(* Handler w takes a step after which it holds neither order nor product,  *)
(* and the other handlers stay where they are.                             *)
MovesOn(w) ==
  /\ \A u \in Consumers \ {w} :
       pc'[u] = pc[u] /\ msg'[u] = msg[u] /\ verdict'[u] = verdict[u] /\ taken'[u] = taken[u]
  /\ pc'[w] # "items" /\ taken'[w] = {}
  /\ pc'[w] # "idle" => msg'[w] \in sent
  /\ pc'[w] \in {"failOrder", "failTransition"} => verdict'[w] # "NONE"
  /\ verdict'[w] = "ORDER_NOT_FOUND" => pc'[w] # "idle" /\ msg'[w].order \in Stray

(* Ending, throwing and failing are such steps. *)
LEMMA FinishMovesOn ==
  ASSUME IInv, NEW w \in Consumers, Finish(w)
  PROVE  MovesOn(w) /\ ConsumersTyped'
  BY DEF IInv, TypeOK, Finish, MovesOn, ConsumersTyped, Statements, Verdicts, Codes

(* A throw rolls back, so it leaves the handler without rows. *)
LEMMA ThrowsMovesOn ==
  ASSUME IInv, NEW w \in Consumers, Throws(w), pc[w] # "idle"
  PROVE  MovesOn(w) /\ ConsumersTyped'
<1>1. CASE Finish(w)
  BY <1>1, FinishMovesOn
<1>2. CASE /\ Goto(w, "onFailure")
           /\ verdict' = [verdict EXCEPT ![w] = "NONE"]
           /\ taken' = [taken EXCEPT ![w] = {}]
           /\ UNCHANGED msg
  BY <1>2 DEF IInv, TypeOK, HandlerInv, Goto, MovesOn, ConsumersTyped, Statements, Verdicts, Codes
<1> QED
  BY <1>1, <1>2 DEF Throws

(* So does a business error. *)
LEMMA FailingMovesOn ==
  ASSUME IInv, NEW w \in Consumers, pc[w] # "idle",
         NEW c \in Verdicts \ {"NONE"}, RollbackAndFail(w, c),
         c = "ORDER_NOT_FOUND" => msg[w].order \in Stray
  PROVE  MovesOn(w) /\ ConsumersTyped'
  BY DEF IInv, TypeOK, HandlerInv, RollbackAndFail, Goto, MovesOn, ConsumersTyped,
         Statements, Verdicts, Codes

(* So does going on to a statement other than the items. *)
LEMMA ContinueMovesOn ==
  ASSUME IInv, NEW w \in Consumers, pc[w] # "idle", taken[w] = {},
         NEW s \in Statements \ {"idle", "items"}, Continue(w, s),
         s \in {"failOrder", "failTransition"} => verdict[w] # "NONE"
  PROVE  MovesOn(w) /\ ConsumersTyped'
  BY DEF IInv, TypeOK, HandlerInv, Continue, Goto, MovesOn, ConsumersTyped,
         Statements, Verdicts, Codes

(* Such a step keeps the invariant as long as the rows others hold do.     *)
LEMMA MovesOnKeepsHandlerInv ==
  ASSUME IInv, NEW w \in Consumers, MovesOn(w), sent \subseteq sent'
  PROVE  HandlerInv'
  BY DEF IInv, HandlerInv, MovesOn, Items

(* The rows the other handlers hold are untouched by such a step. *)
LEMMA MovesOnKeepsLocks ==
  ASSUME IInv, NEW w \in Consumers, MovesOn(w),
         \A u \in Consumers \ {w} : pc[u] = "items" => status'[msg[u].order] = status[msg[u].order],
         UNCHANGED <<stock, reserved>>
  PROVE  OrderLockInv' /\ ProductLockInv'
<1>1. OrderLockInv'
  BY DEF IInv, OrderLockInv, MovesOn
<1>2. ProductLockInv'
  BY DEF IInv, ProductLockInv, MovesOn, FitsStock, AlreadyReserved, Remaining, Items
<1> QED
  BY <1>1, <1>2

(* Nothing but handlers changes. *)
LEMMA MovesOnKeepsIInv ==
  ASSUME IInv, NEW w \in Consumers, MovesOn(w), ConsumersTyped',
         UNCHANGED <<dbVars, brokerVars, apiVars>>
  PROVE  IInv'
<1>1. TypeOK'
  BY DEF IInv, TypeOK, ConsumersTyped, dbVars, brokerVars, apiVars
<1>2. HandlerInv'
  BY MovesOnKeepsHandlerInv DEF brokerVars
<1>3. RowInv'
  BY DEF IInv, RowInv, dbVars, brokerVars, apiVars
<1>4. OrderLockInv' /\ ProductLockInv'
  BY MovesOnKeepsLocks DEF dbVars
<1> QED
  BY <1>1, <1>2, <1>3, <1>4 DEF IInv

-----------------------------------------------------------------------------
(* Each action keeps the invariant                                         *)

(* A delivered message was sent. *)
LEMMA DeliverStep ==
  ASSUME IInv, NEW w \in Consumers, Deliver(w)
  PROVE  IInv'
<1>1. MovesOn(w)
  BY DEF IInv, TypeOK, HandlerInv, Deliver, Goto, MovesOn, dbVars, brokerVars
<1>2. ConsumersTyped'
  BY DEF IInv, TypeOK, Deliver, Goto, ConsumersTyped, Statements, brokerVars
<1> QED
  BY <1>1, <1>2, MovesOnKeepsIInv DEF Deliver

(* A duplicate ends the handler, a new event goes on. *)
LEMMA RegisterStep ==
  ASSUME IInv, NEW w \in Consumers, Register(w)
  PROVE  IInv'
<1>1. MovesOn(w) /\ ConsumersTyped'
  BY FinishMovesOn, ContinueMovesOn DEF IInv, HandlerInv, Register, Statements
<1> QED
  BY <1>1, MovesOnKeepsIInv DEF Register

(* Only a stray event finds no order. *)
LEMMA FindOrderStep ==
  ASSUME IInv, NEW w \in Consumers, FindOrder(w)
  PROVE  IInv'
<1> DEFINE o == msg[w].order
<1>1. CASE status[o] = "ABSENT" /\ RollbackAndFail(w, "ORDER_NOT_FOUND")
  BY <1>1, FailingMovesOn, MovesOnKeepsIInv
     DEF IInv, HandlerInv, RowInv, FindOrder, Verdicts
<1>2. CASE Continue(w, "duplicate") \/ Continue(w, "transition")
  BY <1>2, ContinueMovesOn, MovesOnKeepsIInv DEF IInv, HandlerInv, FindOrder, Statements
<1>3. CASE Throws(w)
  BY <1>3, ThrowsMovesOn, MovesOnKeepsIInv DEF FindOrder
<1> QED
  BY <1>1, <1>2, <1>3 DEF FindOrder

(* Only the inbox grows. *)
LEMMA CommitDuplicateStep ==
  ASSUME IInv, NEW w \in Consumers, CommitDuplicate(w)
  PROVE  IInv'
<1>1. MovesOn(w) /\ ConsumersTyped'
  BY FinishMovesOn, ThrowsMovesOn DEF CommitDuplicate
<1>2. TypeOK'
  <2>1. EventOf(msg[w]) \in Event
    BY DEF IInv, TypeOK, CommitDuplicate, EventOf, Event, Message
  <2> QED
    BY <1>1, <2>1 DEF IInv, TypeOK, CommitDuplicate, ConsumersTyped, brokerVars, apiVars
<1>3. HandlerInv'
  BY <1>1, MovesOnKeepsHandlerInv DEF CommitDuplicate, brokerVars
<1>4. RowInv'
  BY DEF IInv, RowInv, CommitDuplicate, brokerVars, apiVars
<1>5. OrderLockInv' /\ ProductLockInv'
  BY <1>1, MovesOnKeepsLocks DEF CommitDuplicate
<1> QED
  BY <1>2, <1>3, <1>4, <1>5 DEF IInv

(* The update finds the order PENDING and its row free: w becomes the one  *)
(* that holds it.                                                          *)
LEMMA TransitionToProcessedStep ==
  ASSUME IInv, NEW w \in Consumers, TransitionToProcessed(w)
  PROVE  IInv'
<1> USE DEF TransitionToProcessed
<1>1. CASE Continue(w, "duplicate")
  BY <1>1, ContinueMovesOn, MovesOnKeepsIInv DEF IInv, HandlerInv, Statements
<1>2. CASE StillPending(msg[w].order) /\ Continue(w, "items")
  <2> USE <1>2 DEF Continue, Goto, dbVars, brokerVars, apiVars
  <2>1. TypeOK'
    BY DEF IInv, TypeOK, Statements
  <2>2. HandlerInv'
    BY DEF IInv, TypeOK, HandlerInv
  <2>3. RowInv'
    BY DEF IInv, RowInv
  <2>4. OrderLockInv'
    BY DEF IInv, TypeOK, OrderLockInv, StillPending, OrderFree, HoldsOrder
  <2>5. ProductLockInv'
    BY DEF IInv, ProductLockInv, FitsStock, AlreadyReserved, Remaining
  <2> QED
    BY <2>1, <2>2, <2>3, <2>4, <2>5 DEF IInv
<1> QED
  BY <1>1, <1>2

(* The next item is the smallest left, so it is greater than what is taken *)
(* and smaller than the rest.                                              *)
LEMMA ReserveItemStep ==
  ASSUME IInv, NEW w \in Consumers, ReserveItem(w)
  PROVE  IInv'
<1> DEFINE o == msg[w].order
<1> PICK p \in Items(o) :
      /\ IsNextItem(w, p)
      /\ ProductFree(p)
      /\ \/ ~FitsStock(o, p) /\ RollbackAndFail(w, "INSUFFICIENT_STOCK")
         \/ FitsStock(o, p) /\ AlreadyReserved(o, p) /\ Finish(w)
         \/ /\ FitsStock(o, p)
            /\ ~AlreadyReserved(o, p)
            /\ taken' = [taken EXCEPT ![w] = @ \union {p}]
            /\ UNCHANGED <<pc, msg, verdict>>
  BY DEF ReserveItem
<1>1. CASE RollbackAndFail(w, "INSUFFICIENT_STOCK")
  BY <1>1, FailingMovesOn, MovesOnKeepsIInv DEF ReserveItem, Verdicts, Codes
<1>2. CASE Finish(w)
  BY <1>2, FinishMovesOn, MovesOnKeepsIInv DEF ReserveItem
<1>3. CASE /\ FitsStock(o, p)
           /\ ~AlreadyReserved(o, p)
           /\ taken' = [taken EXCEPT ![w] = @ \union {p}]
           /\ UNCHANGED <<pc, msg, verdict>>
  <2> USE <1>3 DEF ReserveItem, dbVars, brokerVars, apiVars
  <2>1. TypeOK'
    BY DEF IInv, TypeOK, Items
  <2>2. HandlerInv'
    BY DEF IInv, TypeOK, HandlerInv, Items
  <2>3. RowInv' /\ OrderLockInv'
    BY DEF IInv, RowInv, OrderLockInv
  <2>4. \A u \in Consumers : ~HoldsProduct(u, p)
    BY DEF ProductFree
  <2>5. \A u, v \in Consumers : u # v => taken'[u] \intersect taken'[v] = {}
    BY <2>4 DEF IInv, TypeOK, ProductLockInv, HoldsProduct
  <2>6. \A q \in Remaining(w) \ {p} : p < q
    <3>1. \A q \in Remaining(w) : q \in Nat
      BY ConstantsAssumption DEF Remaining, Items
    <3>2. p \in Remaining(w) /\ \A q \in Remaining(w) : p <= q
      BY DEF IsNextItem
    <3> QED
      BY <3>1, <3>2
  <2>7. \A q \in taken'[w] :
          /\ FitsStock(msg[w].order, q)
          /\ ~AlreadyReserved(msg[w].order, q)
          /\ \A r \in Remaining(w)' : q < r
    BY <2>6 DEF IInv, TypeOK, ProductLockInv, Remaining, Items
  <2>8. ProductLockInv'
    BY <2>5, <2>7 DEF IInv, TypeOK, ProductLockInv, FitsStock, AlreadyReserved, Remaining, Items
  <2> QED
    BY <2>1, <2>2, <2>3, <2>8 DEF IInv
<1> QED
  BY <1>1, <1>2, <1>3

(* A commit leaves the handler without rows, whatever its answer. *)
LEMMA CommitMovesOn ==
  ASSUME IInv, NEW w \in Consumers, Commit(w)
  PROVE  MovesOn(w) /\ ConsumersTyped'
  BY FinishMovesOn, ThrowsMovesOn DEF Commit

(* The commit publishes what w alone held, so nothing the others rely on.  *)
LEMMA CommitStep ==
  ASSUME IInv, NEW w \in Consumers, Commit(w)
  PROVE  IInv'
<1> DEFINE o == msg[w].order
<1>1. o \in Orders /\ status[o] = "PENDING" /\ EventOf(msg[w]) \in Event
  BY DEF IInv, TypeOK, OrderLockInv, Commit, Message, Event, EventOf
<1>2. MovesOn(w) /\ ConsumersTyped'
  BY CommitMovesOn
<1>3. \A u \in Consumers \ {w} : pc[u] = "items" => msg[u].order # o
  BY DEF IInv, OrderLockInv, Commit
<1>4. TypeOK'
  <2>1. stock' \in [Products -> Nat]
    <3>1. ASSUME NEW p \in taken[w], p \in Products PROVE stock[p] - Quantity[o][p] \in Nat
      <4>1. stock[p] \in Nat /\ Quantity[o][p] \in Nat
        BY <1>1, <3>1, ConstantsAssumption DEF IInv, TypeOK
      <4>2. stock[p] >= Quantity[o][p]
        BY DEF IInv, ProductLockInv, FitsStock
      <4> QED
        BY <4>1, <4>2
    <3> QED
      BY <3>1 DEF IInv, TypeOK, Commit
  <2>2. reserved' \subseteq Orders \X Products
    BY <1>1 DEF IInv, TypeOK, Commit
  <2> QED
    BY <1>1, <1>2, <2>1, <2>2
       DEF IInv, TypeOK, Commit, ConsumersTyped, Codes, brokerVars, apiVars
<1>5. HandlerInv'
  BY <1>2, MovesOnKeepsHandlerInv DEF Commit, brokerVars
<1>6. RowInv'
  BY <1>1 DEF IInv, TypeOK, RowInv, Commit, brokerVars, apiVars
<1>7. OrderLockInv'
  BY <1>1, <1>2, <1>3 DEF IInv, TypeOK, OrderLockInv, Commit, MovesOn
<1>8. ProductLockInv'
  <2>1. ASSUME NEW u \in Consumers \ {w}, NEW p \in taken[u]
        PROVE  /\ stock'[p] = stock[p]
               /\ <<msg[u].order, p>> \notin reserved'
    <3>1. p \in Products /\ p \notin taken[w] /\ msg[u].order # o
      BY <1>3 DEF IInv, TypeOK, HandlerInv, ProductLockInv
    <3>2. <<msg[u].order, p>> \notin reserved
      BY DEF IInv, ProductLockInv, AlreadyReserved
    <3> QED
      BY <3>1, <3>2 DEF Commit
  <2> QED
    BY <1>2, <2>1 DEF IInv, ProductLockInv, MovesOn, FitsStock, AlreadyReserved, Remaining, Items
<1> QED
  BY <1>4, <1>5, <1>6, <1>7, <1>8 DEF IInv

(* What follows failOrder holds no row. *)
LEMMA AfterFailOrderMovesOn ==
  ASSUME IInv, NEW w \in Consumers, pc[w] \in {"failOrder", "failTransition"},
         NEW registered \in BOOLEAN, AfterFailOrder(w, registered)
  PROVE  MovesOn(w) /\ ConsumersTyped'
<1>1. CASE Finish(w)
  BY <1>1, FinishMovesOn
<1>2. CASE Continue(w, "publishDead")
  BY <1>2, ContinueMovesOn DEF IInv, HandlerInv, Statements
<1> QED
  BY <1>1, <1>2 DEF AfterFailOrder

(* A plain SELECT. *)
LEMMA FindToFailStep ==
  ASSUME IInv, NEW w \in Consumers, FindToFail(w)
  PROVE  IInv'
<1>1. CASE Continue(w, "failTransition")
  BY <1>1, ContinueMovesOn, MovesOnKeepsIInv DEF IInv, HandlerInv, FindToFail, Statements
<1>2. CASE AfterFailOrder(w, FALSE)
  BY <1>2, AfterFailOrderMovesOn, MovesOnKeepsIInv DEF FindToFail
<1> QED
  BY <1>1, <1>2 DEF FindToFail

(* The order that fails is nobody's: its row was free. *)
LEMMA TransitionToFailedStep ==
  ASSUME IInv, NEW w \in Consumers, TransitionToFailed(w)
  PROVE  IInv'
<1> DEFINE o == msg[w].order
<1>1. MovesOn(w) /\ ConsumersTyped'
  BY AfterFailOrderMovesOn, ThrowsMovesOn DEF TransitionToFailed
<1>2. CASE ~StillPending(o)
  BY <1>1, <1>2, MovesOnKeepsIInv DEF TransitionToFailed, dbVars
<1>3. CASE StillPending(o)
  <2>1. o \in Orders /\ o \notin Stray /\ verdict[w] \in Codes
    BY <1>3 DEF IInv, TypeOK, HandlerInv, RowInv, TransitionToFailed, StillPending, Message, Verdicts
  <2>2. TypeOK'
    BY <1>1, <1>3, <2>1 DEF IInv, TypeOK, TransitionToFailed, ConsumersTyped, brokerVars, apiVars
  <2>3. HandlerInv'
    BY <1>1, MovesOnKeepsHandlerInv DEF TransitionToFailed, brokerVars
  <2>4. RowInv'
    BY <1>3, <2>1, ConstantsAssumption
       DEF IInv, TypeOK, RowInv, TransitionToFailed, StillPending, Message,
       brokerVars, apiVars
  <2>5. \A u \in Consumers \ {w} :
          pc[u] = "items" => status'[msg[u].order] = status[msg[u].order]
    BY <1>3, <2>1 DEF IInv, TypeOK, TransitionToFailed, OrderFree, HoldsOrder, Message
  <2>6. OrderLockInv' /\ ProductLockInv'
    BY <1>1, <2>5, MovesOnKeepsLocks DEF TransitionToFailed
  <2> QED
    BY <2>2, <2>3, <2>4, <2>6 DEF IInv
<1> QED
  BY <1>2, <1>3

(* Only the dead letters grow. *)
LEMMA PublishDeadStep ==
  ASSUME IInv, NEW w \in Consumers, PublishDead(w)
  PROVE  IInv'
<1>1. MovesOn(w) /\ ConsumersTyped'
  BY FinishMovesOn, ThrowsMovesOn DEF PublishDead
<1>2. TypeOK'
  <2>1. [event |-> EventOf(msg[w]), verdict |-> verdict[w]] \in [event : Event, verdict : Verdicts]
    BY DEF IInv, TypeOK, PublishDead, EventOf, Event, Message
  <2> QED
    BY <1>1, <2>1 DEF IInv, TypeOK, PublishDead, ConsumersTyped, dbVars, apiVars
<1>3. HandlerInv'
  BY <1>1, MovesOnKeepsHandlerInv DEF PublishDead
<1>4. RowInv'
  BY DEF IInv, RowInv, PublishDead, dbVars, apiVars
<1>5. OrderLockInv' /\ ProductLockInv'
  BY <1>1, MovesOnKeepsLocks DEF PublishDead, dbVars
<1> QED
  BY <1>2, <1>3, <1>4, <1>5 DEF IInv

(* The next attempt is a message about the same order. *)
LEMMA PublishRetryStep ==
  ASSUME IInv, NEW w \in Consumers, PublishRetry(w)
  PROVE  IInv'
<1> DEFINE next == [msg[w] EXCEPT !.attempt = @ + 1]
<1>1. MovesOn(w) /\ ConsumersTyped'
  BY FinishMovesOn DEF PublishRetry
<1>2. next \in Message /\ next.order = msg[w].order
  <2>1. msg[w] \in Message /\ msg[w].attempt < MaxAttempts
    BY DEF IInv, TypeOK, PublishRetry, HasTierLeft
  <2>2. msg[w].attempt + 1 \in 1..MaxAttempts
    BY <2>1, ConstantsAssumption DEF Message
  <2> QED
    BY <2>1, <2>2 DEF Message
<1>3. TypeOK'
  BY <1>1, <1>2 DEF IInv, TypeOK, PublishRetry, ConsumersTyped, dbVars, apiVars
<1>4. HandlerInv'
  BY <1>1, MovesOnKeepsHandlerInv DEF PublishRetry
<1>5. RowInv'
  <2>1. msg[w] \in sent
    BY DEF IInv, HandlerInv, PublishRetry
  <2>2. next.order \in Stray \/ status[next.order] # "ABSENT"
    BY <1>2, <2>1 DEF IInv, RowInv
  <2>3. sent' = sent \union {next}
    BY DEF PublishRetry
  <2> HIDE DEF next
  <2> QED
    BY <2>2, <2>3 DEF IInv, RowInv, PublishRetry, dbVars, apiVars
<1>6. OrderLockInv' /\ ProductLockInv'
  BY <1>1, MovesOnKeepsLocks DEF PublishRetry, dbVars
<1> QED
  BY <1>3, <1>4, <1>5, <1>6 DEF IInv

(* The handler goes on to failOrder with its verdict. *)
LEMMA ExhaustRetriesStep ==
  ASSUME IInv, NEW w \in Consumers, ExhaustRetries(w)
  PROVE  IInv'
<1>1. MovesOn(w) /\ ConsumersTyped'
  BY DEF IInv, TypeOK, HandlerInv, ExhaustRetries, Goto, MovesOn, ConsumersTyped,
         Statements, Verdicts, Codes
<1> QED
  BY <1>1, MovesOnKeepsIInv DEF ExhaustRetries

(* A failed statement throws. *)
LEMMA TransientErrorStep ==
  ASSUME IInv, NEW w \in Consumers, TransientError(w)
  PROVE  IInv'
  BY ThrowsMovesOn, MovesOnKeepsIInv DEF TransientError

(* A dead process holds nothing. *)
LEMMA CrashStep ==
  ASSUME IInv, NEW w \in Consumers, Crash(w)
  PROVE  IInv'
  BY FinishMovesOn, MovesOnKeepsIInv DEF Crash

(* What a request does before its commit is nothing to the handlers. *)
LEMMA RequestKeepsHandlers ==
  ASSUME IInv, UNCHANGED <<dbVars, brokerVars, consumerVars>>
  PROVE  HandlerInv' /\ OrderLockInv' /\ ProductLockInv'
<1>1. HandlerInv'
  BY DEF IInv, HandlerInv, brokerVars, consumerVars
<1>2. OrderLockInv'
  BY DEF IInv, OrderLockInv, dbVars, consumerVars
<1>3. ProductLockInv'
  BY DEF IInv, ProductLockInv, FitsStock, AlreadyReserved, Remaining, dbVars, consumerVars
<1> QED
  BY <1>1, <1>2, <1>3

(* A request that creates an order holds an order nobody has a message of. *)
LEMMA CreatorKeepsIInv ==
  ASSUME IInv, NEW c \in Creators, CreatorStep(c)
  PROVE  IInv'
<1>1. CASE InsertOrder(c)
  <2>1. TypeOK'
    BY <1>1 DEF InsertOrder, IInv, TypeOK, dbVars, brokerVars, consumerVars
  <2>2. RowInv'
    BY <1>1 DEF InsertOrder, IInv, TypeOK, RowInv, dbVars, brokerVars
  <2> QED
    BY <1>1, <2>1, <2>2, RequestKeepsHandlers DEF InsertOrder, IInv
<1>2. CASE InsertItem(c)
  <2>1. TypeOK'
    BY <1>2 DEF InsertItem, IInv, TypeOK, Items, dbVars, brokerVars, consumerVars
  <2>2. RowInv'
    BY <1>2 DEF InsertItem, IInv, RowInv, dbVars, brokerVars
  <2> QED
    BY <1>2, <2>1, <2>2, RequestKeepsHandlers DEF InsertItem, IInv
<1>3. CASE CommitCreate(c)
  <2> DEFINE o == placing[c]
  <2>1. o \in Orders /\ o \notin Stray /\ status[o] = "ABSENT"
    BY <1>3 DEF IInv, TypeOK, RowInv, CommitCreate
  <2>2. FirstMessage(o, 0) \in Message
    BY <2>1, ConstantsAssumption DEF FirstMessage, Message
  <2>3. TypeOK'
    BY <1>3, <2>1, <2>2 DEF CommitCreate, EndCreate, IInv, TypeOK, consumerVars
  <2>4. HandlerInv'
    BY <1>3 DEF CommitCreate, IInv, HandlerInv, consumerVars
  <2>5. RowInv'
    BY <1>3, <2>1 DEF CommitCreate, EndCreate, FirstMessage, IInv, TypeOK, RowInv, consumerVars
  <2>6. OrderLockInv' /\ ProductLockInv'
    BY <1>3, <2>1 DEF CommitCreate, IInv, TypeOK, OrderLockInv, ProductLockInv,
       FitsStock, AlreadyReserved, Remaining, consumerVars
  <2> QED
    BY <2>3, <2>4, <2>5, <2>6 DEF IInv
<1>4. CASE AbortCreate(c)
  <2>1. TypeOK'
    BY <1>4 DEF AbortCreate, EndCreate, IInv, TypeOK, dbVars, brokerVars, consumerVars
  <2>2. RowInv'
    BY <1>4 DEF AbortCreate, EndCreate, IInv, TypeOK, RowInv, dbVars, brokerVars
  <2> QED
    BY <1>4, <2>1, <2>2, RequestKeepsHandlers DEF AbortCreate, IInv
<1> QED
  BY <1>1, <1>2, <1>3, <1>4 DEF CreatorStep

(* A reprocess request writes the row of a FAILED order, which nobody holds. *)
LEMMA OperatorKeepsIInv ==
  ASSUME IInv, NEW r \in Operators, OperatorStep(r)
  PROVE  IInv'
<1>1. CASE FindFailed(r) \/ AbortRequeue(r)
  <2>1. TypeOK'
    BY <1>1 DEF FindFailed, AbortRequeue, IInv, TypeOK, dbVars, brokerVars, consumerVars
  <2>2. RowInv'
    BY <1>1 DEF FindFailed, AbortRequeue, IInv, RowInv, dbVars, brokerVars
  <2> QED
    BY <1>1, <2>1, <2>2, RequestKeepsHandlers DEF FindFailed, AbortRequeue, IInv
<1>2. CASE Requeue(r)
  <2> DEFINE o == requeuing[r]
  <2>1. o \in Orders
    BY <1>2 DEF IInv, TypeOK, Requeue
  <2>2. CASE ~StillFailed(o)
    BY <1>2, <2>2 DEF Requeue, IInv, TypeOK, HandlerInv, RowInv, OrderLockInv,
       ProductLockInv, FitsStock, AlreadyReserved, Remaining, consumerVars
  <2>3. CASE StillFailed(o)
    <3>1. RequeuedMessage(o) \in Message
      BY <2>1, ConstantsAssumption DEF IInv, TypeOK, RequeuedMessage, FirstMessage, Message
    <3>2. TypeOK'
      BY <1>2, <2>1, <2>3, <3>1 DEF Requeue, IInv, TypeOK, Codes, consumerVars
    <3>3. HandlerInv'
      BY <1>2, <2>3 DEF Requeue, IInv, HandlerInv, consumerVars
    <3>4. RowInv'
      BY <1>2, <2>1, <2>3, ConstantsAssumption
         DEF Requeue, StillFailed, RequeuedMessage, FirstMessage,
         IInv, TypeOK, RowInv, Message, consumerVars
    <3>5. OrderLockInv' /\ ProductLockInv'
      BY <1>2, <2>1, <2>3 DEF Requeue, OrderFree, HoldsOrder, Message, IInv, TypeOK, OrderLockInv, ProductLockInv,
         FitsStock, AlreadyReserved, Remaining, consumerVars
    <3> QED
      BY <3>2, <3>3, <3>4, <3>5 DEF IInv
  <2> QED
    BY <2>2, <2>3
<1> QED
  BY <1>1, <1>2 DEF OperatorStep

(* No other invariant speaks of the inbox. *)
LEMMA PurgeInboxStep ==
  ASSUME IInv, PurgeInbox
  PROVE  IInv'
  BY DEF PurgeInbox, IInv, TypeOK, HandlerInv, RowInv, OrderLockInv, ProductLockInv,
     FitsStock, AlreadyReserved, Remaining, brokerVars, consumerVars, apiVars

(* An order reset by hand is one whose row is free. *)
LEMMA ManualResetStep ==
  ASSUME IInv, NEW o \in Orders, ManualReset(o)
  PROVE  IInv'
<1>1. TypeOK' /\ HandlerInv'
  BY DEF ManualReset, IInv, TypeOK, HandlerInv, brokerVars, consumerVars, apiVars
<1>2. RowInv'
  BY DEF ManualReset, IInv, TypeOK, RowInv, brokerVars, consumerVars, apiVars
<1>3. OrderLockInv' /\ ProductLockInv'
  BY DEF ManualReset, IInv, TypeOK, OrderLockInv, ProductLockInv,
     FitsStock, AlreadyReserved, Remaining, consumerVars
<1> QED
  BY <1>1, <1>2, <1>3 DEF IInv

(* Nothing changes. *)
LEMMA StutterStep ==
  ASSUME IInv, UNCHANGED vars
  PROVE  IInv'
  BY DEF vars, dbVars, brokerVars, consumerVars, apiVars, IInv, TypeOK, HandlerInv, RowInv,
     OrderLockInv, ProductLockInv, FitsStock, AlreadyReserved, Remaining

-----------------------------------------------------------------------------
(* The invariant holds in every reachable state                            *)

(* The empty database. *)
LEMMA InitIInv == Init => IInv
<1> SUFFICES ASSUME Init PROVE IInv
  OBVIOUS
<1>1. TypeOK
  BY ConstantsAssumption
     DEF Init, TypeOK, Codes, Verdicts, Statements, Event, Message, FirstMessage
<1>2. HandlerInv /\ OrderLockInv /\ ProductLockInv
  BY DEF Init, HandlerInv, OrderLockInv, ProductLockInv
<1>3. RowInv
  BY ConstantsAssumption DEF Init, RowInv, FirstMessage
<1> QED
  BY <1>1, <1>2, <1>3 DEF IInv

(* Every step keeps the invariant. *)
LEMMA NextKeepsIInv == IInv /\ [Next]_vars => IInv'
<1> SUFFICES ASSUME IInv, [Next]_vars PROVE IInv'
  OBVIOUS
<1>1. ASSUME NEW w \in Consumers, ConsumerStep(w) PROVE IInv'
  BY <1>1, DeliverStep, RegisterStep, FindOrderStep, CommitDuplicateStep,
     TransitionToProcessedStep, ReserveItemStep, CommitStep, FindToFailStep,
     TransitionToFailedStep, PublishDeadStep, PublishRetryStep, ExhaustRetriesStep,
     TransientErrorStep, CrashStep
     DEF ConsumerStep
<1>2. ASSUME NEW c \in Creators, CreatorStep(c) PROVE IInv'
  BY <1>2, CreatorKeepsIInv
<1>3. ASSUME NEW r \in Operators, OperatorStep(r) PROVE IInv'
  BY <1>3, OperatorKeepsIInv
<1>4. CASE PurgeInbox
  BY <1>4, PurgeInboxStep
<1>5. ASSUME NEW o \in Orders, ManualReset(o) PROVE IInv'
  BY <1>5, ManualResetStep
<1>6. CASE UNCHANGED vars
  BY <1>6, StutterStep
<1> QED
  BY <1>1, <1>2, <1>3, <1>4, <1>5, <1>6 DEF Next

(* Locks, rows and handlers stay consistent in every reachable state: an   *)
(* order row and a product row have one holder at a time, and what a       *)
(* transaction found to fit and not reserved stays so until it commits.    *)
THEOREM InvariantHolds == Spec => []IInv
  BY InitIInv, NextKeepsIInv, PTL DEF Spec

(* Every reachable state is well typed.  In particular products.stock is   *)
(* never negative, whatever the number of consumers.                       *)
THEOREM TypeCorrect == Spec => []TypeOK
<1>1. IInv => TypeOK
  BY DEF IInv
<1> QED
  BY <1>1, InvariantHolds, PTL

-----------------------------------------------------------------------------
(* Reservations                                                            *)

(* At the commit the handler has taken every item of its order. *)
LEMMA CommitTakesAll ==
  ASSUME IInv, NEW w \in Consumers, Commit(w)
  PROVE  taken[w] = Items(msg[w].order)
  BY DEF IInv, HandlerInv, Commit, AllItemsReserved, Remaining

(* Only a commit adds reservations, and only a commit takes stock. *)
LEMMA ReservationStep ==
  ASSUME IInv, [Next]_vars
  PROVE  \/ UNCHANGED stock /\ UNCHANGED reserved
         \/ \E w \in Consumers : Commit(w)
  BY ZenonT(40) DEF Next, ConsumerStep, CreatorStep, OperatorStep, vars, dbVars,
         Deliver, Register, FindOrder, CommitDuplicate, TransitionToProcessed, ReserveItem,
         FindToFail, TransitionToFailed, PublishDead, PublishRetry, ExhaustRetries,
         TransientError, Crash, InsertOrder, InsertItem, CommitCreate, AbortCreate,
         FindFailed, Requeue, AbortRequeue, PurgeInbox, ManualReset

(* An order has all its reservations or none, by the third layer alone:    *)
(* nothing is assumed of what an operator does to the order rows.          *)
THEOREM ReservationsAreWhole == Spec => []AllOrNothing
<1>1. Init => AllOrNothing
  BY DEF Init, AllOrNothing
<1>2. IInv /\ AllOrNothing /\ [Next]_vars => AllOrNothing'
  <2> SUFFICES ASSUME IInv, AllOrNothing, [Next]_vars PROVE AllOrNothing'
    OBVIOUS
  <2>1. CASE UNCHANGED reserved
    BY <2>1 DEF AllOrNothing, Items
  <2>2. ASSUME NEW w \in Consumers, Commit(w) PROVE AllOrNothing'
    <3>1. reserved' = reserved \union ({msg[w].order} \X Items(msg[w].order))
      BY <2>2, CommitTakesAll DEF Commit
    <3> QED
      BY <3>1 DEF AllOrNothing, Items
  <2> QED
    BY <2>1, <2>2, ReservationStep
<1> QED
  BY <1>1, <1>2, InvariantHolds, PTL DEF Spec

(* How the row of an order changes. *)
StatusMoves(o) ==
  \/ status'[o] = status[o]
  \/ status[o] = "ABSENT" /\ status'[o] = "PENDING"
  \/ status[o] = "PENDING" /\ status'[o] = "FAILED"
  \/ status[o] = "FAILED" /\ status'[o] = "PENDING"
  \/ ManualIntervention /\ status[o] = "PROCESSED" /\ status'[o] = "PENDING"

(* Reservations come with a commit; any other step moves an order as above. *)
LEMMA StatusStep ==
  ASSUME IInv, [Next]_vars, NEW o \in Orders
  PROVE  \/ UNCHANGED reserved /\ StatusMoves(o)
         \/ \E w \in Consumers : Commit(w)
<1>1. CASE UNCHANGED <<status, reserved>>
  BY <1>1 DEF StatusMoves
<1>2. ASSUME NEW w \in Consumers, TransitionToFailed(w)
      PROVE  UNCHANGED reserved /\ StatusMoves(o)
  BY <1>2 DEF IInv, TypeOK, TransitionToFailed, StillPending, StatusMoves
<1>3. ASSUME NEW c \in Creators, CommitCreate(c)
      PROVE  UNCHANGED reserved /\ StatusMoves(o)
  BY <1>3 DEF IInv, TypeOK, RowInv, CommitCreate, StatusMoves
<1>4. ASSUME NEW r \in Operators, Requeue(r)
      PROVE  UNCHANGED reserved /\ StatusMoves(o)
  BY <1>4 DEF IInv, TypeOK, Requeue, StillFailed, StatusMoves
<1>5. ASSUME NEW q \in Orders, ManualReset(q)
      PROVE  UNCHANGED reserved /\ StatusMoves(o)
  BY <1>5 DEF IInv, TypeOK, ManualReset, StatusMoves
<1>6. \/ UNCHANGED <<status, reserved>>
      \/ \E w \in Consumers : Commit(w) \/ TransitionToFailed(w)
      \/ \E c \in Creators : CommitCreate(c)
      \/ \E r \in Operators : Requeue(r)
      \/ \E q \in Orders : ManualReset(q)
  BY ZenonT(40) DEF Next, ConsumerStep, CreatorStep, OperatorStep, vars, dbVars,
         Deliver, Register, FindOrder, CommitDuplicate, TransitionToProcessed, ReserveItem,
         FindToFail, PublishDead, PublishRetry, ExhaustRetries, TransientError, Crash,
         InsertOrder, InsertItem, AbortCreate, FindFailed, AbortRequeue, PurgeInbox
<1> QED
  BY <1>1, <1>2, <1>3, <1>4, <1>5, <1>6

(* As long as nobody edits the order rows, the reserved orders are exactly *)
(* the PROCESSED ones, each with all its items.                            *)
THEOREM ReservedExactlyWhenProcessed ==
  ASSUME ~ManualIntervention
  PROVE  Spec => []ReservedIffProcessed
<1>1. Init => ReservedIffProcessed
  BY DEF Init, ReservedIffProcessed
<1>2. IInv /\ ReservedIffProcessed /\ [Next]_vars => ReservedIffProcessed'
  <2> SUFFICES ASSUME IInv, ReservedIffProcessed, [Next]_vars PROVE ReservedIffProcessed'
    OBVIOUS
  <2>1. CASE UNCHANGED reserved /\ \A o \in Orders : StatusMoves(o)
    BY <2>1 DEF ReservedIffProcessed, StatusMoves, Items
  <2>2. ASSUME NEW w \in Consumers, Commit(w) PROVE ReservedIffProcessed'
    <3> DEFINE o == msg[w].order
    <3>1. reserved' = reserved \union ({o} \X Items(o))
      BY <2>2, CommitTakesAll DEF Commit
    <3>2. o \in Orders /\ status[o] = "PENDING" /\ status' = [status EXCEPT ![o] = "PROCESSED"]
      BY <2>2 DEF IInv, TypeOK, OrderLockInv, Commit, Message
    <3>3. status \in [Orders -> {"ABSENT", "PENDING", "PROCESSED", "FAILED"}]
      BY DEF IInv, TypeOK
    <3> HIDE DEF o
    <3> SUFFICES ASSUME NEW q \in Orders, NEW p \in Products
                 PROVE  <<q, p>> \in reserved' <=> (status'[q] = "PROCESSED" /\ p \in Items(q))
      BY DEF ReservedIffProcessed, Items
    <3>4. <<q, p>> \in reserved <=> (status[q] = "PROCESSED" /\ p \in Items(q))
      BY DEF ReservedIffProcessed
    <3>5. <<q, p>> \in reserved' <=> (<<q, p>> \in reserved \/ (q = o /\ p \in Items(q)))
      BY <3>1
    <3> QED
      BY <3>2, <3>3, <3>4, <3>5
  <2>3. CASE ~ \E w \in Consumers : Commit(w)
    <3>1. UNCHANGED reserved
      BY <2>3, ReservationStep
    <3>2. \A o \in Orders : StatusMoves(o)
      BY <2>3, StatusStep
    <3> QED
      BY <2>1, <3>1, <3>2
  <2> QED
    BY <2>2, <2>3
<1> QED
  BY <1>1, <1>2, InvariantHolds, PTL DEF Spec

(* No late, stale or repeated delivery, retry or reprocess request moves a *)
(* PROCESSED order; only an operator editing its row could.                *)
THEOREM ProcessedStaysProcessed ==
  ASSUME ~ManualIntervention
  PROVE  Spec => ProcessedIsFinal
<1> DEFINE Final == \A o \in Orders : status[o] = "PROCESSED" => status'[o] = "PROCESSED"
<1>1. IInv /\ [Next]_vars => Final
  <2> SUFFICES ASSUME IInv, [Next]_vars, NEW o \in Orders, status[o] = "PROCESSED"
               PROVE  status'[o] = "PROCESSED"
    OBVIOUS
  <2>1. CASE StatusMoves(o)
    BY <2>1 DEF StatusMoves
  <2>2. ASSUME NEW w \in Consumers, Commit(w) PROVE status'[o] = "PROCESSED"
    BY <2>2 DEF IInv, TypeOK, Commit
  <2> QED
    BY <2>1, <2>2, StatusStep
<1>2. IInv /\ [Next]_vars => [Final]_vars
  BY <1>1
<1> QED
  BY <1>2, InvariantHolds, PTL DEF Spec, ProcessedIsFinal

-----------------------------------------------------------------------------
(* The ledger                                                              *)

(* ck_orders_failure_pair: an order has a failure code when it is FAILED,  *)
(* and only then.                                                          *)
FailurePair == \A o \in Orders : status[o] = "FAILED" <=> code[o] # "NONE"

(* Which steps write the order rows. *)
LEMMA RowStep ==
  ASSUME [Next]_vars
  PROVE  \/ UNCHANGED <<status, code, gen, stock, reserved>>
         \/ \E w \in Consumers : Commit(w) \/ TransitionToFailed(w)
         \/ \E c \in Creators : CommitCreate(c)
         \/ \E r \in Operators : Requeue(r)
         \/ \E o \in Orders : ManualReset(o)
  BY ZenonT(40) DEF Next, ConsumerStep, CreatorStep, OperatorStep, vars, dbVars,
         Deliver, Register, FindOrder, CommitDuplicate, TransitionToProcessed, ReserveItem,
         FindToFail, PublishDead, PublishRetry, ExhaustRetries, TransientError, Crash,
         InsertOrder, InsertItem, AbortCreate, FindFailed, AbortRequeue, PurgeInbox

(* What is recorded as the failure of an order that fails. *)
LEMMA FailureIsBusinessOrExhaustion ==
  ASSUME IInv, NEW w \in Consumers, TransitionToFailed(w), StillPending(msg[w].order)
  PROVE  /\ msg[w].order \in Orders
         /\ verdict[w] \in {"INSUFFICIENT_STOCK", "RETRIES_EXHAUSTED"}
  BY DEF IInv, TypeOK, HandlerInv, RowInv, TransitionToFailed, StillPending, Message,
         Verdicts, Codes

(* Each step that writes a status writes the code that goes with it. *)
LEMMA FailurePairStep ==
  ASSUME IInv, FailurePair, [Next]_vars
  PROVE  FailurePair'
<1> USE DEF FailurePair
<1>1. ASSUME NEW w \in Consumers, Commit(w) PROVE FailurePair'
  BY <1>1 DEF IInv, TypeOK, Commit
<1>2. ASSUME NEW w \in Consumers, TransitionToFailed(w) PROVE FailurePair'
  BY <1>2, FailureIsBusinessOrExhaustion DEF IInv, TypeOK, TransitionToFailed
<1>3. ASSUME NEW c \in Creators, CommitCreate(c) PROVE FailurePair'
  BY <1>3 DEF IInv, TypeOK, RowInv, CommitCreate
<1>4. ASSUME NEW r \in Operators, Requeue(r) PROVE FailurePair'
  BY <1>4 DEF IInv, TypeOK, Requeue
<1>5. ASSUME NEW o \in Orders, ManualReset(o) PROVE FailurePair'
  BY <1>5 DEF IInv, TypeOK, ManualReset
<1> QED
  BY <1>1, <1>2, <1>3, <1>4, <1>5, RowStep

(* The failure code and the status of a row never disagree, so the CHECK    *)
(* constraint never refuses an UPDATE, even of a row edited by hand.       *)
THEOREM FailurePairHolds == Spec => []FailurePair
<1>1. Init => FailurePair
  BY DEF Init, FailurePair
<1>2. IInv /\ FailurePair /\ [Next]_vars => FailurePair'
  BY FailurePairStep
<1> QED
  BY <1>1, <1>2, InvariantHolds, PTL DEF Spec

(* One commit takes every item, and nothing else happens in between. *)
LEMMA CommitConcludes ==
  ASSUME IInv, FailurePair, NEW w \in Consumers, Commit(w)
  PROVE  Ledger!Conclude(msg[w].order)
<1> DEFINE o == msg[w].order
<1>1. o \in Orders /\ status[o] = "PENDING" /\ code[o] = "NONE"
  BY DEF IInv, TypeOK, OrderLockInv, Commit, Message, FailurePair
<1>2. taken[w] = Ledger!Items(o)
  BY CommitTakesAll DEF Items, Ledger!Items
<1>3. Ledger!Fits(o) /\ \A p \in Ledger!Items(o) : <<o, p>> \notin reserved
  BY <1>2 DEF IInv, ProductLockInv, FitsStock, AlreadyReserved, Ledger!Fits
<1>4. stock' = Ledger!Take(o)
  BY <1>2 DEF Commit, Ledger!Take
<1>5. reserved' = reserved \union ({o} \X Ledger!Items(o))
  BY <1>2 DEF Commit
<1>6. UNCHANGED <<code, gen>> /\ status' = [status EXCEPT ![o] = "PROCESSED"]
  BY <1>1 DEF Commit, IInv, TypeOK
<1> QED
  BY <1>1, <1>3, <1>4, <1>5, <1>6 DEF Ledger!Conclude

(* A step of the transactions is a step of the ledger, or none. *)
LEMMA StepImplementsLedger ==
  ASSUME IInv, FailurePair, [Next]_vars
  PROVE  [Ledger!Next]_Ledger!vars
<1>1. ASSUME NEW w \in Consumers, Commit(w) PROVE Ledger!Next
  <2>1. msg[w].order \in Orders
    BY <1>1 DEF IInv, TypeOK, Commit, Message
  <2> QED
    BY <1>1, <2>1, CommitConcludes DEF Ledger!Next
<1>2. ASSUME NEW w \in Consumers, TransitionToFailed(w), StillPending(msg[w].order)
      PROVE  Ledger!Next
  <2>1. Ledger!Fail(msg[w].order, verdict[w])
    BY <1>2 DEF TransitionToFailed, StillPending, Ledger!Fail
  <2> QED
    BY <1>2, <2>1, FailureIsBusinessOrExhaustion DEF Ledger!Next
<1>3. ASSUME NEW w \in Consumers, TransitionToFailed(w), ~StillPending(msg[w].order)
      PROVE  UNCHANGED Ledger!vars
  BY <1>3 DEF TransitionToFailed, Ledger!vars
<1>4. ASSUME NEW c \in Creators, CommitCreate(c) PROVE Ledger!Next
  <2>1. placing[c] \in Orders /\ Ledger!Place(placing[c])
    BY <1>4 DEF IInv, TypeOK, RowInv, CommitCreate, Ledger!Place
  <2> QED
    BY <2>1 DEF Ledger!Next
<1>5. ASSUME NEW r \in Operators, Requeue(r), StillFailed(requeuing[r]) PROVE Ledger!Next
  <2>1. requeuing[r] \in Orders /\ Ledger!Requeue(requeuing[r])
    BY <1>5 DEF IInv, TypeOK, Requeue, StillFailed, Ledger!Requeue
  <2> QED
    BY <2>1 DEF Ledger!Next
<1>6. ASSUME NEW r \in Operators, Requeue(r), ~StillFailed(requeuing[r])
      PROVE  UNCHANGED Ledger!vars
  BY <1>6 DEF Requeue, Ledger!vars
<1>7. ASSUME NEW o \in Orders, ManualReset(o) PROVE Ledger!Next
  <2>1. Ledger!Reset(o)
    BY <1>7 DEF ManualReset, Ledger!Reset
  <2> QED
    BY <2>1 DEF Ledger!Next
<1>8. CASE UNCHANGED <<status, code, gen, stock, reserved>>
  BY <1>8 DEF Ledger!vars
<1> QED
  BY <1>1, <1>2, <1>3, <1>4, <1>5, <1>6, <1>7, <1>8, RowStep

(* Whatever the interleaving of transactions, deliveries, errors, crashes, *)
(* lost COMMIT answers and requests, the committed rows move as OrderLedger*)
(* says: order by order, one whole step at a time.                         *)
THEOREM RefinesLedger == Spec => ImplementsLedger
<1>1. Init => Ledger!Init
  BY DEF Init, Ledger!Init
<1>2. IInv /\ FailurePair /\ [Next]_vars => [Ledger!Next]_Ledger!vars
  BY StepImplementsLedger
<1> QED
  BY <1>1, <1>2, InvariantHolds, FailurePairHolds, PTL
     DEF Spec, ImplementsLedger, Ledger!Spec

-----------------------------------------------------------------------------
(* Refusals                                                                *)

Short(o) == \E p \in Items(o) : stock[p] < Quantity[o][p]

(* The verdict a handler carries from one transaction to the next is still *)
(* true when the second one records it: a product's stock never grows.     *)
VerdictInv ==
  /\ \A w \in Consumers :
       verdict[w] = "INSUFFICIENT_STOCK" => pc[w] # "idle" /\ Short(msg[w].order)
  /\ \A o \in Orders : code[o] = "INSUFFICIENT_STOCK" => Short(o)

(* Nothing gives stock back. *)
LEMMA StockOnlyShrinks ==
  ASSUME IInv, [Next]_vars, NEW o \in Orders, Short(o)
  PROVE  Short(o)'
<1>1. CASE UNCHANGED stock
  BY <1>1 DEF Short, Items
<1>2. ASSUME NEW w \in Consumers, Commit(w) PROVE Short(o)'
  <2>1. PICK p \in Items(o) : stock[p] < Quantity[o][p]
    BY DEF Short
  <2>2. p \in Products /\ stock[p] \in Nat /\ Quantity[o][p] \in Nat
    BY ConstantsAssumption DEF IInv, TypeOK, Items
  <2>3. msg[w].order \in Orders /\ Quantity[msg[w].order][p] \in Nat
    <3>1. msg[w].order \in Orders
      BY <1>2 DEF IInv, TypeOK, Commit, Message
    <3> QED
      BY <2>2, <3>1, ConstantsAssumption
  <2>4. stock'[p] = stock[p] - Quantity[msg[w].order][p] \/ stock'[p] = stock[p]
    BY <1>2, <2>2 DEF Commit
  <2>5. stock'[p] < Quantity[o][p]
    BY <2>1, <2>2, <2>3, <2>4
  <2> QED
    BY <2>5 DEF Short, Items
<1> QED
  BY <1>1, <1>2, ReservationStep

(* Where a handler's verdict comes from: it had it, or it has just found a *)
(* product short.                                                          *)
LEMMA VerdictStep ==
  ASSUME IInv, VerdictInv, [Next]_vars,
         NEW w \in Consumers, verdict'[w] = "INSUFFICIENT_STOCK"
  PROVE  pc'[w] # "idle" /\ msg'[w] = msg[w] /\ pc[w] # "idle" /\ Short(msg[w].order)
<1> DEFINE Kept == pc'[w] # "idle" /\ msg'[w] = msg[w] /\ pc[w] # "idle" /\ Short(msg[w].order)
<1>1. CASE UNCHANGED consumerVars
  BY <1>1 DEF VerdictInv, consumerVars
<1>2. ASSUME NEW u \in Consumers, u # w, ConsumerStep(u) PROVE Kept
  <2>1. pc'[w] = pc[w] /\ msg'[w] = msg[w] /\ verdict'[w] = verdict[w]
    BY <1>2 DEF IInv, TypeOK, ConsumerStep, Deliver, Register, FindOrder, CommitDuplicate,
       TransitionToProcessed, ReserveItem, Commit, FindToFail, TransitionToFailed, PublishDead,
       PublishRetry, ExhaustRetries, TransientError, Crash, AfterFailOrder, Finish, Throws,
       RollbackAndFail, Continue, Goto
  <2> QED
    BY <2>1 DEF VerdictInv
<1>3. CASE ReserveItem(w)
  <2>1. \A o \in Orders : \A p \in Items(o) : ~FitsStock(o, p) => stock[p] < Quantity[o][p]
    <3>1. \A o \in Orders : \A p \in Items(o) : stock[p] \in Nat /\ Quantity[o][p] \in Nat
      BY ConstantsAssumption DEF IInv, TypeOK, Items
    <3> QED
      BY <3>1 DEF FitsStock
  <2>2. msg[w] \in Message /\ msg[w].order \in Orders
    BY <1>3 DEF IInv, TypeOK, ReserveItem, Message
  <2> QED
    BY <1>3, <2>1, <2>2
       DEF IInv, TypeOK, ReserveItem, RollbackAndFail, Goto, Finish, Short, VerdictInv
<1>4. CASE FindToFail(w) \/ TransitionToFailed(w)
  BY <1>4 DEF IInv, TypeOK, FindToFail, TransitionToFailed, AfterFailOrder, Finish, Throws,
     Continue, Goto, VerdictInv
<1>5. CASE \/ Deliver(w) \/ Register(w) \/ FindOrder(w) \/ CommitDuplicate(w)
           \/ TransitionToProcessed(w) \/ Commit(w)
  BY <1>5 DEF IInv, TypeOK, Deliver, Register, FindOrder, CommitDuplicate,
     TransitionToProcessed, Commit, Finish, Throws, RollbackAndFail, Continue, Goto, VerdictInv
<1>6. CASE PublishDead(w) \/ PublishRetry(w) \/ ExhaustRetries(w) \/ TransientError(w) \/ Crash(w)
  BY <1>6 DEF IInv, TypeOK, PublishDead, PublishRetry, ExhaustRetries, TransientError, Crash,
     Finish, Throws, Goto, VerdictInv
<1>7. UNCHANGED consumerVars \/ \E u \in Consumers : ConsumerStep(u)
  BY DEF Next, CreatorStep, OperatorStep, vars, InsertOrder, InsertItem, CommitCreate,
     AbortCreate, FindFailed, Requeue, AbortRequeue, PurgeInbox, ManualReset
<1> QED
  BY <1>1, <1>2, <1>3, <1>4, <1>5, <1>6, <1>7 DEF ConsumerStep

(* The refusal stays true up to the record and after it. *)
LEMMA VerdictInvStep ==
  ASSUME IInv, VerdictInv, [Next]_vars
  PROVE  VerdictInv'
<1>1. ASSUME NEW w \in Consumers, verdict'[w] = "INSUFFICIENT_STOCK"
      PROVE  pc'[w] # "idle" /\ Short(msg[w].order)'
  <2>1. /\ pc'[w] # "idle" /\ msg'[w] = msg[w] /\ pc[w] # "idle" /\ Short(msg[w].order)
    BY <1>1, VerdictStep
  <2>2. msg[w].order \in Orders
    BY <2>1 DEF IInv, TypeOK, Message
  <2>3. \A o \in Orders : Short(o) => Short(o)'
    BY StockOnlyShrinks
  <2> QED
    BY <2>1, <2>2, <2>3 DEF Short, Items
<1>2. ASSUME NEW o \in Orders, code'[o] = "INSUFFICIENT_STOCK"
      PROVE  Short(o)'
  <2>1. Short(o)
    <3>1. CASE code'[o] = code[o]
      BY <1>2, <3>1 DEF VerdictInv
    <3>2. ASSUME NEW w \in Consumers, TransitionToFailed(w), code'[o] # code[o] PROVE Short(o)
      BY <1>2, <3>2 DEF IInv, TypeOK, TransitionToFailed, VerdictInv
    <3>3. ASSUME NEW w \in Consumers, Commit(w), code'[o] # code[o] PROVE Short(o)
      BY <1>2, <3>3 DEF IInv, TypeOK, Commit
    <3>4. ASSUME NEW r \in Operators, Requeue(r), code'[o] # code[o] PROVE Short(o)
      BY <1>2, <3>4 DEF IInv, TypeOK, Requeue
    <3> QED
      BY <3>1, <3>2, <3>3, <3>4, RowStep DEF CommitCreate, ManualReset
  <2> QED
    BY <2>1, StockOnlyShrinks
<1> QED
  BY <1>1, <1>2 DEF VerdictInv, Short, FitsStock, Items

(* An order refused for want of stock still does not fit, for any number   *)
(* of transactions between the one that found out and the one that wrote   *)
(* it down.                                                                *)
THEOREM RefusalsAreTrue == Spec => []RefusedOnlyWhenShort
<1>1. Init => VerdictInv
  BY DEF Init, VerdictInv
<1>2. IInv /\ VerdictInv /\ [Next]_vars => VerdictInv'
  BY VerdictInvStep
<1>3. VerdictInv => RefusedOnlyWhenShort
  BY DEF VerdictInv, RefusedOnlyWhenShort, Short
<1> QED
  BY <1>1, <1>2, <1>3, InvariantHolds, PTL DEF Spec

-----------------------------------------------------------------------------
(* Waiting                                                                 *)

(* A set of products has a smallest one. *)
LEMMA SmallestProduct ==
  ASSUME NEW T \in SUBSET Products, T # {}
  PROVE  \E p \in T : \A q \in T : p <= q
<1> DEFINE R == OpToRel(<, Nat)
<1>1. T \subseteq Nat
  BY ConstantsAssumption
<1>2. PICK p \in T : \A q \in T : <<q, p>> \notin R
  <2> HIDE DEF R
  <2>1. IsWellFoundedOn(R, Nat)
    BY NatLessThanWellFounded DEF R
  <2> QED
    BY <1>1, <2>1, WFMin
<1>3. ASSUME NEW q \in T PROVE p <= q
  <2>1. p \in Nat /\ q \in Nat
    BY <1>1
  <2>2. ~(q < p)
    BY <1>2, <2>1 DEF OpToRel
  <2> QED
    BY <2>1, <2>2
<1> QED
  BY <1>3

(* What a handler waits for tells how far the one it waits for has come:   *)
(* the inbox key first, then the order row, then products going up.        *)
LEMMA WaitsUpwards ==
  ASSUME IInv, NEW u \in Consumers, NEW w \in Consumers, ConsumerWaits(u, w)
  PROVE  /\ pc[w] \in {"find", "duplicate", "transition", "items"}
         /\ pc[u] # "register" => pc[w] = "items"
         /\ pc[u] = "items" =>
              \E p \in Products : IsNextItem(u, p) /\ \A q \in Products : IsNextItem(w, q) => p < q
<1>1. CASE pc[u] = "register" /\ HoldsKey(w, EventOf(msg[u]))
  BY <1>1 DEF HoldsKey
<1>2. CASE pc[u] \in {"transition", "failTransition"} /\ HoldsOrder(w, msg[u].order)
  BY <1>2 DEF HoldsOrder
<1>3. ASSUME pc[u] = "items", NEW p \in Products, IsNextItem(u, p), HoldsProduct(w, p)
      PROVE  /\ pc[w] = "items"
             /\ \A q \in Products : IsNextItem(w, q) => p < q
  BY <1>3 DEF IInv, HandlerInv, ProductLockInv, HoldsProduct, IsNextItem
<1> QED
  BY <1>1, <1>2, <1>3 DEF ConsumerWaits

(* No number of consumers, however their deliveries interleave, can wait   *)
(* for each other in a circle: the sort of the items by product_id, after  *)
(* the inbox key and the order row, is enough among consumers.             *)
THEOREM ConsumersNeverDeadlock == Spec => []NoConsumerWaitCycle
<1>1. IInv => NoConsumerWaitCycle
  <2> SUFFICES ASSUME IInv, NEW S \in SUBSET Consumers, S # {}
               PROVE  \E w \in S : \A u \in S :
                        ~(ConsumerWaits(u, w) /\ \E v \in Consumers : ConsumerWaits(w, v))
    BY DEF NoConsumerWaitCycle
  <2>1. CASE \E w \in S : ~ \E v \in Consumers : ConsumerWaits(w, v)
    BY <2>1
  <2>2. CASE \E w \in S : pc[w] = "register"
    BY <2>2, WaitsUpwards
  <2>3. CASE /\ \A w \in S : pc[w] # "register"
             /\ \E w \in S : pc[w] # "items"
    BY <2>3, WaitsUpwards
  <2>4. CASE /\ \A w \in S : pc[w] = "items"
             /\ \A w \in S : \E v \in Consumers : ConsumerWaits(w, v)
    <3> DEFINE T == {p \in Products : \E w \in S : IsNextItem(w, p)}
    <3>1. T # {}
      BY <2>4, WaitsUpwards
    <3>2. PICK p \in T : \A q \in T : p <= q
      BY <3>1, SmallestProduct
    <3>3. PICK w \in S : IsNextItem(w, p)
      BY <3>2
    <3>4. ASSUME NEW u \in S PROVE ~ConsumerWaits(u, w)
      <4> SUFFICES ASSUME ConsumerWaits(u, w) PROVE FALSE
        OBVIOUS
      <4>1. PICK q \in Products : IsNextItem(u, q) /\ q < p
        BY <2>4, <3>2, <3>3, WaitsUpwards
      <4>2. p <= q /\ p \in Nat /\ q \in Nat
        BY <3>2, <4>1, ConstantsAssumption
      <4> QED
        BY <4>1, <4>2
    <3> QED
      BY <3>4
  <2> QED
    BY <2>1, <2>2, <2>3, <2>4
<1> QED
  BY <1>1, InvariantHolds, PTL

-----------------------------------------------------------------------------
(* The event a PENDING order waits for                                     *)

(* No message and no inbox row is newer than its order's last event, and   *)
(* an order that is not there has had none.                                *)
EventAgeInv ==
  /\ \A m \in sent : m.gen <= gen[m.order]
  /\ \A e \in inbox : e.gen <= gen[e.order]
  /\ \A o \in Orders : status[o] = "ABSENT" => gen[o] = 0 /\ \A e \in inbox : e.order # o

(* A delivery about to be recorded as a duplicate is not of the event its  *)
(* order is waiting for.                                                   *)
DuplicateInv ==
  \A w \in Consumers :
    /\ pc[w] \in {"duplicate", "transition"} => status[msg[w].order] # "ABSENT"
    /\ pc[w] = "duplicate" =>
         status[msg[w].order] # "PENDING" \/ msg[w].gen < gen[msg[w].order]

CarrierInv == EventAgeInv /\ DuplicateInv /\ PendingHasCarrier

(* The steps that leave the rows and the messages alone. *)
LEMMA LocalKeepsCarrierInv ==
  ASSUME IInv, CarrierInv, UNCHANGED <<dbVars, sent>>, DuplicateInv'
  PROVE  CarrierInv'
  BY DEF CarrierInv, EventAgeInv, PendingHasCarrier, dbVars

(* A handler that leaves the transaction makes no duplicate. *)
LEMMA MovesOnKeepsDuplicateInv ==
  ASSUME IInv, CarrierInv, NEW w \in Consumers, MovesOn(w),
         pc'[w] \notin {"duplicate", "transition"}, UNCHANGED <<status, gen>>
  PROVE  DuplicateInv'
  BY DEF CarrierInv, DuplicateInv, MovesOn

(* Consumers' steps. *)
LEMMA ConsumerKeepsCarrierInv ==
  ASSUME IInv, CarrierInv, NEW w \in Consumers, ConsumerStep(w)
  PROVE  CarrierInv'
<1> DEFINE o == msg[w].order
<1>1. CASE FindOrder(w) \/ TransitionToProcessed(w)
  <2>1. UNCHANGED <<dbVars, sent>> /\ pc[w] # "idle"
    BY <1>1 DEF FindOrder, TransitionToProcessed, brokerVars
  <2>2. \A u \in Consumers \ {w} : pc'[u] = pc[u] /\ msg'[u] = msg[u]
    BY <1>1 DEF IInv, TypeOK, FindOrder, TransitionToProcessed, RollbackAndFail, Continue,
       Throws, Finish, Goto
  <2>3. pc'[w] = "duplicate" => status[o] \notin {"PENDING", "ABSENT"} /\ msg'[w] = msg[w]
    BY <1>1 DEF IInv, TypeOK, FindOrder, TransitionToProcessed, RollbackAndFail, Continue,
       Throws, Finish, Goto, CarrierInv, DuplicateInv, StillPending
  <2>4. pc'[w] = "transition" => status[o] # "ABSENT" /\ msg'[w] = msg[w]
    BY <1>1 DEF IInv, TypeOK, FindOrder, TransitionToProcessed, RollbackAndFail, Continue,
       Throws, Finish, Goto
  <2>5. DuplicateInv'
    BY <2>1, <2>2, <2>3, <2>4 DEF CarrierInv, DuplicateInv, dbVars
  <2> QED
    BY <2>1, <2>5, LocalKeepsCarrierInv
<1>2. CASE \/ Deliver(w) \/ Register(w) \/ ReserveItem(w) \/ FindToFail(w)
           \/ PublishDead(w) \/ ExhaustRetries(w) \/ TransientError(w) \/ Crash(w)
  <2>1. UNCHANGED <<dbVars, sent>>
    BY <1>2 DEF Deliver, Register, ReserveItem, FindToFail, PublishDead, ExhaustRetries,
       TransientError, Crash, brokerVars
  <2>2. \A u \in Consumers \ {w} : pc'[u] = pc[u] /\ msg'[u] = msg[u]
    BY <1>2 DEF IInv, TypeOK, Deliver, Register, ReserveItem, FindToFail, PublishDead,
       ExhaustRetries, TransientError, Crash, RollbackAndFail, Continue, AfterFailOrder,
       Throws, Finish, Goto
  <2>3. pc'[w] \notin {"duplicate", "transition"}
    BY <1>2 DEF IInv, TypeOK, Deliver, Register, ReserveItem, FindToFail, PublishDead,
       ExhaustRetries, TransientError, Crash, RollbackAndFail, Continue, AfterFailOrder,
       Throws, Finish, Goto
  <2>4. DuplicateInv'
    BY <2>1, <2>2, <2>3 DEF CarrierInv, DuplicateInv, dbVars
  <2> QED
    BY <2>1, <2>4, LocalKeepsCarrierInv
<1>3. CASE CommitDuplicate(w)
  <2> DEFINE e == EventOf(msg[w])
  <2>1. /\ e.gen <= gen[o] /\ e.order = o /\ status[o] # "ABSENT"
        /\ status[o] # "PENDING" \/ e.gen < gen[o]
    BY <1>3 DEF CommitDuplicate, IInv, HandlerInv, CarrierInv, EventAgeInv, DuplicateInv, EventOf
  <2>2. UNCHANGED <<status, gen, sent>> /\ inbox' = inbox \union {e}
    BY <1>3 DEF CommitDuplicate, brokerVars
  <2>3. MovesOn(w) /\ pc'[w] \notin {"duplicate", "transition"}
    BY <1>3, FinishMovesOn, ThrowsMovesOn DEF CommitDuplicate, Finish, Throws, Goto, IInv, TypeOK
  <2>4. DuplicateInv'
    BY <2>2, <2>3, MovesOnKeepsDuplicateInv
  <2> HIDE DEF e, o
  <2>5. EventAgeInv'
    BY <2>1, <2>2 DEF CarrierInv, EventAgeInv
  <2>6. PendingHasCarrier'
    <3> SUFFICES ASSUME NEW q \in Orders, status[q] = "PENDING"
                 PROVE  /\ FirstMessage(q, gen[q]) \in sent
                        /\ [order |-> q, gen |-> gen[q]] \notin inbox \union {e}
      BY <2>2 DEF PendingHasCarrier
    <3>1. [order |-> q, gen |-> gen[q]] # e
      BY <2>1 DEF IInv, TypeOK
    <3> QED
      BY <3>1 DEF CarrierInv, PendingHasCarrier
  <2> QED
    BY <2>4, <2>5, <2>6 DEF CarrierInv
<1>4. CASE Commit(w)
  <2> DEFINE e == EventOf(msg[w])
  <2>1. /\ e.gen <= gen[o] /\ e.order = o /\ o \in Orders /\ status[o] = "PENDING"
    BY <1>4 DEF Commit, IInv, TypeOK, HandlerInv, OrderLockInv, CarrierInv, EventAgeInv, EventOf, Message
  <2>2. /\ UNCHANGED <<gen, sent>> /\ inbox' = inbox \union {e}
        /\ status' = [status EXCEPT ![o] = "PROCESSED"]
    BY <1>4 DEF Commit, brokerVars
  <2>3. status \in [Orders -> {"ABSENT", "PENDING", "PROCESSED", "FAILED"}]
    BY DEF IInv, TypeOK
  <2>4. MovesOn(w) /\ pc'[w] \notin {"duplicate", "transition"}
    BY <1>4, CommitMovesOn DEF Commit, Finish, Throws, Goto, IInv, TypeOK
  <2>5. \A u \in Consumers : pc[u] # "idle" => msg[u].order \in Orders
    BY DEF IInv, TypeOK, Message
  <2> HIDE DEF e, o
  <2>6. DuplicateInv'
    BY <2>2, <2>3, <2>4, <2>5 DEF CarrierInv, DuplicateInv, MovesOn
  <2>7. EventAgeInv'
    BY <2>1, <2>2, <2>3 DEF CarrierInv, EventAgeInv
  <2>8. PendingHasCarrier'
    BY <2>1, <2>2, <2>3 DEF CarrierInv, PendingHasCarrier
  <2> QED
    BY <2>6, <2>7, <2>8 DEF CarrierInv
<1>5. CASE TransitionToFailed(w)
  <2>1. MovesOn(w) /\ pc'[w] \notin {"duplicate", "transition"}
    BY <1>5, AfterFailOrderMovesOn, ThrowsMovesOn
       DEF TransitionToFailed, AfterFailOrder, Continue, Finish, Throws, Goto, IInv, TypeOK
  <2>2. /\ UNCHANGED <<gen, sent, inbox>>
        /\ \A q \in Orders : \/ status'[q] = status[q]
                             \/ status[q] = "PENDING" /\ status'[q] = "FAILED"
    BY <1>5 DEF TransitionToFailed, StillPending, IInv, TypeOK, brokerVars
  <2>3. \A u \in Consumers : pc[u] # "idle" => msg[u].order \in Orders
    BY DEF IInv, TypeOK, Message
  <2>4. DuplicateInv'
    BY <2>1, <2>2, <2>3 DEF CarrierInv, DuplicateInv, MovesOn
  <2>5. EventAgeInv' /\ PendingHasCarrier'
    BY <2>2 DEF CarrierInv, EventAgeInv, PendingHasCarrier
  <2> QED
    BY <2>4, <2>5 DEF CarrierInv
<1>6. CASE PublishRetry(w)
  <2> DEFINE next == [msg[w] EXCEPT !.attempt = @ + 1]
  <2>1. msg[w] \in sent /\ msg[w] \in Message
    BY <1>6 DEF PublishRetry, IInv, TypeOK, HandlerInv
  <2>2. next.gen = msg[w].gen /\ next.order = msg[w].order
    BY <2>1 DEF Message
  <2>3. UNCHANGED dbVars /\ sent' = sent \union {next}
    BY <1>6 DEF PublishRetry
  <2>4. next.gen <= gen[next.order]
    BY <2>1, <2>2 DEF CarrierInv, EventAgeInv
  <2>5. MovesOn(w) /\ pc'[w] \notin {"duplicate", "transition"}
    BY <1>6, FinishMovesOn DEF PublishRetry, Finish, IInv, TypeOK
  <2>6. DuplicateInv'
    BY <2>3, <2>5, MovesOnKeepsDuplicateInv DEF dbVars
  <2> HIDE DEF next
  <2>7. EventAgeInv' /\ PendingHasCarrier'
    BY <2>3, <2>4 DEF CarrierInv, EventAgeInv, PendingHasCarrier, dbVars
  <2> QED
    BY <2>6, <2>7 DEF CarrierInv
<1> QED
  BY <1>1, <1>2, <1>3, <1>4, <1>5, <1>6 DEF ConsumerStep

(* The steps of everybody else. *)
LEMMA OthersKeepCarrierInv ==
  ASSUME IInv, CarrierInv, ~ManualIntervention, [Next]_vars,
         ~ \E w \in Consumers : ConsumerStep(w)
  PROVE  CarrierInv'
<1>1. ASSUME NEW c \in Creators, CommitCreate(c) PROVE CarrierInv'
  <2> DEFINE o == placing[c]
  <2>1. /\ o \in Orders /\ status[o] = "ABSENT" /\ gen[o] = 0
        /\ \A e \in inbox : e.order # o
    BY <1>1 DEF CommitCreate, IInv, TypeOK, RowInv, CarrierInv, EventAgeInv
  <2>2. /\ status' = [status EXCEPT ![o] = "PENDING"]
        /\ sent' = sent \union {FirstMessage(o, 0)}
        /\ UNCHANGED <<gen, inbox, pc, msg>>
    BY <1>1 DEF CommitCreate, consumerVars
  <2>3. status \in [Orders -> {"ABSENT", "PENDING", "PROCESSED", "FAILED"}]
    BY DEF IInv, TypeOK
  <2>4. \A u \in Consumers : pc[u] # "idle" => msg[u].order \in Orders
    BY DEF IInv, TypeOK, Message
  <2> HIDE DEF o
  <2>5. DuplicateInv'
    BY <2>1, <2>2, <2>3, <2>4 DEF CarrierInv, DuplicateInv
  <2>6. EventAgeInv'
    BY <2>1, <2>2, <2>3 DEF CarrierInv, EventAgeInv, FirstMessage
  <2>7. PendingHasCarrier'
    BY <2>1, <2>2, <2>3 DEF CarrierInv, PendingHasCarrier
  <2> QED
    BY <2>5, <2>6, <2>7 DEF CarrierInv
<1>2. ASSUME NEW r \in Operators, Requeue(r), StillFailed(requeuing[r]) PROVE CarrierInv'
  <2> DEFINE o == requeuing[r]
  <2>1. o \in Orders /\ status[o] = "FAILED"
    BY <1>2 DEF Requeue, StillFailed, IInv, TypeOK
  <2>2. /\ status' = [status EXCEPT ![o] = "PENDING"]
        /\ gen' = [gen EXCEPT ![o] = gen[o] + 1]
        /\ sent' = sent \union {FirstMessage(o, gen[o] + 1)}
        /\ UNCHANGED <<inbox, pc, msg>>
    BY <1>2 DEF Requeue, RequeuedMessage, consumerVars
  <2>3. /\ status \in [Orders -> {"ABSENT", "PENDING", "PROCESSED", "FAILED"}]
        /\ gen \in [Orders -> Nat]
        /\ inbox \subseteq Event /\ sent \subseteq Message
    BY DEF IInv, TypeOK
  <2>4. \A u \in Consumers : pc[u] # "idle" =>
          msg[u].order \in Orders /\ msg[u].gen \in Nat /\ msg[u].gen <= gen[msg[u].order]
    BY DEF IInv, TypeOK, HandlerInv, CarrierInv, EventAgeInv, Message
  <2> HIDE DEF o
  <2>5. gen'[o] = gen[o] + 1 /\ \A q \in Orders \ {o} : gen'[q] = gen[q] /\ status'[q] = status[q]
    BY <2>1, <2>2, <2>3
  <2>6. DuplicateInv'
    <3> SUFFICES ASSUME NEW w \in Consumers, pc[w] \in {"duplicate", "transition"}
                 PROVE  /\ status'[msg[w].order] # "ABSENT"
                        /\ pc[w] = "duplicate" =>
                             \/ status'[msg[w].order] # "PENDING"
                             \/ msg[w].gen < gen'[msg[w].order]
      BY <2>2 DEF DuplicateInv
    <3>1. CASE msg[w].order = o
      BY <2>1, <2>2, <2>3, <2>4, <2>5, <3>1
    <3>2. CASE msg[w].order # o
      BY <2>4, <2>5, <3>2 DEF CarrierInv, DuplicateInv
    <3> QED
      BY <3>1, <3>2
  <2>7. \A m \in sent' : m.gen <= gen'[m.order]
    <3>1. ASSUME NEW m \in sent PROVE m.gen <= gen'[m.order]
      <4>1. m.order \in Orders /\ m.gen \in Nat /\ m.gen <= gen[m.order] /\ gen[m.order] \in Nat
        BY <2>3 DEF Message, CarrierInv, EventAgeInv
      <4> QED
        BY <2>5, <4>1
    <3>2. FirstMessage(o, gen[o] + 1).gen <= gen'[FirstMessage(o, gen[o] + 1).order]
      BY <2>1, <2>3, <2>5 DEF FirstMessage
    <3> QED
      BY <2>2, <3>1, <3>2
  <2>8. \A e \in inbox : e.gen <= gen'[e.order]
    <3> TAKE e \in inbox
    <3>1. e.order \in Orders /\ e.gen \in Nat /\ e.gen <= gen[e.order] /\ gen[e.order] \in Nat
      BY <2>3 DEF Event, CarrierInv, EventAgeInv
    <3> QED
      BY <2>5, <3>1
  <2>9. EventAgeInv'
    BY <2>1, <2>2, <2>3, <2>5, <2>7, <2>8 DEF CarrierInv, EventAgeInv
  <2>10. PendingHasCarrier'
    <3> SUFFICES ASSUME NEW q \in Orders, status'[q] = "PENDING"
                 PROVE  /\ FirstMessage(q, gen'[q]) \in sent'
                        /\ [order |-> q, gen |-> gen'[q]] \notin inbox
      BY <2>2 DEF PendingHasCarrier, FirstMessage
    <3>1. CASE q = o
      <4>1. FirstMessage(q, gen'[q]) \in sent'
        BY <2>2, <2>5, <3>1
      <4>2. \A e \in inbox : e # [order |-> o, gen |-> gen[o] + 1]
        BY <2>1, <2>3 DEF CarrierInv, EventAgeInv
      <4> QED
        BY <2>5, <3>1, <4>1, <4>2
    <3>2. CASE q # o
      BY <2>2, <2>5, <3>2 DEF CarrierInv, PendingHasCarrier
    <3> QED
      BY <3>1, <3>2
  <2> QED
    BY <2>6, <2>9, <2>10 DEF CarrierInv
<1>3. CASE PurgeInbox
  BY <1>3 DEF PurgeInbox, brokerVars, consumerVars, CarrierInv, EventAgeInv, DuplicateInv,
     PendingHasCarrier
<1>4. CASE UNCHANGED <<dbVars, sent, consumerVars>>
  BY <1>4, LocalKeepsCarrierInv DEF CarrierInv, DuplicateInv, dbVars, consumerVars
<1>5. \/ UNCHANGED <<dbVars, sent, consumerVars>>
      \/ \E c \in Creators : CommitCreate(c)
      \/ \E r \in Operators : Requeue(r) /\ StillFailed(requeuing[r])
      \/ PurgeInbox
  BY DEF Next, CreatorStep, OperatorStep, vars, InsertOrder, InsertItem, AbortCreate,
         FindFailed, Requeue, AbortRequeue, ManualReset, dbVars, brokerVars
<1> QED
  BY <1>1, <1>2, <1>3, <1>4, <1>5

(* An order that is PENDING always has its newest event still to come:     *)
(* neither a redelivery of an older event, nor a purge, nor a crash or a   *)
(* lost COMMIT answer makes the inbox swallow it.                          *)
THEOREM PendingOrdersAreCarried ==
  ASSUME ~ManualIntervention
  PROVE  Spec => []PendingHasCarrier
<1>1. Init => CarrierInv
  BY ConstantsAssumption
     DEF Init, CarrierInv, EventAgeInv, DuplicateInv, PendingHasCarrier, FirstMessage
<1>2. IInv /\ CarrierInv /\ [Next]_vars => CarrierInv'
  BY ConsumerKeepsCarrierInv, OthersKeepCarrierInv
<1>3. CarrierInv => PendingHasCarrier
  BY DEF CarrierInv
<1> QED
  BY <1>1, <1>2, <1>3, InvariantHolds, PTL DEF Spec

-----------------------------------------------------------------------------
(* Dead letters                                                            *)

(* The order of event e is past it: it waits for a newer event, or for     *)
(* none.                                                                   *)
Settled(e) ==
  /\ e.gen <= gen[e.order]
  /\ e.gen = gen[e.order] => status[e.order] # "PENDING"
  /\ e.order \in Stray \/ status[e.order] # "ABSENT"

SettledInv ==
  /\ \A w \in Consumers :
       pc[w] = "publishDead" /\ verdict[w] = "RETRIES_EXHAUSTED" => Settled(EventOf(msg[w]))
  /\ \A d \in dead : d.verdict = "RETRIES_EXHAUSTED" => Settled(d.event)

(* Only a reprocess request makes an order wait again, and for a new event. *)
LEMMA SettledStays ==
  ASSUME IInv, ~ManualIntervention, [Next]_vars, NEW e \in Event, Settled(e)
  PROVE  Settled(e)'
<1> USE DEF Settled
<1>1. e.order \in Orders /\ e.gen \in Nat /\ gen[e.order] \in Nat
  BY DEF Event, IInv, TypeOK
<1>2. ASSUME NEW w \in Consumers, Commit(w) PROVE Settled(e)'
  BY <1>1, <1>2 DEF IInv, TypeOK, Commit
<1>3. ASSUME NEW w \in Consumers, TransitionToFailed(w) PROVE Settled(e)'
  BY <1>1, <1>3 DEF IInv, TypeOK, TransitionToFailed
<1>4. ASSUME NEW c \in Creators, CommitCreate(c) PROVE Settled(e)'
  BY <1>1, <1>4 DEF IInv, TypeOK, RowInv, CommitCreate
<1>5. ASSUME NEW r \in Operators, Requeue(r) PROVE Settled(e)'
  BY <1>1, <1>5 DEF IInv, TypeOK, Requeue
<1> QED
  BY <1>1, <1>2, <1>3, <1>4, <1>5, RowStep DEF ManualReset

(* A handler gets to its dead letter by finding the order not PENDING, or  *)
(* by failing it.                                                          *)
LEMMA DeadLetterStep ==
  ASSUME IInv, CarrierInv, SettledInv, ~ManualIntervention, [Next]_vars, NEW w \in Consumers,
         pc'[w] = "publishDead", verdict'[w] = "RETRIES_EXHAUSTED"
  PROVE  pc[w] # "idle" /\ msg'[w] = msg[w] /\ Settled(EventOf(msg[w]))'
<1> DEFINE Reached == pc[w] # "idle" /\ msg'[w] = msg[w] /\ Settled(EventOf(msg[w]))'
<1>1. pc[w] # "idle" => /\ msg[w].order \in Orders /\ msg[w].gen \in Nat
                        /\ msg[w].gen <= gen[msg[w].order]
                        /\ EventOf(msg[w]) \in Event
                        /\ msg[w].order \in Stray \/ status[msg[w].order] # "ABSENT"
  BY DEF IInv, TypeOK, HandlerInv, RowInv, CarrierInv, EventAgeInv, Message, Event, EventOf
<1>2. CASE pc[w] = "publishDead" /\ msg'[w] = msg[w] /\ verdict'[w] = verdict[w]
  BY <1>1, <1>2, SettledStays DEF SettledInv
<1>3. CASE FindToFail(w)
  <2>1. /\ pc[w] # "idle" /\ msg'[w] = msg[w]
        /\ status[msg[w].order] # "PENDING" /\ UNCHANGED <<status, gen>>
    BY <1>3 DEF IInv, TypeOK, FindToFail, AfterFailOrder, Finish, Continue, Goto, StillPending, dbVars
  <2> QED
    BY <1>1, <2>1 DEF Settled, EventOf
<1>4. CASE TransitionToFailed(w)
  <2>1. /\ pc[w] # "idle" /\ msg'[w] = msg[w] /\ gen' = gen
        /\ status'[msg[w].order] # "PENDING"
        /\ status'[msg[w].order] = "ABSENT" => status[msg[w].order] = "ABSENT"
    BY <1>1, <1>4 DEF IInv, TypeOK, TransitionToFailed, AfterFailOrder, Finish, Throws, Continue,
       Goto, StillPending
  <2> QED
    BY <1>1, <2>1 DEF Settled, EventOf
<1>5. CASE \/ Deliver(w) \/ Register(w) \/ FindOrder(w) \/ CommitDuplicate(w)
           \/ TransitionToProcessed(w) \/ ReserveItem(w) \/ Commit(w)
  BY <1>5 DEF IInv, TypeOK, Deliver, Register, FindOrder, CommitDuplicate, ReserveItem,
     TransitionToProcessed, Commit, Finish, Throws, RollbackAndFail, Continue, Goto
<1>6. CASE PublishDead(w) \/ PublishRetry(w) \/ ExhaustRetries(w) \/ TransientError(w) \/ Crash(w)
  BY <1>6 DEF IInv, TypeOK, PublishDead, PublishRetry, ExhaustRetries, TransientError, Crash,
     Finish, Throws, Goto
<1>7. CASE pc'[w] = pc[w] /\ msg'[w] = msg[w] /\ verdict'[w] = verdict[w]
  BY <1>2, <1>7
<1>8. ASSUME NEW u \in Consumers, u # w, ConsumerStep(u)
      PROVE  pc'[w] = pc[w] /\ msg'[w] = msg[w] /\ verdict'[w] = verdict[w]
  BY <1>8 DEF IInv, TypeOK, ConsumerStep, Deliver, Register, FindOrder, CommitDuplicate,
     TransitionToProcessed, ReserveItem, Commit, FindToFail, TransitionToFailed, PublishDead,
     PublishRetry, ExhaustRetries, TransientError, Crash, AfterFailOrder, Finish, Throws,
     RollbackAndFail, Continue, Goto
<1>9. UNCHANGED consumerVars \/ \E u \in Consumers : ConsumerStep(u)
  BY DEF Next, CreatorStep, OperatorStep, vars, InsertOrder, InsertItem, CommitCreate,
     AbortCreate, FindFailed, Requeue, AbortRequeue, PurgeInbox, ManualReset
<1> QED
  BY <1>3, <1>4, <1>5, <1>6, <1>7, <1>8, <1>9 DEF ConsumerStep, consumerVars

(* Only PublishDead adds a dead letter. *)
LEMMA DeadGrowsByPublishing ==
  ASSUME [Next]_vars
  PROVE  \/ UNCHANGED dead
         \/ \E w \in Consumers :
              PublishDead(w) /\ dead' = dead \union {[event |-> EventOf(msg[w]), verdict |-> verdict[w]]}
  BY ZenonT(40) DEF Next, ConsumerStep, CreatorStep, OperatorStep, vars, brokerVars, Deliver, Register,
     FindOrder, CommitDuplicate, TransitionToProcessed, ReserveItem, Commit, FindToFail,
     TransitionToFailed, PublishDead, PublishRetry, ExhaustRetries, TransientError, Crash,
     InsertOrder, InsertItem, CommitCreate, AbortCreate, FindFailed, Requeue, AbortRequeue,
     PurgeInbox, ManualReset

(* Whoever dead-letters an exhausted message leaves its order settled. *)
LEMMA SettledInvStep ==
  ASSUME IInv, CarrierInv, SettledInv, ~ManualIntervention, [Next]_vars
  PROVE  SettledInv'
<1>1. ASSUME NEW w \in Consumers, pc'[w] = "publishDead", verdict'[w] = "RETRIES_EXHAUSTED"
      PROVE  Settled(EventOf(msg[w]))'
  <2>1. msg'[w] = msg[w] /\ Settled(EventOf(msg[w]))'
    BY <1>1, DeadLetterStep
  <2> QED
    BY <2>1 DEF Settled, EventOf
<1>2. ASSUME NEW d \in dead', d.verdict = "RETRIES_EXHAUSTED" PROVE Settled(d.event)'
  <2>1. CASE d \in dead
    <3>1. d.event \in Event /\ Settled(d.event)
      BY <1>2, <2>1 DEF SettledInv, IInv, TypeOK
    <3> QED
      BY <3>1, SettledStays
  <2>2. ASSUME NEW w \in Consumers, PublishDead(w),
               d = [event |-> EventOf(msg[w]), verdict |-> verdict[w]]
        PROVE  Settled(d.event)'
    <3>1. EventOf(msg[w]) \in Event /\ Settled(EventOf(msg[w]))
      BY <1>2, <2>2 DEF SettledInv, PublishDead, IInv, TypeOK, EventOf, Event, Message
    <3>2. d.event = EventOf(msg[w])
      BY <2>2
    <3> HIDE DEF Settled
    <3>3. Settled(EventOf(msg[w])) /\ UNCHANGED <<status, gen>>
      BY <2>2, <3>1 DEF PublishDead, dbVars
    <3> QED
      BY <3>2, <3>3 DEF Settled
  <2> QED
    BY <2>1, <2>2, DeadGrowsByPublishing
<1> QED
  BY <1>1, <1>2 DEF SettledInv

(* A message given up on after its last attempt leaves behind no order     *)
(* that still waits for it: who reads orders.dead finds the order settled, *)
(* or sent on a newer event.                                               *)
THEOREM DeadLettersAreSettled ==
  ASSUME ~ManualIntervention
  PROVE  Spec => []DeadLetteredIsSettled
<1>1. Init => CarrierInv /\ SettledInv
  BY ConstantsAssumption
     DEF Init, CarrierInv, EventAgeInv, DuplicateInv, PendingHasCarrier, FirstMessage, SettledInv
<1>2. IInv /\ CarrierInv /\ SettledInv /\ [Next]_vars => CarrierInv' /\ SettledInv'
  BY ConsumerKeepsCarrierInv, OthersKeepCarrierInv, SettledInvStep
<1>3. SettledInv => DeadLetteredIsSettled
  BY DEF SettledInv, Settled, DeadLetteredIsSettled
<1> QED
  BY <1>1, <1>2, <1>3, InvariantHolds, PTL DEF Spec
=============================================================================
