---------------------------- MODULE OrderProcessing ----------------------------
(***************************************************************************)
(* Creating, processing and reprocessing orders against one MySQL          *)
(* database: the use cases of src/application, each transaction taken one  *)
(* SQL statement at a time, with the row locks InnoDB holds until commit.  *)
(*                                                                         *)
(*   Consumers  handlers of order.consumer.ts, any number per process      *)
(*   Creators   POST /orders requests                                      *)
(*   Operators  POST /orders/{id}/reprocess requests                       *)
(*                                                                         *)
(* A transaction's writes stay with it until it commits; rolling back is   *)
(* forgetting them.  A row lock is derived from where its holder stands.   *)
(*                                                                         *)
(* The broker is a set of messages that only grows: delivery is at least   *)
(* once, in any order, any number of times.  The outbox and its relay are  *)
(* collapsed into the commit that appends the event (see OutboxRelay).     *)
(***************************************************************************)
EXTENDS Integers, FiniteSets, FiniteSetsExt

CONSTANTS
  Orders,              \* order identifiers
  Products,            \* product identifiers, integers as in products.id
  Quantity,            \* Quantity[o][p]: units of p that order o asks for
  InitialStock,        \* stock of each product in the seeded catalogue
  Consumers, Creators, Operators,
  FailTrigger,         \* orders whose customerName contains "fail"
  Stray,               \* orders that have an event on the broker and no row
  MaxAttempts,         \* RetryPolicy.maxAttempts: retry tiers plus one
  MaxReprocess,        \* bound: reprocess requests per order
  ManualIntervention,  \* TRUE when an operator edits the tables by hand
  NoMessage, NoOrder

ASSUME ConstantsAssumption ==
  /\ IsFiniteSet(Orders)
  /\ Products \subseteq Nat
  /\ Quantity \in [Orders -> [Products -> Nat]]
  /\ InitialStock \in [Products -> Nat]
  /\ FailTrigger \subseteq Orders
  /\ Stray \subseteq Orders
  /\ MaxAttempts \in Nat \ {0, 1}
  /\ MaxReprocess \in Nat
  /\ ManualIntervention \in BOOLEAN
  /\ NoOrder \notin Orders

VARIABLES
  status,     \* orders.status, or "ABSENT" while the row does not exist
  code,       \* orders.failure_code, "NONE" for NULL
  gen,        \* which event of the order is the newest: 0 created, then reprocessed
  stock,      \* products.stock
  reserved,   \* stock_reservations: the (order, product) pairs with a row
  inbox,      \* inbox_messages: the event identifiers with a row
  sent,       \* messages put on orders.created or on a retry queue so far
  dead,       \* messages put on orders.dead so far
  pc,         \* the statement each consumer is about to run
  msg,        \* the message each consumer is handling
  verdict,    \* the failure code failOrder was called with
  taken,      \* products each consumer's transaction has decremented
  placing,    \* the order each creator's transaction has inserted
  shared,     \* product rows that transaction has locked in shared mode
  requeuing   \* the order each operator's transaction has read as FAILED

dbVars == <<status, code, gen, stock, reserved, inbox>>
brokerVars == <<sent, dead>>
consumerVars == <<pc, msg, verdict, taken>>
apiVars == <<placing, shared, requeuing>>
vars == <<dbVars, brokerVars, consumerVars, apiVars>>

-----------------------------------------------------------------------------
(* Messages and events.                                                    *)

Event == [order : Orders, gen : Nat]
Message == [order : Orders, gen : Nat, attempt : 1..MaxAttempts]

EventOf(m) == [order |-> m.order, gen |-> m.gen]
FirstMessage(o, g) == [order |-> o, gen |-> g, attempt |-> 1]

Items(o) == {p \in Products : Quantity[o][p] > 0}

-----------------------------------------------------------------------------
(* Faulty variants, each used in place of the definition of the comment.   *)

NoProductLock(p) == TRUE                          \* ProductFree: a dirty decrement
NoOrderLock(o) == TRUE                            \* OrderFree: a lost update
AnyExistingOrder(o) == status[o] # "ABSENT"       \* StillPending: no "AND status = :from"
AnyOrder(o) == TRUE                               \* StillFailed: no "AND status = :from"
StrictlyFits(o, p) == stock[p] > Quantity[o][p]   \* FitsStock: the exact fit refused
NeverReserved(o, p) == FALSE                      \* AlreadyReserved: no UNIQUE key
SameEvent(o) == FirstMessage(o, gen[o])           \* RequeuedMessage: the old event id again
AnyItem(w, p) == p \in Items(msg[w].order) \ taken[w]             \* IsNextItem: unsorted
LastItemSkipped(w) ==                             \* AllItemsReserved: loop one short
  Cardinality(Items(msg[w].order) \ taken[w]) <= 1
DeadLetterBeforeFailing(w) ==                     \* ExhaustRetries: failOrder forgotten
  /\ pc[w] = "onFailure"
  /\ msg[w].attempt = MaxAttempts
  /\ pc' = [pc EXCEPT ![w] = "publishDead"]
  /\ verdict' = [verdict EXCEPT ![w] = "RETRIES_EXHAUSTED"]
  /\ UNCHANGED <<msg, taken, dbVars, brokerVars, apiVars>>

-----------------------------------------------------------------------------
(* Row locks.  The inserter of an inbox key holds it from the insert, the  *)
(* updater of an order from the update, both until the transaction ends.   *)

HoldsKey(w, e) ==
  /\ pc[w] \in {"find", "duplicate", "transition", "items"}
  /\ EventOf(msg[w]) = e

HoldsOrder(w, o) == pc[w] = "items" /\ msg[w].order = o

HoldsProduct(w, p) == p \in taken[w]

(* Inserting an order item checks its foreign key, which locks the product *)
(* row in shared mode.                                                     *)
SharesProduct(c, p) == p \in shared[c]

OrderFree(o) == \A w \in Consumers : ~HoldsOrder(w, o)

ProductFree(p) ==
  /\ \A w \in Consumers : ~HoldsProduct(w, p)
  /\ \A c \in Creators : ~SharesProduct(c, p)

Goto(w, statement) == pc' = [pc EXCEPT ![w] = statement]

(* Going on to another statement. *)
Continue(w, statement) ==
  /\ Goto(w, statement)
  /\ UNCHANGED <<msg, verdict, taken>>

(* The handler ends: its transaction, if any, is over and the delivery is  *)
(* acknowledged, or given back to the broker when the process died.        *)
Finish(w) ==
  /\ pc' = [pc EXCEPT ![w] = "idle"]
  /\ msg' = [msg EXCEPT ![w] = NoMessage]
  /\ verdict' = [verdict EXCEPT ![w] = "NONE"]
  /\ taken' = [taken EXCEPT ![w] = {}]

(* execute or failOrder throws something that is not a business error:     *)
(* onFailure takes over.  Thrown inside onFailure itself, it is an         *)
(* unhandled rejection, and the process dies.                              *)
Throws(w) ==
  \/ /\ verdict[w] # "RETRIES_EXHAUSTED"
     /\ Goto(w, "onFailure")
     /\ verdict' = [verdict EXCEPT ![w] = "NONE"]
     /\ taken' = [taken EXCEPT ![w] = {}]
     /\ UNCHANGED msg
  \/ /\ verdict[w] = "RETRIES_EXHAUSTED"
     /\ Finish(w)

(* A business error leaves reserveAndConclude: roll back, then failOrder   *)
(* runs in a transaction of its own.                                       *)
RollbackAndFail(w, c) ==
  /\ Goto(w, "failOrder")
  /\ verdict' = [verdict EXCEPT ![w] = c]
  /\ taken' = [taken EXCEPT ![w] = {}]
  /\ UNCHANGED msg

-----------------------------------------------------------------------------
(* reserveAndConclude                                                      *)

Deliver(w) ==
  /\ pc[w] = "idle"
  /\ \E m \in sent : msg' = [msg EXCEPT ![w] = m]
  /\ Goto(w, "register")
  /\ UNCHANGED <<dbVars, brokerVars, verdict, taken, apiVars>>

(* Layer 1: the inbox key.  A key inserted by a transaction still running  *)
(* makes the insert wait for its end.                                      *)
Register(w) ==
  LET e == EventOf(msg[w]) IN
  /\ pc[w] = "register"
  /\ \A u \in Consumers : ~HoldsKey(u, e)
  /\ \/ /\ e \in inbox
        /\ Finish(w)
     \/ /\ e \notin inbox
        /\ Continue(w, "find")
  /\ UNCHANGED <<dbVars, brokerVars, apiVars>>

(* A plain SELECT: it sees the last committed row and takes no lock. *)
FindOrder(w) ==
  LET o == msg[w].order IN
  /\ pc[w] = "find"
  /\ \/ status[o] = "ABSENT" /\ RollbackAndFail(w, "ORDER_NOT_FOUND")
     \/ status[o] \in {"PROCESSED", "FAILED"} /\ Continue(w, "duplicate")
     \/ status[o] = "PENDING" /\ o \in FailTrigger /\ Throws(w)
     \/ status[o] = "PENDING" /\ o \notin FailTrigger /\ Continue(w, "transition")
  /\ UNCHANGED <<dbVars, brokerVars, apiVars>>

(* Returning DUPLICATE commits, so the inbox row stays.  The answer to a   *)
(* COMMIT may be lost: the handler then sees a connection error.           *)
CommitDuplicate(w) ==
  /\ pc[w] = "duplicate"
  /\ inbox' = inbox \union {EventOf(msg[w])}
  /\ Finish(w) \/ Throws(w)
  /\ UNCHANGED <<status, code, gen, stock, reserved, brokerVars, apiVars>>

(* transitionStatus(order, PENDING): UPDATE ... AND status = 'PENDING' *)
StillPending(o) == status[o] = "PENDING"

(* Layer 2: UPDATE ... WHERE status = 'PENDING'.  From here the order row  *)
(* is locked; it reads PROCESSED to nobody else until the commit.          *)
TransitionToProcessed(w) ==
  LET o == msg[w].order IN
  /\ pc[w] = "transition"
  /\ OrderFree(o)
  /\ \/ StillPending(o) /\ Continue(w, "items")
     \/ ~StillPending(o) /\ Continue(w, "duplicate")
  /\ UNCHANGED <<dbVars, brokerVars, apiVars>>

Remaining(w) == Items(msg[w].order) \ taken[w]

(* Items are visited in ascending product_id. *)
IsNextItem(w, p) ==
  /\ p \in Remaining(w)
  /\ \A q \in Remaining(w) : p <= q

(* UPDATE products ... WHERE stock >= :qty *)
FitsStock(o, p) == stock[p] >= Quantity[o][p]

(* Layer 3: UNIQUE (order_id, product_id) *)
AlreadyReserved(o, p) == <<o, p>> \in reserved

(* decrementStock and reserve for one item.  The reservation needs no lock *)
(* this transaction does not already hold, so the two go together.         *)
ReserveItem(w) ==
  LET o == msg[w].order IN
  /\ pc[w] = "items"
  /\ \E p \in Items(o) :
       /\ IsNextItem(w, p)
       /\ ProductFree(p)
       /\ \/ /\ ~FitsStock(o, p)
             /\ RollbackAndFail(w, "INSUFFICIENT_STOCK")
          \/ /\ FitsStock(o, p)
             /\ AlreadyReserved(o, p)
             /\ Finish(w)
          \/ /\ FitsStock(o, p)
             /\ ~AlreadyReserved(o, p)
             /\ taken' = [taken EXCEPT ![w] = @ \union {p}]
             /\ UNCHANGED <<pc, msg, verdict>>
  /\ UNCHANGED <<dbVars, brokerVars, apiVars>>

AllItemsReserved(w) == Remaining(w) = {}

(* COMMIT, everything at once.  When its answer is lost, the handler goes  *)
(* on to retry what is already done.                                       *)
Commit(w) ==
  LET o == msg[w].order IN
  /\ pc[w] = "items"
  /\ AllItemsReserved(w)
  /\ status' = [status EXCEPT ![o] = "PROCESSED"]
  /\ code' = [code EXCEPT ![o] = "NONE"]
  /\ stock' = [p \in Products |->
                 IF p \in taken[w] THEN stock[p] - Quantity[o][p] ELSE stock[p]]
  /\ reserved' = reserved \union ({o} \X taken[w])
  /\ inbox' = inbox \union {EventOf(msg[w])}
  /\ Finish(w) \/ Throws(w)
  /\ UNCHANGED <<gen, brokerVars, apiVars>>

-----------------------------------------------------------------------------
(* failOrder, in its own transaction, and what follows it                  *)

(* What the handler does with failOrder's answer.  execute turns FALSE     *)
(* into the outcome DEAD_LETTER; onFailure dead-letters whatever it was.   *)
AfterFailOrder(w, registered) ==
  \/ /\ registered
     /\ verdict[w] # "RETRIES_EXHAUSTED"
     /\ Finish(w)
  \/ /\ ~registered \/ verdict[w] = "RETRIES_EXHAUSTED"
     /\ Continue(w, "publishDead")

FindToFail(w) ==
  /\ pc[w] = "failOrder"
  /\ \/ StillPending(msg[w].order) /\ Continue(w, "failTransition")
     \/ ~StillPending(msg[w].order) /\ AfterFailOrder(w, FALSE)
  /\ UNCHANGED <<dbVars, brokerVars, apiVars>>

TransitionToFailed(w) ==
  LET o == msg[w].order IN
  /\ pc[w] = "failTransition"
  /\ OrderFree(o)
  /\ \/ /\ StillPending(o)
        /\ status' = [status EXCEPT ![o] = "FAILED"]
        /\ code' = [code EXCEPT ![o] = verdict[w]]
        /\ AfterFailOrder(w, TRUE) \/ Throws(w)
     \/ /\ ~StillPending(o)
        /\ AfterFailOrder(w, FALSE)
        /\ UNCHANGED <<status, code>>
  /\ UNCHANGED <<gen, stock, reserved, inbox, brokerVars, apiVars>>

(* The reason distinguishes a message given up on from one whose order was *)
(* not there to be failed.  When the confirm or the channel is lost after  *)
(* the broker has the message, the handler fails all the same.             *)
PublishDead(w) ==
  /\ pc[w] = "publishDead"
  /\ dead' = dead \union {[event |-> EventOf(msg[w]), verdict |-> verdict[w]]}
  /\ Finish(w) \/ Throws(w)
  /\ UNCHANGED <<dbVars, sent, apiVars>>

(* onFailure, after a transient error: another tier, or the end. *)
HasTierLeft(m) == m.attempt < MaxAttempts

PublishRetry(w) ==
  /\ pc[w] = "onFailure"
  /\ HasTierLeft(msg[w])
  /\ sent' = sent \union {[msg[w] EXCEPT !.attempt = @ + 1]}
  /\ Finish(w)
  /\ UNCHANGED <<dbVars, dead, apiVars>>

ExhaustRetries(w) ==
  /\ pc[w] = "onFailure"
  /\ ~HasTierLeft(msg[w])
  /\ Goto(w, "failOrder")
  /\ verdict' = [verdict EXCEPT ![w] = "RETRIES_EXHAUSTED"]
  /\ UNCHANGED <<msg, taken, dbVars, brokerVars, apiVars>>

(* A statement fails: a deadlock victim, a lock wait timeout, a lost       *)
(* connection, or a publish the broker refused.  Any transaction rolls     *)
(* back.                                                                   *)
TransientError(w) ==
  /\ pc[w] \in {"register", "find", "duplicate", "transition", "items",
                "failOrder", "failTransition", "publishDead"}
  /\ Throws(w)
  /\ UNCHANGED <<dbVars, brokerVars, apiVars>>

(* The process dies.  Its messages stay deliverable. *)
Crash(w) ==
  /\ pc[w] # "idle"
  /\ Finish(w)
  /\ UNCHANGED <<dbVars, brokerVars, apiVars>>

-----------------------------------------------------------------------------
(* POST /orders                                                            *)

InsertOrder(c) ==
  /\ placing[c] = NoOrder
  /\ \E o \in Orders \ Stray :
       /\ status[o] = "ABSENT"
       /\ \A d \in Creators : placing[d] # o
       /\ placing' = [placing EXCEPT ![c] = o]
  /\ UNCHANGED <<dbVars, brokerVars, consumerVars, shared, requeuing>>

(* The items go in the order the client listed them. *)
InsertItem(c) ==
  /\ placing[c] # NoOrder
  /\ \E p \in Items(placing[c]) \ shared[c] :
       /\ \A w \in Consumers : ~HoldsProduct(w, p)
       /\ shared' = [shared EXCEPT ![c] = @ \union {p}]
  /\ UNCHANGED <<dbVars, brokerVars, consumerVars, placing, requeuing>>

EndCreate(c) ==
  /\ placing' = [placing EXCEPT ![c] = NoOrder]
  /\ shared' = [shared EXCEPT ![c] = {}]

(* The outbox row is appended in the same transaction. *)
CommitCreate(c) ==
  LET o == placing[c] IN
  /\ o # NoOrder
  /\ shared[c] = Items(o)
  /\ status' = [status EXCEPT ![o] = "PENDING"]
  /\ sent' = sent \union {FirstMessage(o, 0)}
  /\ EndCreate(c)
  /\ UNCHANGED <<code, gen, stock, reserved, inbox, dead, consumerVars, requeuing>>

AbortCreate(c) ==
  /\ placing[c] # NoOrder
  /\ EndCreate(c)
  /\ UNCHANGED <<dbVars, brokerVars, consumerVars, requeuing>>

-----------------------------------------------------------------------------
(* POST /orders/{id}/reprocess                                             *)

FindFailed(r) ==
  /\ requeuing[r] = NoOrder
  /\ \E o \in Orders :
       /\ status[o] = "FAILED"
       /\ gen[o] < MaxReprocess
       /\ requeuing' = [requeuing EXCEPT ![r] = o]
  /\ UNCHANGED <<dbVars, brokerVars, consumerVars, placing, shared>>

(* UPDATE ... WHERE status = 'FAILED', then the new event; a request that  *)
(* loses the race answers 409 and changes nothing.                         *)
StillFailed(o) == status[o] = "FAILED"

RequeuedMessage(o) == FirstMessage(o, gen[o] + 1)

Requeue(r) ==
  LET o == requeuing[r] IN
  /\ o # NoOrder
  /\ OrderFree(o)
  /\ \/ /\ StillFailed(o)
        /\ status' = [status EXCEPT ![o] = "PENDING"]
        /\ code' = [code EXCEPT ![o] = "NONE"]
        /\ gen' = [gen EXCEPT ![o] = @ + 1]
        /\ sent' = sent \union {RequeuedMessage(o)}
     \/ /\ ~StillFailed(o)
        /\ UNCHANGED <<status, code, gen, sent>>
  /\ requeuing' = [requeuing EXCEPT ![r] = NoOrder]
  /\ UNCHANGED <<stock, reserved, inbox, dead, consumerVars, placing, shared>>

AbortRequeue(r) ==
  /\ requeuing[r] # NoOrder
  /\ requeuing' = [requeuing EXCEPT ![r] = NoOrder]
  /\ UNCHANGED <<dbVars, brokerVars, consumerVars, placing, shared>>

-----------------------------------------------------------------------------
(* The relay's hourly purge deletes the inbox rows past the retention      *)
(* period.  Time is not modelled: any committed row may be that old.       *)
PurgeInbox ==
  /\ \E old \in SUBSET inbox :
       /\ old # {}
       /\ inbox' = inbox \ old
  /\ UNCHANGED <<status, code, gen, stock, reserved, brokerVars, consumerVars, apiVars>>

(* An operator returns a processed order to PENDING by hand, as            *)
(* estoque-reserva.feature does.                                           *)
ManualReset(o) ==
  /\ ManualIntervention
  /\ status[o] = "PROCESSED"
  /\ OrderFree(o)
  /\ status' = [status EXCEPT ![o] = "PENDING"]
  /\ UNCHANGED <<code, gen, stock, reserved, inbox, brokerVars, consumerVars, apiVars>>

-----------------------------------------------------------------------------
Init ==
  /\ status = [o \in Orders |-> "ABSENT"]
  /\ code = [o \in Orders |-> "NONE"]
  /\ gen = [o \in Orders |-> 0]
  /\ stock = InitialStock
  /\ reserved = {}
  /\ inbox = {}
  /\ sent = {FirstMessage(o, 0) : o \in Stray}
  /\ dead = {}
  /\ pc = [w \in Consumers |-> "idle"]
  /\ msg = [w \in Consumers |-> NoMessage]
  /\ verdict = [w \in Consumers |-> "NONE"]
  /\ taken = [w \in Consumers |-> {}]
  /\ placing = [c \in Creators |-> NoOrder]
  /\ shared = [c \in Creators |-> {}]
  /\ requeuing = [r \in Operators |-> NoOrder]

ConsumerStep(w) ==
  \/ Deliver(w) \/ Register(w) \/ FindOrder(w) \/ CommitDuplicate(w)
  \/ TransitionToProcessed(w) \/ ReserveItem(w) \/ Commit(w)
  \/ FindToFail(w) \/ TransitionToFailed(w) \/ PublishDead(w)
  \/ PublishRetry(w) \/ ExhaustRetries(w) \/ TransientError(w) \/ Crash(w)

CreatorStep(c) == InsertOrder(c) \/ InsertItem(c) \/ CommitCreate(c) \/ AbortCreate(c)

OperatorStep(r) == FindFailed(r) \/ Requeue(r) \/ AbortRequeue(r)

Next ==
  \/ \E w \in Consumers : ConsumerStep(w)
  \/ \E c \in Creators : CreatorStep(c)
  \/ \E r \in Operators : OperatorStep(r)
  \/ PurgeInbox
  \/ \E o \in Orders : ManualReset(o)

Spec == Init /\ [][Next]_vars

-----------------------------------------------------------------------------
(* Properties                                                              *)

Statements == {"idle", "register", "find", "duplicate", "transition", "items",
               "onFailure", "failOrder", "failTransition", "publishDead"}

Codes == {"NONE", "INSUFFICIENT_STOCK", "RETRIES_EXHAUSTED"}

Verdicts == Codes \union {"ORDER_NOT_FOUND"}

(* Types.  That a stock is a natural number is the CHECK constraint        *)
(* ck_products_stock_non_negative: no interleaving oversells a product.    *)
TypeOK ==
  /\ status \in [Orders -> {"ABSENT", "PENDING", "PROCESSED", "FAILED"}]
  /\ code \in [Orders -> Codes]
  /\ gen \in [Orders -> Nat]
  /\ stock \in [Products -> Nat]
  /\ reserved \subseteq Orders \X Products
  /\ inbox \subseteq Event
  /\ sent \subseteq Message
  /\ dead \subseteq [event : Event, verdict : Verdicts]
  /\ pc \in [Consumers -> Statements]
  /\ msg \in [Consumers -> Message \union {NoMessage}]
  /\ \A w \in Consumers : pc[w] # "idle" => msg[w] \in Message
  /\ verdict \in [Consumers -> Verdicts]
  /\ taken \in [Consumers -> SUBSET Products]
  /\ placing \in [Creators -> Orders \union {NoOrder}]
  /\ shared \in [Creators -> SUBSET Products]
  /\ requeuing \in [Operators -> Orders \union {NoOrder}]

(* Every unit that left products.stock is in a reservation, and the other  *)
(* way round: no delivery decrements twice, no rollback keeps a unit.      *)
StockConserved ==
  \A p \in Products :
    LET Reserved(o) == IF <<o, p>> \in reserved THEN Quantity[o][p] ELSE 0
    IN  stock[p] + MapThenSumSet(Reserved, Orders) = InitialStock[p]

(* An order has its reservations, all of them, exactly when it is          *)
(* PROCESSED: stock is never kept by an order that failed or is waiting.   *)
ReservedIffProcessed ==
  \A o \in Orders, p \in Products :
    <<o, p>> \in reserved <=> (status[o] = "PROCESSED" /\ p \in Items(o))

(* Even when rows are edited by hand, an order has all its reservations or *)
(* none: the third layer alone keeps a repeated delivery from taking part  *)
(* of an order a second time.                                              *)
AllOrNothing ==
  \A o \in Orders : \A p, q \in Items(o) : <<o, p>> \in reserved <=> <<o, q>> \in reserved

(* PROCESSED is terminal, whatever late, stale or repeated delivery, retry *)
(* or reprocess request comes.                                             *)
ProcessedIsFinal ==
  [][\A o \in Orders : status[o] = "PROCESSED" => status'[o] = "PROCESSED"]_vars

(* An order still PENDING has an event on its way that no committed inbox  *)
(* row will turn into a duplicate: nothing it depends on was swallowed by  *)
(* a delivery that came while the order was in another state.              *)
PendingHasCarrier ==
  \A o \in Orders :
    status[o] = "PENDING" =>
      /\ FirstMessage(o, gen[o]) \in sent
      /\ [order |-> o, gen |-> gen[o]] \notin inbox

(* A message dead-lettered after its last attempt leaves no order waiting  *)
(* for it: the order was failed first, or another delivery had settled it. *)
DeadLetteredIsSettled ==
  \A d \in dead :
    d.verdict = "RETRIES_EXHAUSTED" /\ d.event.gen = gen[d.event.order]
      => status[d.event.order] # "PENDING"

(* An order refused for want of stock really does not fit, in every state  *)
(* from the refusal on, although the refusal was decided in a transaction  *)
(* rolled back before the one that recorded it began.                      *)
RefusedOnlyWhenShort ==
  \A o \in Orders :
    code[o] = "INSUFFICIENT_STOCK" => \E p \in Items(o) : stock[p] < Quantity[o][p]

(* Waiting for row locks *)

ConsumerWaits(w, u) ==
  \/ pc[w] = "register" /\ HoldsKey(u, EventOf(msg[w]))
  \/ pc[w] \in {"transition", "failTransition"} /\ HoldsOrder(u, msg[w].order)
  \/ pc[w] = "items" /\ \E p \in Products : IsNextItem(w, p) /\ HoldsProduct(u, p)

ConsumerWaitsForCreator(w, c) ==
  pc[w] = "items" /\ \E p \in Products : IsNextItem(w, p) /\ SharesProduct(c, p)

CreatorWaits(c, w) ==
  placing[c] # NoOrder /\ \E p \in Items(placing[c]) \ shared[c] : HoldsProduct(w, p)

(* The consumers never deadlock among themselves: in any group of them,    *)
(* one is not waited for by the others.  Inbox key, then order row, then   *)
(* products in ascending order.                                            *)
NoConsumerWaitCycle ==
  \A S \in SUBSET Consumers :
    S # {} => \E w \in S : \A u \in S :
      ~(ConsumerWaits(u, w) /\ \E v \in Consumers : ConsumerWaits(w, v))

(* docs/ARCHITECTURE.md 11.3: with one global order of the products "o     *)
(* ciclo de espera nao se forma".  A request creating an order locks them  *)
(* too, in the order the client listed them.                               *)
NoCreateDeadlock ==
  \A w \in Consumers, c \in Creators :
    ~(ConsumerWaitsForCreator(w, c) /\ CreatorWaits(c, w))

(* features/retry-e-dead-letter.feature:49: a business error fails at once *)
(* "sem retry e sem dead-letter".                                          *)
BusinessErrorIsNotDeadLettered ==
  \A d \in dead : d.verdict # "INSUFFICIENT_STOCK"

(* Every step of every transaction is a step of OrderLedger or none. *)
Ledger == INSTANCE OrderLedger
ImplementsLedger == Ledger!Spec
=============================================================================
