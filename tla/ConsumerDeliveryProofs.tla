------------------------ MODULE ConsumerDeliveryProofs ------------------------
(***************************************************************************)
(* The consumer process with its queues is a MessageDelivery: no copy of   *)
(* an event appears but of one there is a copy of, and the last one goes   *)
(* only after the event's end.                                             *)
(***************************************************************************)
EXTENDS ConsumerProcessProofs

-----------------------------------------------------------------------------
(* What a handler does to the outcome of its event                         *)

(* Copies of e may have been made; of other events none was. *)
OnlyOf(e) ==
  \A d \in Delays, m \in Message : waiting'[d][m] > 0 => waiting[d][m] > 0 \/ m.event = e

(* The effect of e is committed, or e is given up, or neither. *)
Outcome(e) ==
  \/ settled' = settled \union {e} /\ UNCHANGED dead
  \/ dead' = dead \union {DeadLetter(e)} /\ UNCHANGED settled
  \/ UNCHANGED <<settled, dead>>

Works(h) ==
  \/ UNCHANGED <<waiting, settled, dead>>
  \/ /\ task[h].stage # "idle"
     /\ OnlyOf(task[h].msg.event)
     /\ Outcome(task[h].msg.event)

(* Routing is of the handler's own event. *)
LEMMA RouteWorks ==
  ASSUME TypeOK, HandlerInv, NEW h \in Handlers, Sent(h), Route(h), UNCHANGED settled
  PROVE  Works(h)
<1> DEFINE m == task[h].msg
<1>1. task[h].stage # "idle" /\ m \in Message
  BY DEF Sent, HandlerInv
<1>2. CASE task[h].stage = "sentRetry"
  <2> DEFINE n == NextAttempt(m)
  <2>1. n.event = m.event /\ n \in Message
    BY <1>1, <1>2, AttemptFacts DEF HandlerInv
  <2>2. RouteRetry(n)
    BY <1>2 DEF Route
  <2> HIDE DEF n
  <2>3. OnlyOf(m.event)
    BY <2>1, <2>2 DEF OnlyOf, RouteRetry, Put, TypeOK
  <2> QED
    BY <1>1, <2>2, <2>3 DEF Works, Outcome, RouteRetry
<1>3. CASE task[h].stage # "sentRetry"
  <2>1. RouteDead(m)
    BY <1>3 DEF Route
  <2>2. (IF Readable(m) THEN m.event ELSE NoEvent) = DeadLetter(m.event)
    BY DEF Readable, DeadLetter
  <2>3. dead' = dead \union {DeadLetter(m.event)} /\ waiting' = waiting
    BY <2>1, <2>2 DEF RouteDead
  <2> QED
    BY <1>1, <2>3 DEF Works, Outcome, OnlyOf
<1> QED
  BY <1>2, <1>3

(* So is every step of a handler about the event it has. *)
LEMMA HandlerWorks ==
  ASSUME TypeOK, HandlerInv, NEW h \in Handlers, Handle(h)
  PROVE  Works(h)
<1>1. CASE UNCHANGED <<waiting, settled, dead>>
  BY <1>1 DEF Works
<1>2. ASSUME Raises(h) PROVE UNCHANGED settled
  BY <1>2 DEF Raises, Gone
<1>3. ASSUME Fails(h) PROVE Works(h)
  BY <1>1, <1>2, <1>3 DEF Fails
<1>4. CASE Execute(h)
  BY <1>4 DEF Execute, Works, OnlyOf, Outcome
<1>5. CASE FailOrder(h)
  BY <1>3, <1>5 DEF FailOrder, Works, OnlyOf, Outcome
<1>6. CASE Confirm(h)
  BY <1>3, <1>6, RouteWorks DEF Confirm
<1>7. CASE Unconfirmed(h)
  <2>1. UNCHANGED settled
    BY <1>2, <1>7 DEF Unconfirmed
  <2> QED
    BY <1>1, <1>7, <2>1, RouteWorks DEF Unconfirmed
<1>8. CASE NoChannel(h) \/ AckFails(h)
  BY <1>3, <1>8 DEF NoChannel, AckFails
<1>9. CASE Connect(h) \/ Enter(h) \/ OnFailure(h) \/ Publish(h) \/ Ack(h) \/ AckElsewhere(h)
  BY <1>1, <1>9 DEF Connect, Enter, OnFailure, Publish, Ack, AckElsewhere, brokerVars
<1> QED
  BY <1>4, <1>5, <1>6, <1>7, <1>8, <1>9 DEF Handle

-----------------------------------------------------------------------------
(* No copy from nowhere                                                    *)

(* Where a copy of e is. *)
LEMMA CopyIsSomewhere ==
  ASSUME NEW e
  PROVE  /\ \A m \in Message : m.event = e /\ main[m] > 0 => Unfinished(e)
         /\ \A d \in Delays, m \in Message : m.event = e /\ waiting[d][m] > 0 => Unfinished(e)
         /\ \A h \in Handlers : task[h].stage # "idle" /\ task[h].msg.event = e => Unfinished(e)
  BY DEF Unfinished

(* What is ready after a taking back was ready, or was held. *)
LEMMA TakenBack ==
  ASSUME TypeOK, NEW S \in SUBSET Handlers, NEW m \in Message, PutBack(S)[m] > 0
  PROVE  main[m] > 0 \/ \E h \in S : task[h].msg = m
<1> DEFINE Copies == {h \in S : task[h].msg = m}
<1>1. CASE Copies = {}
  <2>1. Cardinality(Copies) = 0
    BY <1>1, FS_EmptySet
  <2>2. PutBack(S)[m] = main[m] + Cardinality(Copies)
    BY DEF PutBack
  <2> HIDE DEF Copies
  <2>3. main[m] \in Nat
    BY DEF TypeOK
  <2> QED
    BY <2>1, <2>2, <2>3
<1> QED
  BY <1>1

(* A copy of an event after a step is of an event there was a copy of. *)
NoneAppears == \A e \in Events : Unfinished(e)' => Unfinished(e)

(* It is enough to look at each place a copy may be. *)
LEMMA NothingAppears ==
  ASSUME \A m \in Message : main'[m] > 0 => Unfinished(m.event),
         \A d \in Delays, m \in Message : waiting'[d][m] > 0 => Unfinished(m.event),
         \A h \in Handlers : task'[h].stage # "idle" => Unfinished(task'[h].msg.event)
  PROVE  NoneAppears
<1> SUFFICES ASSUME NEW e \in Events, Unfinished(e)' PROVE Unfinished(e)
  BY DEF NoneAppears
<1>1. \/ \E m \in Message : m.event = e /\ main'[m] > 0
      \/ \E d \in Delays, m \in Message : m.event = e /\ waiting'[d][m] > 0
      \/ \E h \in Handlers : task'[h].stage # "idle" /\ task'[h].msg.event = e
  BY DEF Unfinished
<1> QED
  BY <1>1

(* Taking back makes no copy of what was not at work. *)
LEMMA TakenBackIsUnfinished ==
  ASSUME TypeOK, HandlerInv, NEW S \in SUBSET held, main' = PutBack(S),
         NEW m \in Message, main'[m] > 0
  PROVE  Unfinished(m.event)
<1>1. main[m] > 0 \/ \E h \in S : task[h].msg = m
  BY TakenBack DEF TypeOK
<1>2. \A h \in S : h \in Handlers /\ task[h].stage # "idle"
  BY DEF HandlerInv, TypeOK
<1> QED
  BY <1>1, <1>2, CopyIsSomewhere

(* A delivery is taken from its queue, a message whose delay is over from  *)
(* the one it waited in.                                                   *)
LEMMA MovesAppearNowhere ==
  ASSUME TypeOK, Deliveries \/ Expiries
  PROVE  NoneAppears
<1>1. ASSUME NEW h \in Handlers, NEW m \in Message, Deliver(h, m) PROVE NoneAppears
  <2>1. /\ main[m] > 0 /\ waiting' = waiting
        /\ task'[h].msg = m /\ \A g \in Handlers \ {h} : task'[g] = task[g]
        /\ \A n \in Message : main'[n] > 0 => main[n] > 0
    BY <1>1 DEF Deliver, TypeOK, Idle
  <2>2. \A g \in Handlers : task'[g].stage # "idle" => Unfinished(task'[g].msg.event)
    BY <2>1, CopyIsSomewhere
  <2> QED
    BY <2>1, <2>2, CopyIsSomewhere, NothingAppears
<1>2. ASSUME NEW d \in Delays, NEW m \in Message, Expire(d, m) PROVE NoneAppears
  <2>1. /\ waiting[d][m] > 0 /\ task' = task
        /\ \A n \in Message : main'[n] > 0 => main[n] > 0 \/ n = m
        /\ \A f \in Delays, n \in Message : waiting'[f][n] > 0 => waiting[f][n] > 0
    BY <1>2 DEF Expire, Put, TypeOK, handlerVars
  <2> QED
    BY <2>1, CopyIsSomewhere, NothingAppears
<1> QED
  BY <1>1, <1>2 DEF Deliveries, Expiries

(* What a handler makes copies of is at work in it. *)
LEMMA WorkAppearsNowhere ==
  ASSUME TypeOK, HandlerInv, ProcessInv, PrimaryInv, NEW h \in Handlers, Handle(h)
  PROVE  NoneAppears
<1>1. \A d \in Delays, m \in Message : waiting'[d][m] > 0 => Unfinished(m.event)
  BY HandlerWorks, CopyIsSomewhere DEF Works, OnlyOf
<1>2. CASE \E t \in Task : Proceeds(h, t)
  <2>1. PICK t \in Task : Proceeds(h, t)
    BY <1>2
  <2>2. main' = main /\ task[h].stage # "idle" /\ task'[h].msg = task[h].msg
        /\ \A g \in Handlers \ {h} : task'[g] = task[g]
    BY <2>1 DEF Proceeds, TypeOK
  <2>3. \A g \in Handlers : task'[g].stage # "idle" => Unfinished(task'[g].msg.event)
    BY <2>2, CopyIsSomewhere
  <2> QED
    BY <1>1, <2>2, <2>3, CopyIsSomewhere, NothingAppears
<1>3. CASE Falls
  <2>1. main' = PutBack(held) /\ \A g \in Handlers : task'[g].stage = "idle"
    BY <1>3, IdleTypes DEF Falls, Leaves, Gone
  <2>2. \A m \in Message : main'[m] > 0 => Unfinished(m.event)
    BY <2>1, TakenBackIsUnfinished
  <2> QED
    BY <1>1, <2>1, <2>2, NothingAppears
<1>4. CASE Connect(h)
  BY <1>1, <1>4, CopyIsSomewhere, NothingAppears DEF Connect, brokerVars, handlerVars
<1>5. CASE Ack(h) \/ AckElsewhere(h)
  <2>1. \A g \in Handlers : task'[g].stage # "idle" => task'[g] = task[g]
    BY <1>5, IdleTypes DEF Ack, AckElsewhere, Finish, TypeOK
  <2>2. \A m \in Message : main'[m] > 0 => Unfinished(m.event)
    <3>1. CASE Ack(h)
      BY <3>1, CopyIsSomewhere DEF Ack, brokerVars
    <3>2. CASE AckElsewhere(h)
      <4>1. main' = PutBack(HeldOn(task[h].chan)) /\ HeldOn(task[h].chan) \in SUBSET held
        BY <3>2 DEF AckElsewhere, Closed, HeldOn
      <4> QED
        BY <4>1, TakenBackIsUnfinished
    <3> QED
      BY <1>5, <3>1, <3>2
  <2> QED
    BY <1>1, <2>1, <2>2, CopyIsSomewhere, NothingAppears
<1> QED
  BY <1>2, <1>3, <1>4, <1>5, HandlerCases

-----------------------------------------------------------------------------
(* The refinement                                                          *)

Owed == {e \in Events : Unfinished(e)}
Letters == [e \in Events |-> DeadLetter(e)]

(* What is unfinished came once. *)
CameInv == Owed \subseteq published

(* A process that ends, a connection that goes. *)
LEMMA LossAppearsNowhere ==
  ASSUME TypeOK, HandlerInv, UNCHANGED waiting,
         (\E how : Gone(how)) \/ (\E c \in Connections : LoseConnection(c))
  PROVE  NoneAppears
<1>1. \E S \in SUBSET held : main' = PutBack(S)
  BY DEF Gone, LoseConnection, Closed, HeldOn
<1>2. \A h \in Handlers : task'[h].stage # "idle" => task'[h] = task[h]
  BY IdleTypes DEF Gone, LoseConnection
<1>3. \A m \in Message : main'[m] > 0 => Unfinished(m.event)
  BY <1>1, TakenBackIsUnfinished
<1> QED
  BY <1>2, <1>3, CopyIsSomewhere, NothingAppears

(* A step commits or gives up one event there is a copy of, or none, and   *)
(* makes no copy of another.                                               *)
LEMMA StepWorks ==
  ASSUME TypeOK, HandlerInv, ProcessInv, PrimaryInv, [Next]_vars
  PROVE  /\ (\E e \in Owed : Outcome(e)) \/ UNCHANGED <<settled, dead>>
         /\ NoneAppears /\ UNCHANGED published
<1> DEFINE Fine == /\ (\E e \in Owed : Outcome(e)) \/ UNCHANGED <<settled, dead>>
                   /\ NoneAppears /\ UNCHANGED published
<1>1. ASSUME UNCHANGED <<published, settled, dead>>, NoneAppears PROVE Fine
  BY <1>1
<1>2. ASSUME NEW h \in Handlers, Handle(h) PROVE Fine
  <2>1. published' = published
    BY <1>2, HandlerCases
       DEF Connect, Ack, AckElsewhere, Proceeds, Falls, Leaves, Gone, brokerVars
  <2>2. task[h].stage # "idle" => task[h].msg.event \in Owed
    BY CopyIsSomewhere, AttemptFacts DEF Owed, HandlerInv
  <2> QED
    BY <1>2, <2>1, <2>2, HandlerWorks, WorkAppearsNowhere DEF Works
<1>3. ASSUME UNCHANGED <<published, main, waiting, settled, dead, task>> PROVE Fine
  BY <1>1, <1>3 DEF NoneAppears, Unfinished
<1>4. ASSUME NEW how, Ends(how) PROVE Fine
  <2>1. Gone(how) /\ UNCHANGED <<published, waiting, settled, dead>>
    BY <1>4 DEF Ends, Gone
  <2> QED
    BY <1>1, <2>1, LossAppearsNowhere
<1>5. ASSUME NEW c \in Connections, LoseConnection(c) PROVE Fine
  BY <1>1, <1>5, LossAppearsNowhere DEF LoseConnection
<1>6. ASSUME Deliveries \/ Expiries PROVE Fine
  BY <1>1, <1>6, MovesAppearNowhere DEF Deliveries, Deliver, Expiries, Expire
<1>7. ASSUME \E x \in Callers : Connect(x) PROVE Fine
  BY <1>3, <1>7 DEF Connect, brokerVars, handlerVars
<1>8. ASSUME Start \/ Cancel \/ Signal \/ Restart \/ Check \/ UNCHANGED vars
      PROVE  Fine
  BY <1>3, <1>8 DEF Start, Cancel, Signal, Restart, Check, brokerVars, handlerVars, vars
<1>9. ASSUME StartFails \/ CancelFails \/ Crash \/ Exit
      PROVE  Fine
  BY <1>4, <1>9 DEF StartFails, CancelFails, Crash, Dies, Exit
<1>10. ASSUME Terminate PROVE Fine
  BY <1>4, <1>8, <1>10 DEF Terminate, Signal
<1> HIDE DEF Fine
<1>11. ASSUME Next PROVE Fine
  BY <1>2, <1>5, <1>6, <1>7, <1>8, <1>9, <1>10, <1>11 DEF Next, Lifetime, Callers
<1>12. Fine
  BY <1>8, <1>11
<1> QED
  BY <1>12 DEF Fine

(* Every step is a step of MessageDelivery: what came and is owed no more  *)
(* has been committed or given up, for it is kept (KeptInv) nowhere else.  *)
LEMMA StepImplementsDelivery ==
  ASSUME IInv, IInv', CameInv, [Next]_vars
  PROVE  CameInv' /\ [Delivery!Next]_(Delivery!vars)
<1> USE DEF IInv
<1>1. /\ (\E e \in Owed : Outcome(e)) \/ UNCHANGED <<settled, dead>>
      /\ Owed' \subseteq Owed /\ published' = published
  BY StepWorks DEF NoneAppears, Owed
<1>2. ASSUME NEW e \in Owed \ Owed' PROVE e \in settled' \/ Letters[e] \in dead'
  <2>1. e \in Events /\ e \in published' /\ ~Unfinished(e)'
    BY <1>1, <1>2 DEF CameInv, Owed
  <2>2. Kept(e)'
    BY <2>1 DEF KeptInv
  <2>3. \A h \in held' : h \in Handlers /\ task'[h].stage # "idle"
    BY DEF HandlerInv, TypeOK
  <2>4. e \in settled' \/ DeadLetter(e) \in dead'
    BY <2>1, <2>2, <2>3 DEF Kept, Waits, Unfinished, DeadLetter
  <2> QED
    BY <2>1, <2>4 DEF Letters
<1>3. \A e \in Owed : Letters[e] = DeadLetter(e)
  BY DEF Owed, Letters
<1>4. Delivery!Next
  BY <1>1, <1>2, <1>3
     DEF Delivery!Next, Delivery!Commit, Delivery!Bury, Delivery!Forget, Delivery!Finished,
         Outcome, Owed, Letters
<1> QED
  BY <1>1, <1>4 DEF CameInv

(* At the start an event has a message exactly if it came. *)
LEMMA FirstImplementsDelivery ==
  ASSUME Init
  PROVE  CameInv /\ Delivery!Init
<1>1. published \subseteq Events
  BY ConsumerAssumption DEF Init
<1>2. ASSUME NEW e \in Events, Unfinished(e) PROVE e \in published
  <2>1. \A h \in Handlers : task[h].stage = "idle"
    BY IdleTypes DEF Init
  <2>2. \A m \in Message : main[m] > 0 => m.event \in published
    BY DEF Init
  <2>3. \A d \in Delays, m \in Message : waiting[d][m] > 0 => m.event \in published
    BY DEF Init
  <2> QED
    BY <1>2, <2>1, <2>2, <2>3 DEF Unfinished
<1>3. \A e \in published : Unfinished(e)
  BY FirstIsKept DEF Waits, Unfinished
<1>4. Owed = published
  BY <1>1, <1>2, <1>3 DEF Owed
<1>5. settled = {} /\ dead = {}
  BY DEF Init
<1> QED
  BY <1>1, <1>4, <1>5 DEF CameInv, Owed, Delivery!Init

(* Whatever closes, dies or is retried, and whoever still works on a       *)
(* delivery it has lost, the consumer and its queues deliver at least      *)
(* once: an event's effect and its dead letter come from a copy, the last  *)
(* copy goes after one of them, and there is never another.                *)
THEOREM RefinesDelivery == Spec => ImplementsDelivery
<1>1. Init => CameInv /\ Delivery!Init
  BY FirstImplementsDelivery
<1>2. IInv /\ IInv' /\ CameInv /\ [Next]_vars => CameInv' /\ [Delivery!Next]_(Delivery!vars)
  BY StepImplementsDelivery
<1> QED
  BY <1>1, <1>2, ConsumerInvariant, PTL DEF Spec, ImplementsDelivery, Delivery!Spec
=============================================================================
