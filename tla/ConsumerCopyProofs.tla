--------------------------- MODULE ConsumerCopyProofs ---------------------------
(***************************************************************************)
(* Without a fault there is one copy of a message: while no process has    *)
(* died and no connection was lost, an event is in one queue, once, or at  *)
(* work in one handler.                                                    *)
(***************************************************************************)
EXTENDS ConsumerProcessProofs

-----------------------------------------------------------------------------
(* The inductive invariant                                                 *)

Quiet == SameKeys /\ faults = 0 /\ Up

(* Queues are bound as this deployment or the one before declares them. *)
BindInv == bindings \subseteq Bound(Tiers) \union Bound(OldTiers)

(* A held delivery's publish is on the channel it was delivered on. *)
PubInv == \A h \in held : Sent(h) => task[h].pub = task[h].conn

(* Without a fault, who is at work holds its delivery. *)
HeldInv == Quiet => \A h \in Handlers : task[h].stage # "idle" => h \in held

(* Where a message about e is ready, waits, or is worked on. *)
MainPlaces(e) == {<<"main", m>> : m \in {n \in Message : n.event = e /\ main[n] > 0}}
WaitingPlaces(e) ==
  {<<"waiting", x>> :
     x \in {y \in Delays \X Message : y[2].event = e /\ waiting[y[1]][y[2]] > 0}}
WorkPlaces(e) ==
  {<<"work", h>> : h \in {g \in held : task[g].msg.event = e /\ task[g].stage # "ack"}}

PlacesOf(e) == MainPlaces(e) \union WaitingPlaces(e) \union WorkPlaces(e)

AtMostOne(S) == \A x, y \in S : x = y

(* Every queue has a message once, and no event has two places. *)
CopyInv == Quiet =>
  /\ \A m \in Message : main[m] <= 1
  /\ \A d \in Delays, m \in Message : waiting[d][m] <= 1
  /\ \A e \in Events : AtMostOne(PlacesOf(e))

OneCopyInv == BindInv /\ PubInv /\ HeldInv /\ CopyInv

-----------------------------------------------------------------------------
(* What a handler may do                                                   *)

(* Only publish sends. *)
LEMMA OnlyPublishSends ==
  ASSUME TypeOK, NEW h \in Handlers, Handle(h)
  PROVE  \/ \A g \in Handlers : task'[g].stage \in {"sentRetry", "sentDead"} => task'[g] = task[g]
         \/ Publish(h)
<1> DEFINE Quietly == \A g \in Handlers : task'[g].stage \in {"sentRetry", "sentDead"} => task'[g] = task[g]
<1>1. ASSUME NEW s, task' = [task EXCEPT ![h] = s], s.stage \notin {"sentRetry", "sentDead"}
      PROVE  Quietly
  BY <1>1 DEF TypeOK
<1>2. ASSUME NEW how, Gone(how) PROVE Quietly
  BY <1>2, IdleTypes DEF Gone
<1>3. task[h] \in Task /\ task = [task EXCEPT ![h] = task[h]]
  BY DEF TypeOK
<1>4. ASSUME NEW stage \in Stages \ {"sentRetry", "sentDead"}, Goto(h, stage) PROVE Quietly
  <2> DEFINE s == [task[h] EXCEPT !.stage = stage]
  <2>1. s.stage = stage /\ task' = [task EXCEPT ![h] = s]
    BY <1>3, <1>4 DEF Task, TypeOK, Goto
  <2> HIDE DEF s
  <2> QED
    BY <1>1, <2>1
<1>5. CASE Raises(h)
  <2>1. CASE task' = [task EXCEPT ![h].stage = "failure", ![h].guarded = FALSE]
    <3> DEFINE s == [task[h] EXCEPT !.stage = "failure", !.guarded = FALSE]
    <3>1. s.stage = "failure" /\ task' = [task EXCEPT ![h] = s]
      BY <1>3, <2>1 DEF Task, TypeOK
    <3> HIDE DEF s
    <3> QED
      BY <1>1, <3>1
  <2> QED
    BY <1>2, <1>5, <2>1 DEF Raises
<1>6. CASE Enter(h)
  <2> DEFINE stage == CASE ~Readable(task[h].msg) -> "dead"
                        [] Readable(task[h].msg) /\ ~WellFormed(task[h].msg) -> "failure"
                        [] OTHER -> "execute"
             guarded == Readable(task[h].msg) /\ WellFormed(task[h].msg)
  <2>1. PICK c : task' = [task EXCEPT ![h].chan = c, ![h].stage = stage, ![h].guarded = guarded]
    BY <1>6 DEF Enter
  <2>2. stage \in Stages \ {"sentRetry", "sentDead"}
    BY DEF Readable, WellFormed, Stages
  <2> DEFINE s == [task[h] EXCEPT !.chan = c, !.stage = stage, !.guarded = guarded]
  <2> HIDE DEF stage, guarded
  <2>3. s.stage = stage /\ task' = [task EXCEPT ![h] = s]
    BY <1>3, <2>1 DEF Task, TypeOK
  <2> HIDE DEF s
  <2> QED
    BY <1>1, <2>2, <2>3
<1>7. CASE OnFailure(h)
  <2> DEFINE stage == Decision(task[h].msg)
  <2>1. PICK c : task' = [task EXCEPT ![h].chan = c, ![h].stage = stage]
    BY <1>7 DEF OnFailure
  <2>2. stage \in Stages \ {"sentRetry", "sentDead"}
    BY DEF Decision, WellFormed, Stages
  <2> DEFINE s == [task[h] EXCEPT !.chan = c, !.stage = stage]
  <2> HIDE DEF stage
  <2>3. s.stage = stage /\ task' = [task EXCEPT ![h] = s]
    BY <1>3, <2>1 DEF Task, TypeOK
  <2> HIDE DEF s
  <2> QED
    BY <1>1, <2>2, <2>3
<1>8. CASE Execute(h)
  <2>1. CASE task' = [task EXCEPT ![h].stage = "failure", ![h].guarded = FALSE]
    <3> DEFINE s == [task[h] EXCEPT !.stage = "failure", !.guarded = FALSE]
    <3>1. s.stage = "failure" /\ task' = [task EXCEPT ![h] = s]
      BY <1>3, <2>1 DEF Task, TypeOK
    <3> HIDE DEF s
    <3> QED
      BY <1>1, <3>1
  <2> QED
    BY <1>4, <1>8, <2>1 DEF Execute, Stages
<1>9. CASE Ack(h) \/ AckElsewhere(h)
  BY <1>1, <1>9, IdleTypes DEF Ack, AckElsewhere, Finish
<1>10. CASE NoChannel(h) \/ FailOrder(h) \/ Confirm(h) \/ Unconfirmed(h) \/ AckFails(h)
  BY <1>4, <1>5, <1>10 DEF NoChannel, FailOrder, Confirm, Unconfirmed, AckFails, Fails, Stages
<1>11. CASE Connect(h)
  BY <1>11 DEF Connect, handlerVars
<1> QED
  BY <1>6, <1>7, <1>8, <1>9, <1>10, <1>11 DEF Handle

(* The connection of a delivery that is held is open, and so are the       *)
(* channels its handler acknowledges and publishes on.                     *)
LEMMA HeldIsOpen ==
  ASSUME IInv, PubInv, NEW h \in held
  PROVE  /\ task[h].stage \notin {"idle", "enter"} => conn[task[h].chan] = "open"
         /\ Sent(h) => conn[task[h].pub] = "open"
<1>1. h \in Handlers /\ Sole(task[h].conn)
  BY DEF IInv, PrimaryInv, TypeOK
<1>2. conn[task[h].conn] = "open" /\ task[h].chan \in {0, task[h].conn}
  BY <1>1 DEF Sole
<1>3. task[h].stage \notin {"idle", "enter"} => task[h].chan = task[h].conn
  BY <1>1, <1>2, ConnectionFacts DEF IInv, HandlerInv
<1> QED
  BY <1>2, <1>3 DEF PubInv

(* Without a fault a handler that goes on was not at its ack, and routes   *)
(* only a retry, which takes it there.                                     *)
ProceedsQuietly(h, t) ==
  /\ Proceeds(h, t)
  /\ task[h].stage # "ack"
  /\ \/ UNCHANGED waiting
     \/ task[h].stage = "sentRetry" /\ RouteRetry(NextAttempt(task[h].msg)) /\ t.stage = "ack"

(* So a handler's step, when no fault has been and none comes. *)
LEMMA QuietHandler ==
  ASSUME IInv, PubInv, HeldInv, NEW h \in Handlers, Handle(h), Quiet'
  PROVE  /\ Quiet
         /\ \/ Connect(h) \/ Ack(h)
            \/ \E t \in Task : ProceedsQuietly(h, t)
<1> USE DEF IInv
<1>1. ~Falls
  BY DEF Falls, Leaves, Gone, Quiet, Up
<1>2. Quiet
  BY <1>1, HandlerCases DEF Connect, Ack, AckElsewhere, Proceeds, Quiet, Up
<1>3. task[h].stage # "idle" => h \in held
  BY <1>2 DEF HeldInv
<1>4. CASE Connect(h) \/ Ack(h)
  BY <1>2, <1>4
<1>5. ASSUME AckElsewhere(h) PROVE FALSE
  BY <1>3, <1>5, ElsewhereIsAfterLoss DEF AckElsewhere
<1>6. ASSUME Unconfirmed(h) \/ AckFails(h) PROVE FALSE
  BY <1>3, <1>6, HeldIsOpen DEF Unconfirmed, AckFails, Sent
<1>7. ASSUME task[h].stage # "ack", NEW t \in Task, Proceeds(h, t),
             ~(Connect(h) \/ Ack(h))
      PROVE  ProceedsQuietly(h, t)
  <2>1. CASE NoChannel(h) \/ Enter(h) \/ Execute(h) \/ OnFailure(h) \/ FailOrder(h) \/ Publish(h)
    BY <1>7, <2>1 DEF ProceedsQuietly, NoChannel, Enter, Execute, OnFailure, FailOrder, Publish, Fails
  <2>2. CASE Confirm(h)
    <3>1. CASE Fails(h)
      BY <1>7, <3>1 DEF ProceedsQuietly, Fails
    <3>2. CASE Route(h) /\ Goto(h, "ack")
      <4>1. task'[h].stage = "ack" /\ t.stage = "ack"
        BY <1>7, <3>2 DEF Goto, Proceeds, TypeOK, Task
      <4> QED
        BY <1>7, <3>2, <4>1 DEF ProceedsQuietly, Route, RouteDead
    <3> QED
      BY <2>2, <3>1, <3>2 DEF Confirm
  <2> QED
    BY <1>5, <1>6, <1>7, <2>1, <2>2 DEF Handle
<1>8. ASSUME task[h].stage = "ack" PROVE Ack(h)
  <2>1. ~Connect(h)
    BY <1>8, ConsumerAssumption DEF Connect, Wants
  <2>2. ~(NoChannel(h) \/ Enter(h) \/ Execute(h) \/ OnFailure(h) \/ FailOrder(h))
    BY <1>8 DEF NoChannel, Enter, Execute, OnFailure, FailOrder
  <2>3. ~(Publish(h) \/ Confirm(h))
    BY <1>8 DEF Publish, Confirm, Sent
  <2> QED
    BY <1>5, <1>6, <2>1, <2>2, <2>3 DEF Handle
<1> QED
  BY <1>1, <1>2, <1>4, <1>5, <1>7, <1>8, HandlerCases

(* Any step, when no fault has been and none comes. *)
LEMMA QuietStep ==
  ASSUME IInv, PubInv, HeldInv, Next, Quiet'
  PROVE  /\ Quiet
         /\ \/ \E x \in Callers : Connect(x)
            \/ \E h \in Handlers : Ack(h) \/ \E t \in Task : ProceedsQuietly(h, t)
            \/ Start \/ Cancel \/ Signal \/ Check \/ Deliveries \/ Expiries
<1> USE DEF IInv
<1>1. ASSUME NEW how \in {"exited", "crashed"}, Leaves(how) PROVE FALSE
  BY <1>1 DEF Leaves, Gone, Quiet, Up
<1>2. ~Restart /\ ~(\E c \in Connections : LoseConnection(c))
  BY ConsumerAssumption DEF Restart, LoseConnection, Quiet, TypeOK
<1>3. ASSUME NEW h \in Handlers, Handle(h)
      PROVE  Quiet /\ (Connect(h) \/ Ack(h) \/ \E t \in Task : ProceedsQuietly(h, t))
  BY <1>3, QuietHandler
<1>4. CASE Connect(Lifecycle) \/ Connect(Probe)
  BY <1>4 DEF Connect, Callers, Quiet, Up
<1>5. ~(StartFails \/ CancelFails \/ Crash \/ Exit)
  BY <1>1, EndsCases DEF StartFails, CancelFails, Crash, Dies, Exit
<1>6. CASE Terminate
  BY <1>1, <1>6, EndsCases DEF Terminate, Signal, Quiet, Up
<1>7. CASE Start \/ Cancel \/ Check \/ Deliveries \/ Expiries
  BY <1>7 DEF Start, Cancel, Check, Deliveries, Deliver, Expiries, Expire, Quiet, Up
<1> QED
  BY <1>2, <1>3, <1>4, <1>5, <1>6, <1>7 DEF Next, Lifetime, Callers

-----------------------------------------------------------------------------
(* Bindings, publishes, deliveries                                         *)

(* Only getChannel binds queues, those of this deployment's tiers. *)
LEMMA BindStep ==
  ASSUME IInv, BindInv, [Next]_vars
  PROVE  BindInv'
<1> USE DEF IInv
<1>1. ASSUME bindings' \in {bindings, bindings \union Bound(Tiers)} PROVE BindInv'
  BY <1>1 DEF BindInv
<1>2. ASSUME NEW x, NEW c, Gets(x, c) PROVE BindInv'
  BY <1>1, <1>2 DEF Gets
<1>3. ASSUME NEW h \in Handlers, NEW t \in Task, Proceeds(h, t) PROVE BindInv'
  BY <1>1, <1>2, <1>3 DEF Proceeds, ChannelWork
<1>4. CASE Start \/ Cancel \/ Check
  BY <1>1, <1>2, <1>4 DEF Start, Cancel, Check
<1> QED
  BY <1>1, <1>3, <1>4, StepCases
     DEF Connect, Ack, AckElsewhere, Leaves, Gone, Signal, Restart, LoseConnection,
         Deliveries, Deliver, Expiries, Expire, brokerVars, vars

(* A publish takes the channel of the delivery, for there is no other. *)
LEMMA PubStep ==
  ASSUME IInv, PubInv, [Next]_vars
  PROVE  PubInv'
<1> USE DEF IInv
<1>1. ASSUME NEW g \in held', Sent(g)', g \in held, task'[g] = task[g]
      PROVE  task'[g].pub = task'[g].conn
  BY <1>1 DEF PubInv, Sent
<1>2. ASSUME \A g \in held' : Sent(g)' => g \in held /\ task'[g] = task[g]
      PROVE  PubInv'
  BY <1>1, <1>2 DEF PubInv
<1>3. ASSUME NEW h \in Handlers, Publish(h) PROVE PubInv'
  <2>1. PICK c \in Connections :
          /\ Gets(h, c)
          /\ task' = [task EXCEPT ![h].pub = c,
               ![h].stage = IF @ = "retry" THEN "sentRetry" ELSE "sentDead"]
    BY <1>3 DEF Publish
  <2>2. UNCHANGED held
    BY <1>3 DEF Publish
  <2>3. \A g \in Handlers \ {h} : task'[g] = task[g]
    BY <2>1 DEF TypeOK
  <2>4. ASSUME h \in held PROVE task'[h].pub = task'[h].conn
    <3>1. Sole(task[h].conn)
      BY <2>4 DEF PrimaryInv
    <3>2. c = task[h].conn
      BY <2>1, <3>1, SoleStays DEF Callers
    <3>3. task[h] \in Task
      BY DEF TypeOK
    <3>4. task'[h].pub = c /\ task'[h].conn = task[h].conn
      BY <2>1, <3>3 DEF TypeOK, Task
    <3> QED
      BY <3>2, <3>4
  <2> QED
    BY <1>1, <2>2, <2>3, <2>4 DEF PubInv, TypeOK
<1>4. ASSUME NEW h \in Handlers, Handle(h) PROVE PubInv'
  <2>1. held' \subseteq held
    <3>1. CASE Connect(h) \/ Ack(h) \/ \E t \in Task : Proceeds(h, t)
      BY <3>1 DEF Connect, Ack, Proceeds, handlerVars
    <3>2. CASE AckElsewhere(h) \/ Falls
      BY <3>2 DEF AckElsewhere, Closed, Falls, Leaves, Gone
    <3> QED
      BY <1>4, <3>1, <3>2, HandlerCases
  <2> QED
    BY <1>2, <1>3, <1>4, <2>1, OnlyPublishSends DEF TypeOK, Sent
<1>5. CASE UNCHANGED handlerVars
  BY <1>2, <1>5 DEF handlerVars
<1>6. ASSUME NEW how, Gone(how) PROVE PubInv'
  BY <1>6 DEF Gone, PubInv
<1>7. ASSUME NEW h \in Handlers, NEW m \in Message, Deliver(h, m) PROVE PubInv'
  <2>1. /\ held' = held \union {h} /\ task'[h].stage = "enter"
        /\ \A g \in Handlers \ {h} : task'[g] = task[g]
    BY <1>7 DEF Deliver, TypeOK, Idle
  <2> QED
    BY <1>2, <2>1 DEF TypeOK, Sent
<1>8. ASSUME NEW c \in Connections, LoseConnection(c) PROVE PubInv'
  BY <1>2, <1>8 DEF LoseConnection, Closed
<1>9. CASE StartFails \/ CancelFails \/ Crash \/ Exit \/ Terminate
  BY <1>5, <1>6, <1>9 DEF StartFails, CancelFails, Crash, Dies, Exit, Ends, Terminate
<1> QED
  BY <1>4, <1>5, <1>7, <1>8, <1>9
     DEF Next, Lifetime, Connect, Start, Cancel, Restart, Check, Deliveries, Expiries, Expire,
         vars

(* Without a fault a delivery is held until its handler's end. *)
LEMMA HeldStep ==
  ASSUME IInv, PubInv, HeldInv, [Next]_vars
  PROVE  HeldInv'
<1> USE DEF IInv
<1> SUFFICES ASSUME Quiet' PROVE \A h \in Handlers : task'[h].stage # "idle" => h \in held'
  BY DEF HeldInv
<1>1. ASSUME Quiet, held \subseteq held',
             \A h \in Handlers : task'[h].stage # "idle" => task[h].stage # "idle"
      PROVE  \A h \in Handlers : task'[h].stage # "idle" => h \in held'
  BY <1>1 DEF HeldInv
<1>2. CASE UNCHANGED vars
  BY <1>1, <1>2 DEF vars, handlerVars, Quiet, Up
<1>3. ASSUME NEW h \in Handlers, NEW t \in Task, Proceeds(h, t), Quiet
      PROVE  \A g \in Handlers : task'[g].stage # "idle" => g \in held'
  BY <1>1, <1>3 DEF Proceeds, TypeOK
<1>4. ASSUME NEW h \in Handlers, Ack(h), Quiet
      PROVE  \A g \in Handlers : task'[g].stage # "idle" => g \in held'
  BY <1>4, IdleTypes DEF Ack, Acked, Finish, HeldInv, TypeOK
<1>5. ASSUME NEW h \in Handlers, NEW m \in Message, Deliver(h, m), Quiet
      PROVE  \A g \in Handlers : task'[g].stage # "idle" => g \in held'
  BY <1>5 DEF Deliver, HeldInv, TypeOK
<1>6. CASE UNCHANGED handlerVars /\ Quiet
  BY <1>1, <1>6 DEF handlerVars
<1> QED
  BY <1>2, <1>3, <1>4, <1>5, <1>6, QuietStep
     DEF ProceedsQuietly, Connect, Start, Cancel, Signal, Check, Deliveries, Expiries, Expire

-----------------------------------------------------------------------------
(* One place                                                               *)

(* A message that goes from one place to another leaves no copy behind. *)
LEMMA MovingKeepsOne ==
  ASSUME NEW S, AtMostOne(S), NEW x \in S, NEW y, NEW T, T \subseteq (S \ {x}) \union {y}
  PROVE  AtMostOne(T)
  BY DEF AtMostOne

(* What the places of an event are. *)
LEMMA PlaceFacts ==
  ASSUME NEW e
  PROVE  /\ \A m \in Message : m.event = e /\ main[m] > 0 => <<"main", m>> \in PlacesOf(e)
         /\ \A d \in Delays, m \in Message :
              m.event = e /\ waiting[d][m] > 0 => <<"waiting", <<d, m>>>> \in PlacesOf(e)
         /\ \A h \in held :
              task[h].msg.event = e /\ task[h].stage # "ack" => <<"work", h>> \in PlacesOf(e)
  BY DEF PlacesOf, MainPlaces, WaitingPlaces, WorkPlaces

(* A retry waits in one queue: the key of an attempt has been bound to one *)
(* delay, by whichever deployment.                                         *)
LEMMA OneQueuePerKey ==
  ASSUME BindInv, SameKeys, NEW k, NEW d \in RoutedTo(k), NEW f \in RoutedTo(k)
  PROVE  d = f
  BY DEF BindInv, SameKeys, RoutedTo, Bound

(* A handler at its retry hands the event on: it waits once, in one queue. *)
LEMMA RetryKeepsOne ==
  ASSUME IInv, OneCopyInv, Quiet, NEW h \in Handlers, NEW t \in Task, Proceeds(h, t),
         task[h].stage = "sentRetry", t.stage = "ack",
         RouteRetry(NextAttempt(task[h].msg))
  PROVE  /\ \A d \in Delays, m \in Message : waiting'[d][m] <= 1
         /\ \A e \in Events : AtMostOne(PlacesOf(e)')
<1> USE DEF IInv
<1>1. PICK o \in Message, n \in Message, e \in Events :
        /\ o = task[h].msg /\ n = NextAttempt(o) /\ e = o.event
        /\ n.event = e
  <2>1. task[h].msg \in Message /\ AttemptOf(task[h].msg) \in DOMAIN Tiers
    BY DEF HandlerInv
  <2> QED
    BY <2>1, AttemptFacts
<1> DEFINE k == RetryKey(n)
<1>2. h \in held /\ held' = held /\ main' = main
  BY DEF OneCopyInv, HeldInv, Proceeds
<1>3. task'[h] = t /\ t.msg = o /\ \A g \in Handlers \ {h} : task'[g] = task[g]
  BY <1>1 DEF Proceeds, TypeOK
<1>4. waiting' = [d \in Delays |-> IF d \in RoutedTo(k) THEN Put(waiting[d], n) ELSE waiting[d]]
  BY <1>1 DEF RouteRetry
<1>5. <<"work", h>> \in PlacesOf(e) /\ AtMostOne(PlacesOf(e))
  BY <1>1, <1>2, PlaceFacts DEF OneCopyInv, CopyInv
<1>6. /\ \A m \in Message : m.event = e => ~(main[m] > 0)
      /\ \A d \in Delays, m \in Message : m.event = e => ~(waiting[d][m] > 0)
      /\ \A g \in held : task[g].msg.event = e /\ task[g].stage # "ack" => g = h
  BY <1>5, PlaceFacts DEF AtMostOne
<1>7. \A d \in Delays, m \in Message :
        waiting'[d][m] = IF d \in RoutedTo(k) /\ m = n THEN waiting[d][m] + 1 ELSE waiting[d][m]
  BY <1>1, <1>4 DEF Put, TypeOK
<1>8. \A d \in Delays, m \in Message : waiting[d][m] \in Nat /\ waiting[d][m] <= 1
  BY DEF OneCopyInv, CopyInv, TypeOK
<1>9. \A d \in Delays, m \in Message : waiting'[d][m] <= 1
  BY <1>1, <1>6, <1>7, <1>8
<1>10. AtMostOne(PlacesOf(e)')
  <2>1. ASSUME NEW x \in PlacesOf(e)'
        PROVE  \E d \in RoutedTo(k) : x = <<"waiting", <<d, n>>>>
    <3>1. x \notin MainPlaces(e)'
      BY <1>2, <1>6 DEF MainPlaces
    <3>2. x \notin WorkPlaces(e)'
      BY <1>2, <1>3, <1>6 DEF WorkPlaces, TypeOK
    <3>3. PICK y \in Delays \X Message :
            x = <<"waiting", y>> /\ y[2].event = e /\ waiting'[y[1]][y[2]] > 0
      BY <2>1, <3>1, <3>2 DEF PlacesOf, WaitingPlaces
    <3>4. y[1] \in RoutedTo(k) /\ y[2] = n
      BY <1>6, <1>7, <3>3
    <3> QED
      BY <3>3, <3>4
  <2> QED
    BY <2>1, OneQueuePerKey DEF AtMostOne, OneCopyInv, Quiet
<1>11. ASSUME NEW f \in Events \ {e} PROVE AtMostOne(PlacesOf(f)')
  <2>1. MainPlaces(f)' = MainPlaces(f)
    BY <1>2 DEF MainPlaces
  <2>2. WaitingPlaces(f)' \subseteq WaitingPlaces(f)
    BY <1>1, <1>7 DEF WaitingPlaces
  <2>3. WorkPlaces(f)' \subseteq WorkPlaces(f)
    BY <1>1, <1>2, <1>3 DEF WorkPlaces, TypeOK
  <2> QED
    BY <2>1, <2>2, <2>3 DEF PlacesOf, AtMostOne, OneCopyInv, CopyInv
<1> QED
  BY <1>9, <1>10, <1>11

(* A delivery takes the message from its queue. *)
LEMMA DeliverKeepsOne ==
  ASSUME IInv, OneCopyInv, Quiet, NEW h \in Handlers, NEW m \in Message, Deliver(h, m)
  PROVE  /\ \A n \in Message : main'[n] <= 1
         /\ \A e \in Events : AtMostOne(PlacesOf(e)')
<1> USE DEF IInv
<1>1. \A n \in Message : main[n] \in Nat /\ main[n] <= 1
  BY DEF OneCopyInv, CopyInv, TypeOK
<1>2. main[m] = 1 /\ \A n \in Message : main'[n] = IF n = m THEN 0 ELSE main[n]
  BY <1>1 DEF Deliver, TypeOK
<1>3. /\ waiting' = waiting /\ held' = held \union {h} /\ task'[h].msg = m
      /\ \A g \in Handlers \ {h} : task'[g] = task[g]
  BY DEF Deliver, TypeOK, Idle
<1>4. h \notin held
  BY DEF Deliver, HandlerInv
<1>5. ASSUME NEW e \in Events PROVE AtMostOne(PlacesOf(e)')
  <2>1. MainPlaces(e)' \subseteq MainPlaces(e) \ {<<"main", m>>}
    BY <1>1, <1>2 DEF MainPlaces
  <2>2. WaitingPlaces(e)' = WaitingPlaces(e) /\ <<"main", m>> \notin WaitingPlaces(e)
    BY <1>3 DEF WaitingPlaces
  <2>3. /\ WorkPlaces(e)' \subseteq WorkPlaces(e) \union {<<"work", h>>}
        /\ m.event # e => WorkPlaces(e)' \subseteq WorkPlaces(e)
        /\ <<"main", m>> \notin WorkPlaces(e)
    BY <1>3, <1>4 DEF WorkPlaces, TypeOK
  <2>4. AtMostOne(PlacesOf(e))
    BY DEF OneCopyInv, CopyInv
  <2>5. CASE m.event = e
    <3>1. <<"main", m>> \in PlacesOf(e)
      BY <1>2, <2>5, PlaceFacts
    <3>2. PlacesOf(e)' \subseteq (PlacesOf(e) \ {<<"main", m>>}) \union {<<"work", h>>}
      BY <2>1, <2>2, <2>3 DEF PlacesOf
    <3> QED
      BY <2>4, <3>1, <3>2, MovingKeepsOne
  <2>6. CASE m.event # e
    <3>1. PlacesOf(e)' \subseteq PlacesOf(e)
      BY <2>1, <2>2, <2>3, <2>6 DEF PlacesOf
    <3> QED
      BY <2>4, <3>1 DEF AtMostOne
  <2> QED
    BY <2>5, <2>6
<1>6. \A n \in Message : main'[n] <= 1
  BY <1>1, <1>2
<1> QED
  BY <1>5, <1>6

(* A message whose delay is over is ready once, and waits no more. *)
LEMMA ExpireKeepsOne ==
  ASSUME IInv, OneCopyInv, Quiet, NEW d \in Delays, NEW m \in Message, Expire(d, m)
  PROVE  /\ \A n \in Message : main'[n] <= 1
         /\ \A f \in Delays, n \in Message : waiting'[f][n] <= 1
         /\ \A e \in Events : AtMostOne(PlacesOf(e)')
<1> USE DEF IInv
<1>1. /\ \A n \in Message : main[n] \in Nat /\ main[n] <= 1
      /\ \A f \in Delays, n \in Message : waiting[f][n] \in Nat /\ waiting[f][n] <= 1
  BY DEF OneCopyInv, CopyInv, TypeOK
<1>2. m.event \in Events
  BY AttemptFacts
<1>3. waiting[d][m] = 1
  BY <1>1 DEF Expire
<1>4. main[m] = 0
  <2>1. main[m] > 0 => FALSE
    <3>1. <<"waiting", <<d, m>>>> \in PlacesOf(m.event)
      BY <1>3, PlaceFacts
    <3>2. main[m] > 0 => <<"main", m>> \in PlacesOf(m.event)
      BY PlaceFacts
    <3> QED
      BY <1>2, <3>1, <3>2 DEF OneCopyInv, CopyInv, AtMostOne
  <2> QED
    BY <1>1, <2>1
<1>5. \A n \in Message : main'[n] = IF n = m THEN 1 ELSE main[n]
  BY <1>1, <1>4 DEF Expire, Put, TypeOK
<1>6. \A f \in Delays, n \in Message :
        waiting'[f][n] = IF f = d /\ n = m THEN 0 ELSE waiting[f][n]
  BY <1>1, <1>3 DEF Expire, TypeOK
<1>7. UNCHANGED <<held, task>>
  BY DEF Expire, handlerVars
<1>8. ASSUME NEW e \in Events PROVE AtMostOne(PlacesOf(e)')
  <2> DEFINE x == <<"waiting", <<d, m>>>>
  <2>1. /\ MainPlaces(e)' \subseteq MainPlaces(e) \union {<<"main", m>>}
        /\ m.event # e => MainPlaces(e)' \subseteq MainPlaces(e)
        /\ x \notin MainPlaces(e)
    BY <1>5 DEF MainPlaces
  <2>2. WaitingPlaces(e)' \subseteq WaitingPlaces(e) \ {x}
    BY <1>1, <1>6 DEF WaitingPlaces
  <2>3. WorkPlaces(e)' = WorkPlaces(e) /\ x \notin WorkPlaces(e)
    BY <1>7 DEF WorkPlaces
  <2>4. AtMostOne(PlacesOf(e))
    BY DEF OneCopyInv, CopyInv
  <2>5. CASE m.event = e
    <3>1. x \in PlacesOf(e)
      BY <1>3, <2>5, PlaceFacts
    <3>2. PlacesOf(e)' \subseteq (PlacesOf(e) \ {x}) \union {<<"main", m>>}
      BY <2>1, <2>2, <2>3 DEF PlacesOf
    <3> QED
      BY <2>4, <3>1, <3>2, MovingKeepsOne
  <2>6. CASE m.event # e
    <3>1. PlacesOf(e)' \subseteq PlacesOf(e)
      BY <2>1, <2>2, <2>3, <2>6 DEF PlacesOf
    <3> QED
      BY <2>4, <3>1 DEF AtMostOne
  <2> QED
    BY <2>5, <2>6
<1>9. \A n \in Message : main'[n] <= 1
  BY <1>1, <1>5
<1>10. \A f \in Delays, n \in Message : waiting'[f][n] <= 1
  BY <1>1, <1>6
<1> QED
  BY <1>8, <1>9, <1>10

(* Every step without a fault keeps one copy of each message. *)
LEMMA CopyStep ==
  ASSUME IInv, OneCopyInv, [Next]_vars
  PROVE  CopyInv'
<1> SUFFICES ASSUME Quiet'
             PROVE  /\ \A m \in Message : main'[m] <= 1
                    /\ \A d \in Delays, m \in Message : waiting'[d][m] <= 1
                    /\ \A e \in Events : AtMostOne(PlacesOf(e)')
  BY DEF CopyInv
<1> DEFINE Once == /\ \A m \in Message : main'[m] <= 1
                   /\ \A d \in Delays, m \in Message : waiting'[d][m] <= 1
                   /\ \A e \in Events : AtMostOne(PlacesOf(e)')
<1>1. ASSUME Quiet, UNCHANGED <<main, waiting>>,
             \A e \in Events : WorkPlaces(e)' \subseteq WorkPlaces(e)
      PROVE  Once
  <2>1. \A e \in Events : PlacesOf(e)' \subseteq PlacesOf(e)
    BY <1>1 DEF PlacesOf, MainPlaces, WaitingPlaces
  <2> QED
    BY <1>1, <2>1 DEF OneCopyInv, CopyInv, AtMostOne
<1>2. ASSUME Quiet, UNCHANGED <<main, waiting, handlerVars>> PROVE Once
  BY <1>1, <1>2 DEF WorkPlaces, handlerVars
<1>3. ASSUME UNCHANGED vars PROVE Once
  <2>1. Quiet
    BY <1>3 DEF vars, Quiet, Up
  <2> QED
    BY <1>2, <1>3, <2>1 DEF vars, brokerVars
<1>4. ASSUME Quiet, NEW h \in Handlers, Ack(h) PROVE Once
  <2>1. UNCHANGED <<main, waiting>> /\ held' = held \ {h}
        /\ \A g \in Handlers \ {h} : task'[g] = task[g]
    BY <1>4 DEF Ack, Acked, Finish, brokerVars, IInv, TypeOK
  <2>2. \A e \in Events : WorkPlaces(e)' \subseteq WorkPlaces(e)
    BY <2>1 DEF WorkPlaces, IInv, TypeOK
  <2> QED
    BY <1>1, <1>4, <2>1, <2>2
<1>5. ASSUME Quiet, NEW h \in Handlers, NEW t \in Task, ProceedsQuietly(h, t) PROVE Once
  <2>1. /\ UNCHANGED <<main, held>> /\ task'[h].msg = task[h].msg
        /\ \A g \in Handlers \ {h} : task'[g] = task[g]
        /\ task[h].stage # "ack"
    BY <1>5 DEF ProceedsQuietly, Proceeds, IInv, TypeOK
  <2>2. \A e \in Events : WorkPlaces(e)' \subseteq WorkPlaces(e)
    BY <2>1 DEF WorkPlaces, IInv, TypeOK
  <2>3. CASE UNCHANGED waiting
    BY <1>1, <1>5, <2>1, <2>2, <2>3
  <2>4. CASE task[h].stage = "sentRetry" /\ RouteRetry(NextAttempt(task[h].msg)) /\ t.stage = "ack"
    <3>1. \A m \in Message : main'[m] <= 1
      BY <1>5, <2>1 DEF OneCopyInv, CopyInv
    <3> QED
      BY <1>5, <2>4, <3>1, RetryKeepsOne DEF ProceedsQuietly
  <2> QED
    BY <1>5, <2>3, <2>4 DEF ProceedsQuietly
<1>6. ASSUME Quiet, NEW h \in Handlers, NEW m \in Message, Deliver(h, m) PROVE Once
  <2>1. waiting' = waiting
    BY <1>6 DEF Deliver
  <2> QED
    BY <1>6, <2>1, DeliverKeepsOne DEF OneCopyInv, CopyInv
<1>7. ASSUME Quiet, NEW d \in Delays, NEW m \in Message, Expire(d, m) PROVE Once
  BY <1>7, ExpireKeepsOne
<1>8. ASSUME Quiet, (\E x \in Callers : Connect(x)) \/ Start \/ Cancel \/ Signal \/ Check
      PROVE  Once
  BY <1>2, <1>8 DEF Connect, Start, Cancel, Signal, Check, brokerVars
<1> HIDE DEF Once
<1>9. ASSUME Next PROVE Once
  <2>1. /\ Quiet
        /\ \/ \E x \in Callers : Connect(x)
           \/ \E h \in Handlers : Ack(h) \/ \E t \in Task : ProceedsQuietly(h, t)
           \/ Start \/ Cancel \/ Signal \/ Check \/ Deliveries \/ Expiries
    BY <1>9, QuietStep DEF OneCopyInv
  <2>2. CASE \E h \in Handlers : Ack(h) \/ \E t \in Task : ProceedsQuietly(h, t)
    BY <1>4, <1>5, <2>1, <2>2
  <2>3. CASE Deliveries
    BY <1>6, <2>1, <2>3 DEF Deliveries
  <2>4. CASE Expiries
    BY <1>7, <2>1, <2>4 DEF Expiries
  <2> QED
    BY <1>8, <2>1, <2>2, <2>3, <2>4
<1> QED
  BY <1>3, <1>9 DEF Once

-----------------------------------------------------------------------------
(* The first state, and the result                                         *)

(* At the start an event has one message, ready or waiting. *)
LEMMA OneCopyFirst ==
  ASSUME Init
  PROVE  OneCopyInv
<1>1. BindInv /\ PubInv
  BY DEF Init, BindInv, PubInv
<1>2. HeldInv
  BY DEF Init, HeldInv, Idle
<1>3. \A m \in Message : main[m] <= 1
  BY DEF Init
<1>4. \A d \in Delays, m \in Message : waiting[d][m] <= 1
  BY DEF Init
<1>5. ASSUME NEW e \in Events PROVE AtMostOne(PlacesOf(e))
  <2> DEFINE n == FirstMessage(e)
             last == OldTiers[Len(OldTiers)]
  <2>1. \A x \in MainPlaces(e) : x = <<"main", n>> /\ e \notin Delayed
    BY DEF Init, MainPlaces
  <2>2. \A x \in WaitingPlaces(e) : x = <<"waiting", <<last, n>>>> /\ e \in Delayed
    <3>1. \A y \in Delays \X Message :
            y[2].event = e /\ waiting[y[1]][y[2]] > 0
              => y = <<last, n>> /\ e \in Delayed
      BY DEF Init
    <3> QED
      BY <3>1 DEF WaitingPlaces
  <2>3. WorkPlaces(e) = {}
    BY DEF Init, WorkPlaces
  <2> QED
    BY <2>1, <2>2, <2>3 DEF PlacesOf, AtMostOne
<1> QED
  BY <1>1, <1>2, <1>3, <1>4, <1>5 DEF OneCopyInv, CopyInv

(* A set with at most one element has a cardinality of 0 or 1. *)
LEMMA AtMostOneCounts ==
  ASSUME NEW S, AtMostOne(S)
  PROVE  /\ Cardinality(S) \in {0, 1}
         /\ S = {} => Cardinality(S) = 0
<1>1. CASE S = {}
  BY <1>1, FS_EmptySet
<1>2. ASSUME NEW x \in S PROVE Cardinality(S) = 1 /\ S # {}
  <2>1. S = {x}
    BY <1>2 DEF AtMostOne
  <2> QED
    BY <2>1, FS_Singleton
<1> QED
  BY <1>1, <1>2

(* Places counts what PlacesOf has. *)
LEMMA OnePlace ==
  ASSUME NEW e, AtMostOne(PlacesOf(e))
  PROVE  Places(e) <= 1
<1> DEFINE A == {m \in Message : m.event = e /\ main[m] > 0}
           B == {x \in Delays \X Message : x[2].event = e /\ waiting[x[1]][x[2]] > 0}
           C == {h \in held : task[h].msg.event = e /\ task[h].stage # "ack"}
<1>1. \A x \in A : <<"main", x>> \in PlacesOf(e)
  BY DEF PlacesOf, MainPlaces
<1>2. \A x \in B : <<"waiting", x>> \in PlacesOf(e)
  BY DEF PlacesOf, WaitingPlaces
<1>3. \A x \in C : <<"work", x>> \in PlacesOf(e)
  BY DEF PlacesOf, WorkPlaces
<1>4. Places(e) = Cardinality(A) + Cardinality(B) + Cardinality(C)
  BY DEF Places
<1> HIDE DEF A, B, C
<1>5. AtMostOne(A) /\ AtMostOne(B) /\ AtMostOne(C)
  BY <1>1, <1>2, <1>3 DEF AtMostOne
<1>6. (A = {} \/ B = {}) /\ (A = {} \/ C = {}) /\ (B = {} \/ C = {})
  BY <1>1, <1>2, <1>3 DEF AtMostOne
<1> QED
  BY <1>4, <1>5, <1>6, AtMostOneCounts

(* Without a fault an event is worked on in one place at most, whatever    *)
(* the numbers of handlers, messages and tiers (order.consumer.ts          *)
(* republishes before the ack; amqp.topology.ts binds a queue per retry).  *)
THEOREM OneCopyWithoutFault == Spec => []NoCopyWithoutFault
<1>1. Init => OneCopyInv
  BY OneCopyFirst
<1>2. IInv /\ OneCopyInv /\ [Next]_vars => OneCopyInv'
  BY BindStep, PubStep, HeldStep, CopyStep DEF OneCopyInv
<1>3. OneCopyInv => NoCopyWithoutFault
  BY OnePlace DEF OneCopyInv, CopyInv, Quiet, NoCopyWithoutFault
<1> QED
  BY <1>1, <1>2, <1>3, ConsumerInvariant, PTL DEF Spec
================================================================================
