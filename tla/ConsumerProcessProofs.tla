------------------------- MODULE ConsumerProcessProofs -------------------------
(***************************************************************************)
(* What TLAPS proves about ConsumerProcess, for any events, messages,      *)
(* handlers, retry tiers of this and of the earlier deployment,            *)
(* connections and faults.                                                 *)
(***************************************************************************)
EXTENDS ConsumerProcess, FiniteSetTheorems, TLAPS

-----------------------------------------------------------------------------
(* The inductive invariant.                                                *)

Consuming == proc \in {"running", "stopping", "draining"}

(* A handler at work has a message, and from its entry on a channel; who   *)
(* is about to retry has a queue to retry into.                            *)
HandlerInv ==
  \A h \in Handlers :
    /\ task[h].stage = "idle" => task[h] = Idle /\ h \notin held
    /\ task[h].stage # "idle" => task[h].msg \in Message /\ task[h].conn \in Connections
    /\ task[h].stage \notin {"idle", "enter"} => task[h].chan \in Connections
    /\ task[h].stage \in {"retry", "sentRetry"} => AttemptOf(task[h].msg) \in DOMAIN Tiers
    /\ task[h].stage = "enter" => ~task[h].guarded

(* A process that is not consuming has nothing but, at most, the           *)
(* connection start() is opening.                                          *)
ProcessInv ==
  /\ Consuming => Bound(Tiers) \subseteq bindings
  /\ ~Consuming =>
       /\ consumer = 0 /\ cached = 0 /\ held = {}
       /\ \A h \in Handlers : task[h] = Idle
       /\ \A x \in Callers \ {Lifecycle} : opening[x] = 0
       /\ \A c \in Connections : conn[c] # "unused" => c = opening[Lifecycle]
  /\ proc = "draining" => consumer = 0

(* c is the process's only connection, for every purpose. *)
Sole(c) ==
  /\ c \in Connections
  /\ cached = c /\ conn[c] = "open"
  /\ \A d \in Connections \ {c} : conn[d] = "unused"
  /\ \A x \in Callers : opening[x] = 0
  /\ \A h \in Handlers : task[h].conn \in {0, c} /\ task[h].chan \in {0, c}

(* The connection of the subscription is the only one, and so is that of   *)
(* a delivery still unacknowledged: nobody connects as long as it lasts.   *)
PrimaryInv ==
  /\ consumer # 0 => Sole(consumer)
  /\ \A h \in held : Sole(task[h].conn)

(* Until something is lost, who has subscribed still is.                   *)
LossInv == faults = 0 /\ proc \in {"running", "stopping"} => consumer # 0

Busy == {h \in Handlers : task[h].stage # "idle"}

CountInv == inFlight = Cardinality(Busy)

(* The event is somewhere it will be taken from again. *)
Waits(e) ==
  \/ \E m \in Message : m.event = e /\ main[m] > 0
  \/ \E d \in Delays, m \in Message : m.event = e /\ waiting[d][m] > 0

Kept(e) ==
  \/ e \in settled \/ DeadLetter(e) \in dead
  \/ Waits(e)
  \/ \E h \in held : task[h].stage # "ack" /\ task[h].msg.event = e

KeptInv == \A e \in published : Kept(e)

IInv == TypeOK /\ HandlerInv /\ ProcessInv /\ PrimaryInv /\ LossInv /\ CountInv /\ KeptInv

-----------------------------------------------------------------------------
(* The tiers, and what a message may be                                    *)

(* A list of tiers has its delays at 1 to its length. *)
LEMMA TierFacts ==
  /\ Len(Tiers) \in Nat /\ Len(OldTiers) \in Nat /\ LongestTiers \in Nat
  /\ Len(Tiers) <= LongestTiers /\ Len(OldTiers) <= LongestTiers
  /\ DOMAIN Tiers = 1..Len(Tiers) /\ DOMAIN OldTiers = 1..Len(OldTiers)
  /\ Bound(Tiers) \subseteq Nat \X Delays /\ Bound(OldTiers) \subseteq Nat \X Delays
<1>1. /\ Len(Tiers) \in Nat /\ Len(OldTiers) \in Nat
      /\ DOMAIN Tiers = 1..Len(Tiers) /\ DOMAIN OldTiers = 1..Len(OldTiers)
  BY ConsumerAssumption
<1>2. /\ LongestTiers \in Nat
      /\ Len(Tiers) <= LongestTiers /\ Len(OldTiers) <= LongestTiers
  BY <1>1 DEF LongestTiers
<1>3. Bound(Tiers) \subseteq Nat \X Delays /\ Bound(OldTiers) \subseteq Nat \X Delays
  BY <1>1 DEF Bound, Delays
<1> QED
  BY <1>1, <1>2, <1>3

(* An attempt is counted from one, and the next one is a message again as  *)
(* long as there is a tier for this one.                                   *)
LEMMA AttemptFacts ==
  ASSUME NEW m \in Message
  PROVE  /\ m.event \in Events /\ AttemptOf(m) \in Nat
         /\ AttemptOf(m) \in DOMAIN Tiers =>
              /\ NextAttempt(m) \in Message /\ NextAttempt(m).event = m.event
              /\ RetryKey(NextAttempt(m)) = AttemptOf(m)
<1>1. /\ m \in [event : Events, attempt : 0..(LongestTiers + 1)]
      /\ m.event \in Events /\ m.attempt \in 0..(LongestTiers + 1)
      /\ AttemptOf(m) \in Nat
  BY TierFacts DEF Message, AttemptOf
<1>2. ASSUME AttemptOf(m) \in DOMAIN Tiers PROVE AttemptOf(m) + 1 \in 0..(LongestTiers + 1)
  BY <1>1, <1>2, TierFacts
<1>3. NextAttempt(m).event = m.event /\ NextAttempt(m).attempt = AttemptOf(m) + 1
  BY <1>1 DEF NextAttempt
<1>4. AttemptOf(m) + 1 \in 0..(LongestTiers + 1) => NextAttempt(m) \in Message
  BY <1>1 DEF NextAttempt, Message
<1> QED
  BY <1>1, <1>2, <1>3, <1>4 DEF RetryKey

(* A queue that is put one message more. *)
LEMMA PutFacts ==
  ASSUME NEW queue \in [Message -> Nat], NEW m \in Message
  PROVE  /\ Put(queue, m) \in [Message -> Nat]
         /\ Put(queue, m)[m] > 0
         /\ \A n \in Message : queue[n] > 0 => Put(queue, m)[n] > 0
  BY DEF Put

(* What is taken back is ready again. *)
LEMMA PutBackFacts ==
  ASSUME TypeOK, NEW S \in SUBSET Handlers
  PROVE  /\ PutBack(S) \in [Message -> Nat]
         /\ \A m \in Message : main[m] > 0 => PutBack(S)[m] > 0
         /\ \A h \in S : task[h].msg \in Message => PutBack(S)[task[h].msg] > 0
         /\ S = {} => PutBack(S) = main
<1>1. main \in [Message -> Nat]
  BY DEF TypeOK
<1> DEFINE Copies(m) == {h \in S : task[h].msg = m}
<1>2. ASSUME NEW m \in Message
      PROVE  /\ IsFiniteSet(Copies(m)) /\ Cardinality(Copies(m)) \in Nat
             /\ PutBack(S)[m] = main[m] + Cardinality(Copies(m))
  <2>1. IsFiniteSet(Handlers)
    BY ConsumerAssumption
  <2>2. Copies(m) \subseteq Handlers
    OBVIOUS
  <2>3. IsFiniteSet(Copies(m))
    BY <2>1, <2>2, FS_Subset
  <2> QED
    BY <2>3, FS_CardinalityType DEF PutBack
<1>3. PutBack(S) \in [Message -> Nat] /\ \A m \in Message : main[m] > 0 => PutBack(S)[m] > 0
  <2> HIDE DEF Copies
  <2>1. \A m \in Message : PutBack(S)[m] \in Nat /\ PutBack(S)[m] >= main[m]
    BY <1>1, <1>2
  <2>2. DOMAIN PutBack(S) = Message /\ PutBack(S) = [m \in Message |-> PutBack(S)[m]]
    BY DEF PutBack
  <2> QED
    BY <1>1, <2>1, <2>2
<1>4. ASSUME NEW h \in S, task[h].msg \in Message PROVE PutBack(S)[task[h].msg] > 0
  <2>1. Copies(task[h].msg) # {}
    BY <1>4
  <2>2. Cardinality(Copies(task[h].msg)) # 0
    BY <1>2, <1>4, <2>1, FS_EmptySet
  <2> HIDE DEF Copies
  <2> QED
    BY <1>1, <1>2, <1>4, <2>2
<1>5. ASSUME S = {} PROVE PutBack(S) = main
  <2>1. \A m \in Message : Copies(m) = {}
    BY <1>5
  <2>2. \A m \in Message : Cardinality(Copies(m)) = 0
    BY <2>1, FS_EmptySet
  <2>3. \A m \in Message : PutBack(S)[m] = main[m]
    <3> HIDE DEF Copies
    <3> QED BY <1>1, <1>2, <2>2
  <2> QED
    BY <1>1, <2>3 DEF PutBack
<1> QED
  BY <1>3, <1>4, <1>5

-----------------------------------------------------------------------------
(* Types                                                                   *)

ConnStates == {"unused", "opening", "open", "channelClosed", "closed"}

AmqpTypes ==
  /\ conn \in [Connections -> ConnStates]
  /\ cached \in 0..MaxConnections
  /\ opening \in [Callers -> 0..MaxConnections]
  /\ bindings \subseteq Nat \X Delays

(* A number of a connection is not the 0 that stands for none. *)
LEMMA ConnectionFacts ==
  Connections \subseteq Nat \ {0} /\ Connections \union {0} = 0..MaxConnections
  BY ConsumerAssumption DEF Connections

(* A channel that getChannel answers with is one the process has. *)
LEMMA GetsTypes ==
  ASSUME TypeOK, NEW x \in Callers, NEW c, Gets(x, c)
  PROVE  AmqpTypes' /\ c \in Connections
<1>1. c \in Connections /\ 0 \in 0..MaxConnections /\ Connections \subseteq 0..MaxConnections
  BY ConnectionFacts, ConsumerAssumption DEF Gets
<1> QED
  BY <1>1, TierFacts DEF Gets, TypeOK, AmqpTypes, ConnStates, amqpVars

(* A call of getChannel that throws leaves the state well typed. *)
LEMMA AbandonedTypes ==
  ASSUME TypeOK, NEW x \in Callers, Abandoned(x)
  PROVE  /\ conn' \in [Connections -> ConnStates]
         /\ opening' \in [Callers -> 0..MaxConnections] /\ cached' \in 0..MaxConnections
  BY ConsumerAssumption DEF Abandoned, OpenedIs, TypeOK, ConnStates

(* An idle handler is a handler. *)
LEMMA IdleTypes == Idle \in Task /\ Idle.stage = "idle"
  BY ConsumerAssumption DEF Idle, Task, Stages

(* A process that is gone has nothing. *)
LEMMA GoneTypes ==
  ASSUME TypeOK, NEW how \in {"exited", "crashed"}, Gone(how),
         waiting' \in [Delays -> [Message -> Nat]], dead' \subseteq Events \union {NoEvent}
  PROVE  TypeOK'
<1>1. main' \in [Message -> Nat]
  BY PutBackFacts DEF Gone, TypeOK
<1> QED
  BY <1>1, IdleTypes, ConsumerAssumption DEF Gone, TypeOK

(* What is routed ends in the queues or among the dead letters. *)
LEMMA RouteTypes ==
  ASSUME TypeOK, HandlerInv, NEW h \in Handlers, Sent(h), Route(h)
  PROVE  /\ waiting' \in [Delays -> [Message -> Nat]]
         /\ dead' \subseteq Events \union {NoEvent}
         /\ \A d \in Delays, m \in Message : waiting[d][m] > 0 => waiting'[d][m] > 0
         /\ dead \subseteq dead'
<1> DEFINE m == task[h].msg
<1>1. m \in Message /\ m.event \in Events
  BY AttemptFacts DEF HandlerInv, Sent
<1>2. CASE task[h].stage = "sentRetry"
  <2> DEFINE n == NextAttempt(m)
  <2>1. n \in Message
    BY <1>1, <1>2, AttemptFacts DEF HandlerInv
  <2>2. RouteRetry(n)
    BY <1>2 DEF Route
  <2> HIDE DEF n
  <2>3. ASSUME NEW d \in Delays
        PROVE  /\ Put(waiting[d], n) \in [Message -> Nat]
               /\ \A k \in Message : waiting[d][k] > 0 => Put(waiting[d], n)[k] > 0
    BY <2>1, PutFacts DEF TypeOK
  <2> QED
    BY <2>2, <2>3 DEF RouteRetry, TypeOK
<1>3. CASE task[h].stage # "sentRetry"
  <2>1. RouteDead(m)
    BY <1>3 DEF Route
  <2> QED
    BY <1>1, <2>1 DEF RouteDead, TypeOK
<1> QED
  BY <1>2, <1>3

-----------------------------------------------------------------------------
(* What a handler's step comes to                                          *)

OutTypes ==
  /\ settled \subseteq Events
  /\ dead \subseteq Events \union {NoEvent}
  /\ waiting \in [Delays -> [Message -> Nat]]

(* Nothing is taken from where a message may end. *)
Grows ==
  /\ settled \subseteq settled' /\ dead \subseteq dead'
  /\ \A d \in Delays, m \in Message : waiting[d][m] > 0 => waiting'[d][m] > 0

(* The work is done, or has been handed on. *)
HandedOn(e) ==
  \/ e \in settled' \/ DeadLetter(e) \in dead'
  \/ \E d \in Delays, m \in Message : m.event = e /\ waiting'[d][m] > 0

ChannelWork(h) ==
  \/ UNCHANGED <<amqpVars, bindings>>
  \/ \E c \in Connections : Gets(h, c)
  \/ Abandoned(h) /\ UNCHANGED bindings

(* The handler goes on with its message, as t. *)
Proceeds(h, t) ==
  /\ task[h].stage # "idle"
  /\ task' = [task EXCEPT ![h] = t]
  /\ t.msg = task[h].msg /\ t.conn = task[h].conn
  /\ t.stage \notin {"idle", "enter"}
  /\ \/ t.chan = task[h].chan /\ t.chan \in Connections /\ ChannelWork(h)
     \/ Gets(h, t.chan)
  /\ t.stage \in {"retry", "sentRetry"} => AttemptOf(t.msg) \in DOMAIN Tiers
  /\ t.stage = "ack" => HandedOn(t.msg.event)
  /\ Grows /\ OutTypes'
  /\ UNCHANGED <<published, main, consumer, proc, inFlight, held, faults>>

(* Or the process ends with it. *)
Leaves(how) == Gone(how) /\ Grows /\ OutTypes'
Falls == Leaves("crashed")

(* An error goes to onFailure, or ends the process. *)
LEMMA RaisesCases ==
  ASSUME TypeOK, HandlerInv, NEW h \in Handlers, task[h].stage # "idle",
         Raises(h), Grows, OutTypes'
  PROVE  (\E t \in Task : Proceeds(h, t)) \/ Falls
<1>1. CASE ~task[h].guarded /\ Gone("crashed")
  BY <1>1 DEF Falls, Leaves
<1>2. CASE /\ task[h].guarded
           /\ task' = [task EXCEPT ![h].stage = "failure", ![h].guarded = FALSE]
           /\ Abandoned(h)
           /\ UNCHANGED <<published, main, bindings, settled, consumer, proc, inFlight, held, faults>>
  <2> DEFINE t == [task[h] EXCEPT !.stage = "failure", !.guarded = FALSE]
  <2>1. task[h] \in Task
    BY DEF TypeOK
  <2>2. /\ t \in Task /\ t.msg = task[h].msg /\ t.conn = task[h].conn
        /\ t.chan = task[h].chan /\ t.stage = "failure"
    BY <2>1 DEF Task, Stages
  <2>3. task[h].chan \in Connections
    BY <1>2 DEF HandlerInv
  <2>4. task' = [task EXCEPT ![h] = t]
    BY <1>2 DEF TypeOK
  <2> HIDE DEF t
  <2>5. Proceeds(h, t)
    BY <1>2, <2>2, <2>3, <2>4 DEF Proceeds, ChannelWork
  <2> QED
    BY <2>2, <2>5
<1> QED
  BY <1>1, <1>2 DEF Raises

(* A step that routes nothing takes nothing. *)
LEMMA SameGrows ==
  ASSUME TypeOK, UNCHANGED <<waiting, dead>>, settled \subseteq settled', settled' \subseteq Events
  PROVE  Grows /\ OutTypes'
  BY DEF TypeOK, Grows, OutTypes

(* So does an error of a step that routes nothing. *)
LEMMA FailsCases ==
  ASSUME TypeOK, HandlerInv, NEW h \in Handlers, task[h].stage # "idle", Fails(h)
  PROVE  (\E t \in Task : Proceeds(h, t)) \/ Falls
<1>1. settled' = settled
  BY DEF Fails, Raises, Gone
<1>2. Grows /\ OutTypes'
  BY <1>1, SameGrows DEF Fails, TypeOK
<1> QED
  BY <1>2, RaisesCases DEF Fails

(* The common part of the steps that go on. *)
LEMMA ProceedsAs ==
  ASSUME TypeOK, HandlerInv, NEW h \in Handlers, task[h].stage # "idle",
         NEW t \in Task, task' = [task EXCEPT ![h] = t],
         t.msg = task[h].msg, t.conn = task[h].conn,
         t.stage \notin {"idle", "enter"},
         \/ t.chan = task[h].chan /\ t.chan \in Connections /\ ChannelWork(h)
         \/ Gets(h, t.chan),
         t.stage \in {"retry", "sentRetry"} => AttemptOf(t.msg) \in DOMAIN Tiers,
         t.stage = "ack" => HandedOn(t.msg.event),
         Grows, OutTypes',
         UNCHANGED <<published, main, consumer, proc, inFlight, held, faults>>
  PROVE  \E u \in Task : Proceeds(h, u)
  BY DEF Proceeds

(* The entry takes a channel and goes on with the message                  *)
(* (handleMessage).                                                        *)
LEMMA EnterCases ==
  ASSUME TypeOK, HandlerInv, NEW h \in Handlers, Enter(h)
  PROVE  \E t \in Task : Proceeds(h, t)
<1>1. PICK c \in Connections :
        /\ Gets(h, c)
        /\ task' = [task EXCEPT ![h].chan = c,
            ![h].stage = CASE ~Readable(task[h].msg) -> "dead"
                           [] Readable(task[h].msg) /\ ~WellFormed(task[h].msg) -> "failure"
                           [] OTHER -> "execute",
            ![h].guarded = Readable(task[h].msg) /\ WellFormed(task[h].msg)]
  BY DEF Enter
<1> DEFINE stage == CASE ~Readable(task[h].msg) -> "dead"
                      [] Readable(task[h].msg) /\ ~WellFormed(task[h].msg) -> "failure"
                      [] OTHER -> "execute"
           guarded == Readable(task[h].msg) /\ WellFormed(task[h].msg)
           t == [task[h] EXCEPT !.chan = c, !.stage = stage, !.guarded = guarded]
<1>2. stage \in {"dead", "failure", "execute"} /\ guarded \in BOOLEAN
  BY DEF Readable, WellFormed
<1> HIDE DEF stage, guarded
<1>3. task[h] \in Task /\ c \in 0..MaxConnections
  BY ConnectionFacts DEF TypeOK
<1>4. /\ t \in Task /\ t.msg = task[h].msg /\ t.conn = task[h].conn
      /\ t.chan = c /\ t.stage \in {"dead", "failure", "execute"}
  BY <1>2, <1>3 DEF Task, Stages
<1>5. task' = [task EXCEPT ![h] = t]
  BY <1>1 DEF TypeOK, stage, guarded
<1>6. Grows /\ OutTypes'
  BY SameGrows DEF Enter, TypeOK
<1> HIDE DEF t
<1> QED
  BY <1>1, <1>4, <1>5, <1>6, ProceedsAs DEF Enter

(* A handler that keeps its channels and changes only its stage. *)
LEMMA GotoAs ==
  ASSUME TypeOK, HandlerInv, NEW h \in Handlers, task[h].stage \notin {"idle", "enter"},
         NEW stage \in Stages \ {"idle", "enter", "retry", "sentRetry"},
         NEW guarded \in BOOLEAN,
         task' = [task EXCEPT ![h].stage = stage, ![h].guarded = guarded],
         UNCHANGED <<amqpVars, bindings>>,
         stage = "ack" => HandedOn(task[h].msg.event),
         Grows, OutTypes',
         UNCHANGED <<published, main, consumer, proc, inFlight, held, faults>>
  PROVE  \E t \in Task : Proceeds(h, t)
<1> DEFINE t == [task[h] EXCEPT !.stage = stage, !.guarded = guarded]
<1>1. task[h] \in Task
  BY DEF TypeOK
<1>2. /\ t \in Task /\ t.msg = task[h].msg /\ t.conn = task[h].conn
      /\ t.chan = task[h].chan /\ t.stage = stage
  BY <1>1 DEF Task
<1>3. task' = [task EXCEPT ![h] = t]
  BY DEF TypeOK
<1>4. task[h].chan \in Connections
  BY DEF HandlerInv
<1> HIDE DEF t
<1> QED
  BY <1>2, <1>3, <1>4, ProceedsAs DEF ChannelWork

(* The same without a word on who catches its errors. *)
LEMMA GotoKeeps ==
  ASSUME TypeOK, HandlerInv, NEW h \in Handlers, task[h].stage \notin {"idle", "enter"},
         NEW stage \in Stages \ {"idle", "enter", "retry", "sentRetry"},
         Goto(h, stage),
         UNCHANGED <<amqpVars, bindings>>,
         stage = "ack" => HandedOn(task[h].msg.event),
         Grows, OutTypes',
         UNCHANGED <<published, main, consumer, proc, inFlight, held, faults>>
  PROVE  \E t \in Task : Proceeds(h, t)
<1>1. task[h] \in Task
  BY DEF TypeOK
<1>2. task[h].guarded \in BOOLEAN
  BY <1>1 DEF Task
<1>3. [task[h] EXCEPT !.stage = stage, !.guarded = task[h].guarded] = [task[h] EXCEPT !.stage = stage]
  BY <1>1 DEF Task
<1>4. task' = [task EXCEPT ![h].stage = stage, ![h].guarded = task[h].guarded]
  BY <1>3 DEF Goto, TypeOK
<1> QED
  BY <1>2, <1>4, GotoAs

(* The use case answers or throws; who goes to the ack has committed. *)
LEMMA ExecuteCases ==
  ASSUME TypeOK, HandlerInv, NEW h \in Handlers, Execute(h)
  PROVE  \E t \in Task : Proceeds(h, t)
<1>1. task[h].stage = "execute" /\ task[h].msg.event \in Events
  BY AttemptFacts DEF Execute, HandlerInv
<1>2. /\ UNCHANGED <<amqpVars, bindings>>
      /\ UNCHANGED <<published, main, consumer, proc, inFlight, held, faults>>
      /\ UNCHANGED <<waiting, dead>>
      /\ settled' \in {settled, settled \union {task[h].msg.event}}
  BY DEF Execute
<1>3. Grows /\ OutTypes'
  BY <1>1, <1>2, SameGrows DEF TypeOK
<1>4. CASE Goto(h, "ack") /\ settled' = settled \union {task[h].msg.event}
  <2>1. HandedOn(task[h].msg.event)
    BY <1>4 DEF HandedOn
  <2> QED
    BY <1>1, <1>2, <1>3, <1>4, <2>1, GotoKeeps DEF Stages
<1>5. CASE Goto(h, "dead")
  BY <1>1, <1>2, <1>3, <1>5, GotoKeeps DEF Stages
<1>6. CASE task' = [task EXCEPT ![h].stage = "failure", ![h].guarded = FALSE]
  <2>1. FALSE \in BOOLEAN /\ "failure" \in Stages \ {"idle", "enter", "retry", "sentRetry"}
    BY DEF Stages
  <2>2. task[h].stage \notin {"idle", "enter"} /\ "failure" # "ack"
    BY <1>1
  <2> QED
    BY <1>2, <1>3, <1>6, <2>1, <2>2, GotoAs
<1> QED
  BY <1>4, <1>5, <1>6 DEF Execute

(* onFailure retries only what has a tier left. *)
LEMMA OnFailureCases ==
  ASSUME TypeOK, HandlerInv, NEW h \in Handlers, OnFailure(h)
  PROVE  \E t \in Task : Proceeds(h, t)
<1>1. PICK c \in Connections :
        Gets(h, c) /\ task' = [task EXCEPT ![h].chan = c, ![h].stage = Decision(task[h].msg)]
  BY DEF OnFailure
<1> DEFINE stage == Decision(task[h].msg)
           t == [task[h] EXCEPT !.chan = c, !.stage = stage]
<1>2. /\ stage \in {"dead", "retry", "failOrder"}
      /\ stage = "retry" => AttemptOf(task[h].msg) \in DOMAIN Tiers
  BY DEF Decision, WellFormed
<1> HIDE DEF stage
<1>3. task[h] \in Task /\ c \in 0..MaxConnections
  BY ConnectionFacts DEF TypeOK
<1>4. /\ t \in Task /\ t.msg = task[h].msg /\ t.conn = task[h].conn
      /\ t.chan = c /\ t.stage = stage
  BY <1>2, <1>3 DEF Task, Stages
<1>5. task' = [task EXCEPT ![h] = t]
  BY <1>1 DEF TypeOK, stage
<1>6. Grows /\ OutTypes'
  BY SameGrows DEF OnFailure, TypeOK
<1> HIDE DEF t
<1> QED
  BY <1>1, <1>2, <1>4, <1>5, <1>6, ProceedsAs DEF OnFailure

(* failOrder commits, or throws. *)
LEMMA FailOrderCases ==
  ASSUME TypeOK, HandlerInv, NEW h \in Handlers, FailOrder(h)
  PROVE  (\E t \in Task : Proceeds(h, t)) \/ Falls
<1>1. task[h].stage = "failOrder" /\ task[h].msg.event \in Events
  BY AttemptFacts DEF FailOrder, HandlerInv
<1>2. CASE /\ Goto(h, "dead")
           /\ settled' = settled \union {task[h].msg.event}
           /\ UNCHANGED <<published, main, waiting, bindings, dead, amqpVars, consumer, proc,
                          inFlight, held, faults>>
  <2>1. Grows /\ OutTypes'
    BY <1>1, <1>2, SameGrows DEF TypeOK
  <2> QED
    BY <1>1, <1>2, <2>1, GotoKeeps DEF Stages
<1>3. CASE Fails(h)
  BY <1>1, <1>3, FailsCases
<1> QED
  BY <1>2, <1>3 DEF FailOrder

(* publish keeps the channel of the ack. *)
LEMMA PublishCases ==
  ASSUME TypeOK, HandlerInv, NEW h \in Handlers, Publish(h)
  PROVE  \E t \in Task : Proceeds(h, t)
<1>1. PICK c \in Connections :
        /\ Gets(h, c)
        /\ task' = [task EXCEPT ![h].pub = c,
             ![h].stage = IF @ = "retry" THEN "sentRetry" ELSE "sentDead"]
  BY DEF Publish
<1> DEFINE stage == IF task[h].stage = "retry" THEN "sentRetry" ELSE "sentDead"
           t == [task[h] EXCEPT !.pub = c, !.stage = stage]
<1>2. /\ stage \in {"sentRetry", "sentDead"}
      /\ stage = "sentRetry" => AttemptOf(task[h].msg) \in DOMAIN Tiers
      /\ task[h].chan \in Connections
  BY DEF Publish, HandlerInv
<1>3. task[h] \in Task /\ c \in 0..MaxConnections
  BY ConnectionFacts DEF TypeOK
<1>4. task' = [task EXCEPT ![h] = t]
  BY <1>1, <1>3 DEF TypeOK, Task
<1> HIDE DEF stage
<1>5. /\ t \in Task /\ t.msg = task[h].msg /\ t.conn = task[h].conn
      /\ t.chan = task[h].chan /\ t.stage = stage
  BY <1>2, <1>3 DEF Task, Stages
<1>6. Grows /\ OutTypes'
  BY SameGrows DEF Publish, TypeOK
<1>7. ChannelWork(h)
  BY <1>1 DEF ChannelWork
<1> HIDE DEF t
<1> QED
  BY <1>2, <1>4, <1>5, <1>6, <1>7, ProceedsAs DEF Publish

(* A retry has a queue to wait in, and a dead letter is one. *)
LEMMA RoutedIsHandedOn ==
  ASSUME TypeOK, HandlerInv, ProcessInv, NEW h \in Handlers, Sent(h), Route(h)
  PROVE  HandedOn(task[h].msg.event)
<1> DEFINE m == task[h].msg
<1>1. m \in Message /\ Bound(Tiers) \subseteq bindings
  <2>1. Idle.stage = "idle"
    BY IdleTypes
  <2> QED
    BY <2>1 DEF HandlerInv, ProcessInv, Sent
<1>2. CASE task[h].stage = "sentRetry"
  <2> DEFINE n == NextAttempt(m)
             k == AttemptOf(m)
  <2>1. k \in DOMAIN Tiers /\ n \in Message /\ n.event = m.event /\ RetryKey(n) = k
    BY <1>1, <1>2, AttemptFacts DEF HandlerInv
  <2>2. RouteRetry(n)
    BY <1>2 DEF Route
  <2> HIDE DEF n, k
  <2>3. Tiers[k] \in Delays /\ Tiers[k] \in RoutedTo(RetryKey(n))
    BY <1>1, <2>1 DEF Bound, RoutedTo, Delays
  <2>4. waiting'[Tiers[k]] = Put(waiting[Tiers[k]], n)
    BY <2>2, <2>3 DEF RouteRetry
  <2>5. waiting'[Tiers[k]][n] > 0
    BY <2>1, <2>3, <2>4, PutFacts DEF TypeOK
  <2> QED
    BY <2>1, <2>3, <2>5 DEF HandedOn
<1>3. CASE task[h].stage # "sentRetry"
  BY <1>3 DEF Route, RouteDead, Readable, DeadLetter, HandedOn
<1> QED
  BY <1>2, <1>3

(* A publish that is confirmed leads to the ack, with the message routed;  *)
(* any other does not.                                                     *)
LEMMA ConfirmCases ==
  ASSUME TypeOK, HandlerInv, ProcessInv, NEW h \in Handlers, Confirm(h) \/ Unconfirmed(h)
  PROVE  (\E t \in Task : Proceeds(h, t)) \/ Falls
<1>1. Sent(h) /\ task[h].stage \notin {"idle", "enter"}
  BY DEF Confirm, Unconfirmed, Sent
<1>2. ASSUME Route(h) \/ UNCHANGED <<waiting, dead>>, settled' = settled
      PROVE  Grows /\ OutTypes'
  BY <1>1, <1>2, RouteTypes DEF Grows, OutTypes, TypeOK
<1>3. CASE Route(h) /\ Goto(h, "ack")
           /\ UNCHANGED <<published, main, bindings, settled, amqpVars, consumer, proc,
                         inFlight, held, faults>>
  <2>1. HandedOn(task[h].msg.event)
    BY <1>1, <1>3, RoutedIsHandedOn
  <2> QED
    BY <1>1, <1>2, <1>3, <2>1, GotoKeeps DEF Stages
<1>4. CASE Fails(h)
  BY <1>1, <1>4, FailsCases
<1>5. CASE (Route(h) \/ UNCHANGED <<waiting, dead>>) /\ Raises(h)
  <2>1. settled' = settled
    BY <1>5 DEF Raises, Gone
  <2> QED
    BY <1>1, <1>2, <1>5, <2>1, RaisesCases
<1>6. CASE (Route(h) \/ UNCHANGED <<waiting, dead>>) /\ Goto(h, "hung")
           /\ UNCHANGED <<published, main, bindings, settled, amqpVars, consumer, proc,
                         inFlight, held, faults>>
  BY <1>1, <1>2, <1>6, GotoKeeps DEF Stages
<1> QED
  BY <1>3, <1>4, <1>5, <1>6 DEF Confirm, Unconfirmed

(* So a step of a handler connects, goes on, ends with the process, or is  *)
(* one of the two acknowledgements.                                        *)
LEMMA HandlerCases ==
  ASSUME TypeOK, HandlerInv, ProcessInv, NEW h \in Handlers, Handle(h)
  PROVE  \/ Connect(h) \/ Ack(h) \/ AckElsewhere(h)
         \/ (\E t \in Task : Proceeds(h, t)) \/ Falls
<1>1. CASE NoChannel(h) \/ AckFails(h)
  <2>1. task[h].stage # "idle" /\ Fails(h)
    BY <1>1 DEF NoChannel, AckFails
  <2> QED
    BY <2>1, FailsCases
<1> QED
  BY <1>1, EnterCases, ExecuteCases, OnFailureCases, FailOrderCases, PublishCases, ConfirmCases
     DEF Handle

(* The signal that comes while the process runs. *)
Signal ==
  /\ proc = "running" /\ proc' = "stopping"
  /\ UNCHANGED <<brokerVars, amqpVars, consumer, handlerVars, faults>>

(* A process that ends takes nothing from where a message may end. *)
LEMMA EndsCases ==
  ASSUME TypeOK, NEW how, Ends(how)
  PROVE  Leaves(how)
<1>1. UNCHANGED <<waiting, dead, settled>>
  BY DEF Ends, Gone
<1> QED
  BY <1>1, SameGrows DEF Ends, Leaves, TypeOK

(* What a step of the system comes to. *)
LEMMA StepCases ==
  ASSUME TypeOK, HandlerInv, ProcessInv, Next
  PROVE  \/ \E x \in Callers : Connect(x)
         \/ \E h \in Handlers : Ack(h) \/ AckElsewhere(h) \/ \E t \in Task : Proceeds(h, t)
         \/ \E how \in {"exited", "crashed"} : Leaves(how)
         \/ Start \/ Cancel \/ Signal \/ Restart \/ Check
         \/ \E c \in Connections : LoseConnection(c)
         \/ Deliveries \/ Expiries
<1>1. ASSUME NEW h \in Handlers, Handle(h)
      PROVE  \/ \E x \in Callers : Connect(x)
             \/ Ack(h) \/ AckElsewhere(h) \/ \E t \in Task : Proceeds(h, t)
             \/ Leaves("crashed")
  BY <1>1, HandlerCases DEF Falls, Callers
<1>2. CASE Connect(Lifecycle) \/ Connect(Probe)
  BY <1>2 DEF Callers
<1>3. CASE StartFails \/ CancelFails \/ Crash
  BY <1>3, EndsCases DEF StartFails, CancelFails, Crash, Dies
<1>4. CASE Exit
  BY <1>4, EndsCases DEF Exit
<1>5. CASE Terminate
  BY <1>5, EndsCases DEF Terminate, Signal
<1> QED
  BY <1>1, <1>2, <1>3, <1>4, <1>5 DEF Next, Lifetime

-----------------------------------------------------------------------------
(* Types are kept by every step.                                           *)

(* A handler that goes on leaves the state well typed. *)
LEMMA ProceedsTypes ==
  ASSUME TypeOK, NEW h \in Handlers, NEW t \in Task, Proceeds(h, t)
  PROVE  TypeOK'
<1>1. AmqpTypes'
  <2>1. h \in Callers
    BY DEF Callers
  <2>2. AmqpTypes
    BY DEF TypeOK, AmqpTypes, ConnStates
  <2>3. CASE Gets(h, t.chan) \/ \E c \in Connections : Gets(h, c)
    BY <2>1, <2>3, GetsTypes
  <2>4. CASE Abandoned(h) /\ UNCHANGED bindings
    BY <2>1, <2>2, <2>4, AbandonedTypes DEF AmqpTypes
  <2>5. CASE UNCHANGED <<amqpVars, bindings>>
    BY <2>2, <2>5 DEF AmqpTypes, amqpVars
  <2> QED
    BY <2>3, <2>4, <2>5 DEF Proceeds, ChannelWork
<1>2. task' \in [Handlers -> Task]
  BY DEF Proceeds, TypeOK
<1> QED
  BY <1>1, <1>2 DEF Proceeds, OutTypes, AmqpTypes, ConnStates, TypeOK

(* A handler that has ended counts itself out. *)
LEMMA CountedOut ==
  ASSUME TypeOK, CountInv, NEW h \in Handlers, task[h].stage # "idle", Finish(h)
  PROVE  inFlight' \in Nat /\ CountInv' /\ task' \in [Handlers -> Task]
<1>1. IsFiniteSet(Handlers)
  BY ConsumerAssumption
<1>2. h \in Busy /\ IsFiniteSet(Busy)
  BY <1>1, FS_Subset DEF Busy
<1>3. Cardinality(Busy \ {h}) = Cardinality(Busy) - 1
  BY <1>2, FS_RemoveElement
<1>4. Busy' = Busy \ {h}
  BY IdleTypes DEF Busy, Finish, TypeOK
<1>5. Cardinality(Busy \ {h}) \in Nat
  BY <1>2, FS_RemoveElement, FS_CardinalityType
<1>6. inFlight' = Cardinality(Busy) - 1
  BY DEF Finish, Counted, CountInv
<1> QED
  BY <1>3, <1>4, <1>5, <1>6, IdleTypes DEF CountInv, Finish, TypeOK

(* What a closed channel held is ready again, and the rest is still held. *)
LEMMA ClosedTypes ==
  ASSUME TypeOK, NEW c \in Connections, NEW state \in {"channelClosed", "closed"},
         Closed(c, state)
  PROVE  /\ conn' \in [Connections -> ConnStates] /\ cached' \in 0..MaxConnections
         /\ consumer' \in 0..MaxConnections /\ held' \subseteq held
         /\ main' \in [Message -> Nat]
         /\ \A m \in Message : main[m] > 0 => main'[m] > 0
         /\ \A h \in held : /\ task[h].conn = c => h \notin held'
                            /\ task[h].conn # c => h \in held'
                            /\ task[h].conn = c /\ task[h].msg \in Message => main'[task[h].msg] > 0
<1>1. HeldOn(c) \in SUBSET Handlers
  BY DEF HeldOn, TypeOK
<1>2. /\ main' \in [Message -> Nat]
      /\ \A m \in Message : main[m] > 0 => main'[m] > 0
      /\ \A h \in HeldOn(c) : task[h].msg \in Message => main'[task[h].msg] > 0
  BY <1>1, PutBackFacts DEF Closed
<1>3. 0 \in 0..MaxConnections
  BY ConsumerAssumption
<1> QED
  BY <1>2, <1>3 DEF Closed, TypeOK, ConnStates, HeldOn

(* No step leaves the types. *)
LEMMA TypeStep ==
  ASSUME TypeOK, HandlerInv, ProcessInv, CountInv, [Next]_vars
  PROVE  TypeOK'
<1> USE DEF TypeOK
<1>1. ASSUME NEW x \in Callers, Connect(x) PROVE TypeOK'
  <2>1. Connections \subseteq 0..MaxConnections
    BY ConnectionFacts
  <2> QED
    BY <1>1, <2>1 DEF Connect, brokerVars, handlerVars
<1>2. ASSUME NEW h \in Handlers, Ack(h) PROVE TypeOK'
  BY <1>2, CountedOut DEF Ack, brokerVars, amqpVars
<1>3. ASSUME NEW h \in Handlers, AckElsewhere(h) PROVE TypeOK'
  <2>1. task[h].chan \in Connections
    BY <1>3 DEF AckElsewhere, HandlerInv
  <2>2. PICK state \in {"channelClosed", "closed"} : Closed(task[h].chan, state)
    BY <1>3 DEF AckElsewhere
  <2>3. /\ conn' \in [Connections -> ConnStates] /\ cached' \in 0..MaxConnections
        /\ consumer' \in 0..MaxConnections /\ held' \subseteq held
        /\ main' \in [Message -> Nat]
    BY <2>1, <2>2, ClosedTypes
  <2>4. inFlight' \in Nat /\ task' \in [Handlers -> Task]
    BY <1>3, CountedOut DEF AckElsewhere
  <2> QED
    BY <1>3, <2>3, <2>4 DEF AckElsewhere, ConnStates
<1>4. ASSUME NEW h \in Handlers, NEW t \in Task, Proceeds(h, t) PROVE TypeOK'
  BY <1>4, ProceedsTypes
<1>5. ASSUME NEW how \in {"exited", "crashed"}, Leaves(how) PROVE TypeOK'
  BY <1>5, GoneTypes DEF Leaves, OutTypes
<1>6. CASE Start \/ Cancel
  <2>1. PICK c \in Connections : Gets(Lifecycle, c) /\ consumer' \in {c, 0, consumer}
    BY <1>6 DEF Start, Cancel
  <2>2. AmqpTypes' /\ Connections \subseteq 0..MaxConnections /\ 0 \in 0..MaxConnections
    BY <2>1, GetsTypes, ConnectionFacts, ConsumerAssumption DEF Callers
  <2> QED
    BY <1>6, <2>1, <2>2 DEF Start, Cancel, AmqpTypes, ConnStates, handlerVars
<1>7. CASE Signal \/ UNCHANGED vars
  BY <1>7 DEF Signal, vars, brokerVars, amqpVars, handlerVars
<1>8. CASE Restart
  BY <1>8, ConsumerAssumption DEF Restart, brokerVars, amqpVars, handlerVars
<1>9. CASE Check
  <2>1. AmqpTypes'
    <3>1. Probe \in Callers
      BY DEF Callers
    <3>2. CASE \E c \in Connections : Gets(Probe, c)
      BY <3>1, <3>2, GetsTypes
    <3>3. CASE Abandoned(Probe) /\ UNCHANGED bindings
      BY <3>1, <3>3, AbandonedTypes DEF AmqpTypes
    <3> QED
      BY <1>9, <3>2, <3>3 DEF Check
  <2> QED
    BY <1>9, <2>1 DEF Check, AmqpTypes, ConnStates, handlerVars
<1>10. ASSUME NEW c \in Connections, LoseConnection(c) PROVE TypeOK'
  <2>1. /\ conn' \in [Connections -> ConnStates] /\ cached' \in 0..MaxConnections
        /\ consumer' \in 0..MaxConnections /\ held' \subseteq held
        /\ main' \in [Message -> Nat]
    BY <1>10, ClosedTypes DEF LoseConnection
  <2> QED
    BY <1>10, <2>1, ConsumerAssumption DEF LoseConnection, ConnStates
<1>11. ASSUME NEW h \in Handlers, NEW m \in Message, Deliver(h, m) PROVE TypeOK'
  <2> DEFINE t == [Idle EXCEPT !.stage = "enter", !.msg = m, !.conn = consumer]
  <2>1. t \in Task
    BY IdleTypes DEF Task, Stages, Idle
  <2>2. main' \in [Message -> Nat]
    BY <1>11 DEF Deliver
  <2> HIDE DEF t
  <2>3. task' \in [Handlers -> Task]
    BY <1>11, <2>1 DEF Deliver, t
  <2> QED
    BY <1>11, <2>2, <2>3 DEF Deliver, amqpVars
<1>12. ASSUME NEW d \in Delays, NEW m \in Message, Expire(d, m) PROVE TypeOK'
  <2>1. waiting' \in [Delays -> [Message -> Nat]] /\ main' \in [Message -> Nat]
    BY <1>12, PutFacts DEF Expire
  <2> QED
    BY <1>12, <2>1 DEF Expire, amqpVars, handlerVars
<1> QED
  BY <1>1, <1>2, <1>3, <1>4, <1>5, <1>6, <1>7, <1>8, <1>9, <1>10, <1>11, <1>12, StepCases
     DEF Deliveries, Expiries

-----------------------------------------------------------------------------
(* One connection                                                          *)

(* With its only connection open, the process opens no other and closes    *)
(* none: who asks for a channel gets that one.                             *)
LEMMA SoleStays ==
  ASSUME NEW p, Sole(p), NEW x \in Callers
  PROVE  /\ ~Connect(x)
         /\ \A c : Gets(x, c) => c = p /\ UNCHANGED <<conn, cached, opening>>
         /\ Abandoned(x) /\ TypeOK => UNCHANGED <<conn, cached, opening>>
<1>1. cached = p /\ p # 0 /\ opening[x] = 0
  BY ConnectionFacts DEF Sole
<1>2. ~Connect(x)
  BY <1>1 DEF Connect
<1>3. ASSUME NEW c, Gets(x, c) PROVE c = p /\ UNCHANGED <<conn, cached, opening>>
  BY <1>1, <1>3, ConnectionFacts DEF Gets, amqpVars
<1>4. ASSUME Abandoned(x), TypeOK PROVE UNCHANGED <<conn, cached, opening>>
  <2>1. conn' = conn
    BY <1>1, <1>4, ConnectionFacts DEF Abandoned, OpenedIs, TypeOK
  <2>2. opening' = opening
    BY <1>1, <1>4 DEF Abandoned, OpenedIs, TypeOK
  <2> QED
    BY <1>1, <1>4, <2>1, <2>2 DEF Abandoned
<1> QED
  BY <1>2, <1>3, <1>4

(* An ack goes to another channel only after everything of the old one is  *)
(* gone.                                                                   *)
LEMMA ElsewhereIsAfterLoss ==
  ASSUME TypeOK, HandlerInv, PrimaryInv, NEW h \in Handlers, AckElsewhere(h)
  PROVE  consumer = 0 /\ held = {} /\ task[h].chan \in Connections
<1>1. /\ task[h].conn \in Connections /\ task[h].chan \in Connections
      /\ task[h].conn # task[h].chan
  BY DEF AckElsewhere, HandlerInv
<1>2. \A p : ~Sole(p)
  BY <1>1, ConnectionFacts DEF Sole
<1> QED
  BY <1>1, <1>2 DEF PrimaryInv, TypeOK

(* The connection of the subscription, or of a delivery that is held,      *)
(* stays the only one until it is lost.                                    *)
LEMMA PrimaryStep ==
  ASSUME TypeOK, HandlerInv, ProcessInv, PrimaryInv, [Next]_vars
  PROVE  PrimaryInv'
<1>1. ASSUME UNCHANGED <<conn, cached, opening>>, consumer' \in {consumer, 0},
             held' \subseteq held,
             \A h \in Handlers : \/ task'[h] = task[h] \/ task'[h] = Idle
                                \/ /\ task'[h].conn = task[h].conn
                                   /\ task'[h].chan \in {task[h].chan, cached},
             \A h \in held' : task'[h].conn = task[h].conn
      PROVE  PrimaryInv'
  <2>1. ASSUME NEW p, Sole(p) PROVE Sole(p)'
    BY <1>1, <2>1 DEF Sole, Idle
  <2>2. consumer' # 0 => Sole(consumer)'
    BY <1>1 DEF PrimaryInv, Sole, Idle
  <2>3. ASSUME NEW h \in held' PROVE Sole(task[h].conn)'
    <3>1. Sole(task[h].conn) /\ task'[h].conn = task[h].conn
      BY <1>1, <2>3 DEF PrimaryInv
    <3> QED
      BY <1>1, <2>3, <3>1 DEF Sole, Idle
  <2> QED
    BY <2>2, <2>3 DEF PrimaryInv
<1>2. ASSUME UNCHANGED <<consumer, held>>, consumer = 0, held = {} PROVE PrimaryInv'
  BY <1>2 DEF PrimaryInv
<1>3. ASSUME NEW x \in Callers, Connect(x) PROVE PrimaryInv'
  <2>1. consumer = 0 /\ held = {}
    BY <1>3, SoleStays DEF PrimaryInv, TypeOK
  <2> QED
    BY <1>2, <1>3, <2>1 DEF Connect, handlerVars
<1>4. ASSUME NEW h \in Handlers, Ack(h) PROVE PrimaryInv'
  BY <1>1, <1>4, IdleTypes DEF Ack, Finish, Acked, TypeOK, amqpVars
<1>5. ASSUME NEW h \in Handlers, AckElsewhere(h) PROVE PrimaryInv'
  <2>1. consumer' = 0 /\ held' = {}
    BY <1>5, ElsewhereIsAfterLoss DEF AckElsewhere, Closed
  <2> QED
    BY <2>1 DEF PrimaryInv
<1>6. ASSUME NEW h \in Handlers, NEW t \in Task, Proceeds(h, t) PROVE PrimaryInv'
  <2>1. CASE consumer = 0 /\ held = {}
    BY <1>2, <1>6, <2>1 DEF Proceeds
  <2>2. CASE \E p : Sole(p)
    <3>1. PICK p : Sole(p)
      BY <2>2
    <3>2. h \in Callers
      BY DEF Callers
    <3>3. UNCHANGED <<conn, cached, opening>> /\ t.chan \in {task[h].chan, cached}
      BY <1>6, <3>1, <3>2, SoleStays DEF Proceeds, ChannelWork, amqpVars, Sole
    <3>4. /\ \A g \in Handlers \ {h} : task'[g] = task[g]
          /\ task'[h].conn = task[h].conn /\ task'[h].chan \in {task[h].chan, cached}
      BY <1>6, <3>3 DEF Proceeds, TypeOK
    <3>5. UNCHANGED <<consumer, held>> /\ held \subseteq Handlers
      BY <1>6 DEF Proceeds, TypeOK
    <3> QED
      BY <1>1, <3>3, <3>4, <3>5
  <2> QED
    BY <2>1, <2>2 DEF PrimaryInv
<1>7. ASSUME NEW how, Leaves(how) PROVE PrimaryInv'
  BY <1>7 DEF Leaves, Gone, PrimaryInv
<1>8. CASE Start
  <2>1. /\ held = {} /\ cached = 0
        /\ \A h \in Handlers : task[h] = Idle
        /\ \A x \in Callers \ {Lifecycle} : opening[x] = 0
        /\ \A c \in Connections : conn[c] # "unused" => c = opening[Lifecycle]
    BY <1>8 DEF Start, ProcessInv, Consuming
  <2>2. PICK c \in Connections : Gets(Lifecycle, c) /\ consumer' = c
    BY <1>8 DEF Start
  <2>3. /\ opening[Lifecycle] = c /\ cached' = c
        /\ conn' = [conn EXCEPT ![c] = "open"]
        /\ opening' = [opening EXCEPT ![Lifecycle] = 0]
    BY <2>1, <2>2, ConnectionFacts DEF Gets
  <2>4. UNCHANGED <<task, held>>
    BY <1>8 DEF Start, handlerVars
  <2>5. Sole(c)'
    <3>1. \A h \in Handlers : task'[h].conn = 0 /\ task'[h].chan = 0
      BY <2>1, <2>4 DEF Idle
    <3>2. conn'[c] = "open" /\ \A d \in Connections \ {c} : conn'[d] = "unused"
      BY <2>1, <2>3 DEF TypeOK
    <3>3. \A x \in Callers : opening'[x] = 0
      BY <2>1, <2>3 DEF TypeOK
    <3> QED
      BY <2>3, <3>1, <3>2, <3>3 DEF Sole
  <2> QED
    BY <2>1, <2>2, <2>4, <2>5 DEF PrimaryInv, Sole
<1>9. CASE Cancel
  <2>1. CASE consumer = 0 /\ held = {}
    BY <1>2, <1>9, <2>1 DEF Cancel, handlerVars
  <2>2. CASE \E p : Sole(p)
    <3>1. UNCHANGED <<conn, cached, opening>>
      BY <1>9, <2>2, SoleStays DEF Cancel, Callers
    <3> QED
      BY <1>1, <1>9, <3>1 DEF Cancel, handlerVars, TypeOK
  <2> QED
    BY <2>1, <2>2 DEF PrimaryInv
<1>10. CASE Signal \/ Restart \/ UNCHANGED vars
  BY <1>1, <1>10 DEF Signal, Restart, vars, amqpVars, handlerVars, TypeOK
<1>11. CASE Check
  <2>1. CASE consumer = 0 /\ held = {}
    BY <1>2, <1>11, <2>1 DEF Check, handlerVars
  <2>2. CASE \E p : Sole(p)
    <3>1. UNCHANGED <<conn, cached, opening>>
      BY <1>11, <2>2, SoleStays DEF Check, Callers
    <3> QED
      BY <1>1, <1>11, <3>1 DEF Check, handlerVars, TypeOK
  <2> QED
    BY <2>1, <2>2 DEF PrimaryInv
<1>12. ASSUME NEW c \in Connections, LoseConnection(c) PROVE PrimaryInv'
  <2>1. ASSUME NEW p, Sole(p) PROVE c = p
    BY <1>12, <2>1 DEF Sole, LoseConnection
  <2>2. consumer' = 0 /\ held' = {}
    BY <1>12, <2>1 DEF LoseConnection, Closed, HeldOn, PrimaryInv, TypeOK
  <2> QED
    BY <2>2 DEF PrimaryInv
<1>13. ASSUME NEW h \in Handlers, NEW m \in Message, Deliver(h, m) PROVE PrimaryInv'
  <2>1. /\ UNCHANGED <<conn, cached, opening, consumer>>
        /\ held' = held \union {h}
        /\ Sole(consumer) /\ consumer' # 0
    BY <1>13 DEF Deliver, amqpVars, PrimaryInv
  <2>2. /\ task'[h].conn = consumer /\ task'[h].chan = 0
        /\ \A g \in Handlers \ {h} : task'[g] = task[g]
    BY <1>13 DEF Deliver, TypeOK, Idle
  <2>3. Sole(consumer)'
    BY <2>1, <2>2 DEF Sole
  <2>4. ASSUME NEW g \in held' PROVE task'[g].conn = consumer'
    <3>1. CASE g = h
      BY <2>1, <2>2, <3>1
    <3>2. CASE g # h
      <4>1. g \in held /\ task'[g] = task[g]
        BY <2>1, <2>2, <2>4, <3>2 DEF TypeOK
      <4>2. Sole(task[g].conn)
        BY <4>1 DEF PrimaryInv
      <4> QED
        BY <2>1, <4>1, <4>2 DEF Sole
    <3> QED
      BY <3>1, <3>2
  <2> QED
    BY <2>3, <2>4 DEF PrimaryInv, Sole
<1>14. CASE Expiries
  BY <1>1, <1>14 DEF Expiries, Expire, amqpVars, handlerVars, TypeOK
<1> QED
  BY <1>3, <1>4, <1>5, <1>6, <1>7, <1>8, <1>9, <1>10, <1>11, <1>12, <1>13, <1>14, StepCases
     DEF Deliveries

-----------------------------------------------------------------------------
(* Handlers and the process                                                *)

(* A handler at work keeps its message and its channel. *)
LEMMA HandlerStep ==
  ASSUME TypeOK, HandlerInv, ProcessInv, PrimaryInv, [Next]_vars
  PROVE  HandlerInv'
<1> DEFINE Fits(h) ==
      /\ task[h].stage = "idle" => task[h] = Idle /\ h \notin held
      /\ task[h].stage # "idle" => task[h].msg \in Message /\ task[h].conn \in Connections
      /\ task[h].stage \notin {"idle", "enter"} => task[h].chan \in Connections
      /\ task[h].stage \in {"retry", "sentRetry"} => AttemptOf(task[h].msg) \in DOMAIN Tiers
      /\ task[h].stage = "enter" => ~task[h].guarded
<1>1. ASSUME NEW g \in Handlers, task'[g] = task[g], g \notin held => g \notin held'
      PROVE  Fits(g)'
  BY <1>1 DEF HandlerInv
<1>2. ASSUME NEW g \in Handlers, task'[g] = Idle, g \notin held' PROVE Fits(g)'
  BY <1>2, IdleTypes DEF Idle
<1>3. ASSUME UNCHANGED <<task, held>> PROVE HandlerInv'
  BY <1>3 DEF HandlerInv
<1>4. ASSUME NEW x \in Callers, Connect(x) PROVE HandlerInv'
  BY <1>3, <1>4 DEF Connect, handlerVars
<1>5. ASSUME NEW h \in Handlers, Ack(h) PROVE HandlerInv'
  <2>1. ASSUME NEW g \in Handlers PROVE Fits(g)'
    BY <1>1, <1>2, <1>5, <2>1 DEF Ack, Finish, Acked, TypeOK
  <2> QED
    BY <2>1 DEF HandlerInv
<1>6. ASSUME NEW h \in Handlers, AckElsewhere(h) PROVE HandlerInv'
  <2>1. held' = {}
    BY <1>6, ElsewhereIsAfterLoss DEF AckElsewhere, Closed
  <2>2. ASSUME NEW g \in Handlers PROVE Fits(g)'
    BY <1>1, <1>2, <1>6, <2>1 DEF AckElsewhere, Finish, TypeOK
  <2> QED
    BY <2>2 DEF HandlerInv
<1>7. ASSUME NEW h \in Handlers, NEW t \in Task, Proceeds(h, t) PROVE HandlerInv'
  <2>1. task'[h] = t /\ \A g \in Handlers \ {h} : task'[g] = task[g]
    BY <1>7 DEF Proceeds, TypeOK
  <2>2. t.chan \in Connections
    BY <1>7 DEF Proceeds, Gets
  <2>3. Fits(h)'
    BY <1>7, <2>1, <2>2 DEF Proceeds, HandlerInv
  <2>4. ASSUME NEW g \in Handlers \ {h} PROVE Fits(g)'
    BY <1>1, <1>7, <2>1 DEF Proceeds
  <2> QED
    BY <2>3, <2>4 DEF HandlerInv
<1>8. ASSUME NEW how, Leaves(how) PROVE HandlerInv'
  <2>1. ASSUME NEW g \in Handlers PROVE Fits(g)'
    BY <1>2, <1>8 DEF Leaves, Gone
  <2> QED
    BY <2>1 DEF HandlerInv
<1>9. CASE Start \/ Cancel \/ Signal \/ Restart \/ Check \/ UNCHANGED vars
  BY <1>3, <1>9 DEF Start, Cancel, Signal, Restart, Check, vars, handlerVars
<1>10. ASSUME NEW c \in Connections, LoseConnection(c) PROVE HandlerInv'
  <2>1. held' \subseteq held /\ task' = task
    BY <1>10 DEF LoseConnection, Closed
  <2>2. ASSUME NEW g \in Handlers PROVE Fits(g)'
    BY <1>1, <2>1
  <2> QED
    BY <2>2 DEF HandlerInv
<1>11. ASSUME NEW h \in Handlers, NEW m \in Message, Deliver(h, m) PROVE HandlerInv'
  <2>1. /\ task'[h].stage = "enter" /\ task'[h].msg = m /\ task'[h].conn = consumer
        /\ ~task'[h].guarded
        /\ \A g \in Handlers \ {h} : task'[g] = task[g]
        /\ held' = held \union {h}
    BY <1>11 DEF Deliver, TypeOK, Idle
  <2>2. consumer \in Connections
    BY <1>11, ConnectionFacts DEF Deliver, TypeOK
  <2>3. Fits(h)'
    BY <2>1, <2>2
  <2>4. ASSUME NEW g \in Handlers \ {h} PROVE Fits(g)'
    BY <1>1, <2>1
  <2> QED
    BY <2>3, <2>4 DEF HandlerInv
<1>12. CASE Expiries
  BY <1>3, <1>12 DEF Expiries, Expire, handlerVars
<1> QED
  BY <1>4, <1>5, <1>6, <1>7, <1>8, <1>9, <1>10, <1>11, <1>12, StepCases DEF Deliveries

(* A process that does not consume has nothing, and one that drains is     *)
(* cancelled.                                                              *)
LEMMA ProcessStep ==
  ASSUME TypeOK, HandlerInv, ProcessInv, PrimaryInv, [Next]_vars
  PROVE  ProcessInv'
<1> USE DEF Consuming
<1>1. ASSUME UNCHANGED <<proc, consumer, held, task, conn, cached, opening>>,
             bindings \subseteq bindings'
      PROVE  ProcessInv'
  BY <1>1 DEF ProcessInv
(* Everything else that goes on, goes on while the process is consuming.   *)
<1>2. ASSUME Consuming, proc' = proc \/ (proc = "running" /\ proc' = "stopping"),
             consumer' \in {consumer, 0},
             bindings \subseteq bindings'
      PROVE  ProcessInv'
  BY <1>2 DEF ProcessInv
<1>3. ASSUME NEW h \in Handlers, task[h].stage # "idle" PROVE Consuming
  BY <1>3, IdleTypes DEF ProcessInv
<1>4. ASSUME NEW x \in Callers, Connect(x) PROVE ProcessInv'
  <2>1. CASE Consuming
    BY <1>2, <1>4, <2>1 DEF Connect, brokerVars
  <2>2. CASE ~Consuming
    <3>1. x = Lifecycle /\ proc = "starting" /\ opening[x] = 0
      BY <1>3, <1>4, <2>2 DEF Connect, Wants, Callers
    <3>2. \A c \in Connections : conn[c] = "unused"
      BY <2>2, <3>1, ConnectionFacts DEF ProcessInv
    <3>3. PICK c \in Connections :
            /\ conn' = [conn EXCEPT ![c] = "opening"]
            /\ opening' = [opening EXCEPT ![x] = c]
      BY <1>4 DEF Connect
    <3>4. opening'[Lifecycle] = c /\ \A y \in Callers \ {Lifecycle} : opening'[y] = opening[y]
      BY <3>1, <3>3 DEF TypeOK
    <3>5. \A d \in Connections : conn'[d] # "unused" => d = c
      BY <3>2, <3>3 DEF TypeOK
    <3>6. UNCHANGED <<proc, consumer, held, task, cached, bindings>>
      BY <1>4 DEF Connect, brokerVars, handlerVars
    <3> QED
      BY <2>2, <3>1, <3>4, <3>5, <3>6 DEF ProcessInv
  <2> QED
    BY <2>1, <2>2
<1>5. ASSUME NEW h \in Handlers, Ack(h) PROVE ProcessInv'
  BY <1>2, <1>3, <1>5 DEF Ack, brokerVars
<1>6. ASSUME NEW h \in Handlers, AckElsewhere(h) PROVE ProcessInv'
  BY <1>2, <1>3, <1>6 DEF AckElsewhere, Closed
<1>7. ASSUME NEW h \in Handlers, NEW t \in Task, Proceeds(h, t) PROVE ProcessInv'
  <2>1. bindings \subseteq bindings'
    BY <1>7 DEF Proceeds, ChannelWork, Gets
  <2> QED
    BY <1>2, <1>3, <1>7, <2>1 DEF Proceeds
<1>8. ASSUME NEW how \in {"exited", "crashed"}, Leaves(how) PROVE ProcessInv'
  BY <1>8 DEF Leaves, Gone, ProcessInv
<1>9. CASE Start
  <2>1. PICK c \in Connections : Gets(Lifecycle, c)
    BY <1>9 DEF Start
  <2>2. cached = 0
    BY <1>9 DEF Start, ProcessInv
  <2>3. bindings' = bindings \union Bound(Tiers)
    BY <2>1, <2>2, ConnectionFacts DEF Gets
  <2> QED
    BY <1>9, <2>3 DEF Start, ProcessInv
<1>10. CASE Cancel
  <2>1. PICK c \in Connections :
          Gets(Lifecycle, c) /\ consumer' = IF consumer = c THEN 0 ELSE consumer
    BY <1>10 DEF Cancel
  <2>2. consumer' = 0
    BY <2>1, SoleStays DEF PrimaryInv, Callers
  <2>3. bindings \subseteq bindings' /\ proc = "stopping" /\ proc' = "draining"
    BY <1>10, <2>1 DEF Cancel, Gets
  <2> QED
    BY <2>2, <2>3 DEF ProcessInv
<1>11. CASE Signal
  BY <1>2, <1>11 DEF Signal, brokerVars
<1>12. CASE Restart
  <2>1. ~Consuming /\ proc' = "starting"
    BY <1>12 DEF Restart, Up
  <2> QED
    BY <1>12, <2>1 DEF Restart, ProcessInv, brokerVars, amqpVars, handlerVars
<1>13. CASE Check
  <2>1. opening[Probe] # 0 /\ Probe \in Callers \ {Lifecycle}
    BY <1>13, ConsumerAssumption DEF Check, Callers
  <2>2. Consuming
    BY <2>1 DEF ProcessInv
  <2>3. bindings \subseteq bindings'
    BY <1>13 DEF Check, Gets
  <2> QED
    BY <1>2, <1>13, <2>2, <2>3 DEF Check
<1>14. ASSUME NEW c \in Connections, LoseConnection(c) PROVE ProcessInv'
  <2>1. CASE Consuming
    BY <1>2, <1>14, <2>1 DEF LoseConnection, Closed
  <2>2. CASE ~Consuming
    <3>1. /\ consumer' = 0 /\ cached' = 0 /\ held' = {}
          /\ \A d \in Connections : conn'[d] # "unused" => conn[d] # "unused"
      BY <1>14, <2>2 DEF LoseConnection, Closed, ProcessInv, TypeOK
    <3>2. UNCHANGED <<proc, task, opening, bindings>>
      BY <1>14 DEF LoseConnection
    <3> QED
      BY <2>2, <3>1, <3>2 DEF ProcessInv
  <2> QED
    BY <2>1, <2>2
<1>15. ASSUME NEW h \in Handlers, NEW m \in Message, Deliver(h, m) PROVE ProcessInv'
  <2>1. Consuming
    BY <1>15 DEF Deliver, ProcessInv
  <2> QED
    BY <1>2, <1>15, <2>1 DEF Deliver
<1>16. CASE Expiries
  BY <1>1, <1>16 DEF Expiries, Expire, amqpVars, handlerVars
<1>17. CASE UNCHANGED vars
  BY <1>1, <1>17 DEF vars, brokerVars, amqpVars, handlerVars
<1> QED
  BY <1>4, <1>5, <1>6, <1>7, <1>8, <1>9, <1>10, <1>11, <1>12, <1>13, <1>14, <1>15, <1>16, <1>17,
     StepCases DEF Deliveries

(* Only a loss ends the subscription before stop() does. *)
LEMMA LossStep ==
  ASSUME TypeOK, HandlerInv, ProcessInv, PrimaryInv, LossInv, [Next]_vars
  PROVE  LossInv'
<1> USE DEF LossInv
<1>1. ASSUME proc' \in {proc, "exited", "crashed", "draining"} \/ (proc = "running" /\ proc' = "stopping"),
             faults' = faults, proc' \in {"exited", "crashed", "draining"} \/ consumer' = consumer
      PROVE  LossInv'
  BY <1>1
<1>2. ASSUME NEW x \in Callers, Connect(x) PROVE LossInv'
  BY <1>1, <1>2 DEF Connect
<1>3. ASSUME NEW h \in Handlers, Ack(h) PROVE LossInv'
  BY <1>1, <1>3 DEF Ack
<1>4. ASSUME NEW h \in Handlers, AckElsewhere(h) PROVE LossInv'
  <2>1. consumer = 0
    BY <1>4, ElsewhereIsAfterLoss
  <2> QED
    BY <1>4, <2>1 DEF AckElsewhere
<1>5. ASSUME NEW h \in Handlers, NEW t \in Task, Proceeds(h, t) PROVE LossInv'
  BY <1>1, <1>5 DEF Proceeds
<1>6. ASSUME NEW how \in {"exited", "crashed"}, Leaves(how) PROVE LossInv'
  BY <1>1, <1>6 DEF Leaves, Gone
<1>7. CASE Start
  BY <1>7, ConnectionFacts DEF Start
<1>8. CASE Cancel \/ Signal \/ Check \/ UNCHANGED vars
  BY <1>1, <1>8 DEF Cancel, Signal, Check, vars
<1>9. CASE Restart
  BY <1>9 DEF Restart
<1>10. ASSUME NEW c \in Connections, LoseConnection(c) PROVE LossInv'
  BY <1>10, ConsumerAssumption DEF LoseConnection, TypeOK
<1>11. CASE Deliveries \/ Expiries
  BY <1>1, <1>11 DEF Deliveries, Deliver, Expiries, Expire
<1> QED
  BY <1>2, <1>3, <1>4, <1>5, <1>6, <1>7, <1>8, <1>9, <1>10, <1>11, StepCases

(* inFlight counts the handlers at work, on every path. *)
LEMMA CountStep ==
  ASSUME TypeOK, HandlerInv, ProcessInv, CountInv, [Next]_vars
  PROVE  CountInv'
<1>1. ASSUME UNCHANGED inFlight,
             \A h \in Handlers : task'[h].stage = "idle" <=> task[h].stage = "idle"
      PROVE  CountInv'
  <2>1. Busy' = Busy
    BY <1>1 DEF Busy
  <2> QED
    BY <1>1, <2>1 DEF CountInv
<1>2. ASSUME NEW h \in Handlers, Ack(h) \/ AckElsewhere(h) PROVE CountInv'
  BY <1>2, CountedOut DEF Ack, AckElsewhere
<1>3. ASSUME NEW h \in Handlers, NEW t \in Task, Proceeds(h, t) PROVE CountInv'
  BY <1>1, <1>3 DEF Proceeds, TypeOK
<1>4. ASSUME NEW how, Leaves(how) PROVE CountInv'
  <2>1. Busy' = {} /\ inFlight' = 0
    BY <1>4, IdleTypes DEF Leaves, Gone, Busy
  <2> QED
    BY <2>1, FS_EmptySet DEF CountInv
<1>5. ASSUME NEW h \in Handlers, NEW m \in Message, Deliver(h, m) PROVE CountInv'
  <2>1. IsFiniteSet(Busy) /\ h \notin Busy
    BY <1>5, ConsumerAssumption, FS_Subset DEF Busy, Deliver
  <2>2. Busy' = Busy \union {h}
    BY <1>5 DEF Busy, Deliver, TypeOK, Idle
  <2>3. Cardinality(Busy \union {h}) = Cardinality(Busy) + 1
    BY <2>1, FS_AddElement
  <2>4. inFlight' = Cardinality(Busy) + 1
    BY <1>5 DEF Deliver, CountInv
  <2> QED
    BY <2>2, <2>3, <2>4 DEF CountInv
<1>6. CASE UNCHANGED handlerVars
  BY <1>1, <1>6 DEF handlerVars
<1>7. CASE \E c \in Connections : LoseConnection(c)
  BY <1>1, <1>7 DEF LoseConnection
<1> QED
  BY <1>2, <1>3, <1>4, <1>5, <1>6, <1>7, StepCases
     DEF Connect, Start, Cancel, Signal, Restart, Check, Deliveries, Expiries, Expire, vars

-----------------------------------------------------------------------------
(* No event is lost                                                        *)

(* Every event that came is kept by a step, whichever it is: what leaves   *)
(* a queue is at once held or in another, what is held goes back to its    *)
(* queue, and only what is already elsewhere is acknowledged.              *)
LEMMA KeptStep ==
  ASSUME TypeOK, HandlerInv, ProcessInv, PrimaryInv, KeptInv, [Next]_vars
  PROVE  KeptInv'
<1> DEFINE Holds(h, e) == h \in held /\ task[h].stage # "ack" /\ task[h].msg.event = e
           SomeMain(e) == \E m \in Message : m.event = e /\ main[m] > 0
           SomeWaiting(e) == \E d \in Delays, m \in Message : m.event = e /\ waiting[d][m] > 0
<1>1. ASSUME NEW e
      PROVE  Kept(e) <=> \/ e \in settled \/ DeadLetter(e) \in dead
                         \/ SomeMain(e) \/ SomeWaiting(e)
                         \/ \E h \in Handlers : Holds(h, e)
  BY DEF Kept, Waits, TypeOK
<1>2. ASSUME published' = published, settled \subseteq settled', dead \subseteq dead',
             \A e : SomeMain(e) => Kept(e)',
             \A e : SomeWaiting(e) => Kept(e)',
             \A h \in Handlers, e \in Events : Holds(h, e) => Kept(e)'
      PROVE  KeptInv'
  <2>1. published \subseteq Events
    BY ConsumerAssumption DEF TypeOK
  <2>2. ASSUME NEW e \in published PROVE Kept(e)'
    <3>1. CASE e \in settled \/ DeadLetter(e) \in dead
      BY <1>2, <3>1 DEF Kept, DeadLetter
    <3>2. CASE SomeMain(e) \/ SomeWaiting(e) \/ \E h \in Handlers : Holds(h, e)
      BY <1>2, <2>1, <3>2
    <3> QED
      BY <1>1, <3>1, <3>2 DEF KeptInv
  <2> QED
    BY <1>2, <2>2 DEF KeptInv
<1>3. ASSUME \A m \in Message : main[m] > 0 => main'[m] > 0
      PROVE  \A e : SomeMain(e) => Kept(e)'
  BY <1>3 DEF Kept, Waits
<1>4. ASSUME \A d \in Delays, m \in Message : waiting[d][m] > 0 => waiting'[d][m] > 0
      PROVE  \A e : SomeWaiting(e) => Kept(e)'
  BY <1>4 DEF Kept, Waits
<1>5. ASSUME NEW h \in Handlers, NEW e, Holds(h, e)
      PROVE  task[h].msg \in Message
  BY <1>5 DEF HandlerInv
<1>6. ASSUME NEW h \in Handlers, NEW e, Holds(h, e),
             \/ h \in held' /\ task'[h] = task[h]
             \/ main'[task[h].msg] > 0
      PROVE  Kept(e)'
  BY <1>5, <1>6 DEF Kept, Waits
<1>7. CASE UNCHANGED <<published, main, waiting, dead, settled, task, held>>
  BY <1>7 DEF KeptInv, Kept, Waits, DeadLetter
<1>8. ASSUME NEW h \in Handlers, Ack(h) PROVE KeptInv'
  <2>1. \A g \in Handlers, e \in Events : Holds(g, e) => g \in held' /\ task'[g] = task[g]
    BY <1>8 DEF Ack, Acked, Finish, TypeOK
  <2>2. UNCHANGED <<published, main, waiting, dead, settled>>
    BY <1>8 DEF Ack, brokerVars
  <2>3. \A g \in Handlers, e \in Events : Holds(g, e) => Kept(e)'
    BY <1>6, <2>1
  <2> HIDE DEF Holds, SomeMain, SomeWaiting
  <2> QED
    BY <1>2, <1>3, <1>4, <2>2, <2>3
<1>9. ASSUME NEW h \in Handlers, AckElsewhere(h) PROVE KeptInv'
  <2>1. held = {} /\ task[h].chan \in Connections
    BY <1>9, ElsewhereIsAfterLoss
  <2>2. \A m \in Message : main[m] > 0 => main'[m] > 0
    BY <1>9, <2>1, ClosedTypes DEF AckElsewhere
  <2>3. UNCHANGED <<published, waiting, dead, settled>>
    BY <1>9 DEF AckElsewhere
  <2>4. \A g \in Handlers, e \in Events : Holds(g, e) => Kept(e)'
    BY <2>1
  <2> HIDE DEF Holds, SomeMain, SomeWaiting
  <2> QED
    BY <1>2, <1>3, <1>4, <2>2, <2>3, <2>4
<1>10. ASSUME NEW h \in Handlers, NEW t \in Task, Proceeds(h, t) PROVE KeptInv'
  <2>1. /\ UNCHANGED <<published, main, held>>
        /\ settled \subseteq settled' /\ dead \subseteq dead'
        /\ \A d \in Delays, m \in Message : waiting[d][m] > 0 => waiting'[d][m] > 0
    BY <1>10 DEF Proceeds, Grows
  <2>2. task'[h] = t /\ \A g \in Handlers \ {h} : task'[g] = task[g]
    BY <1>10 DEF Proceeds, TypeOK
  <2>3. ASSUME NEW e \in Events, Holds(h, e) PROVE Kept(e)'
    <3>1. CASE t.stage = "ack"
      <4>1. HandedOn(e)
        BY <1>10, <2>3, <3>1 DEF Proceeds
      <4> QED
        BY <4>1 DEF HandedOn, Kept, Waits, DeadLetter
    <3>2. CASE t.stage # "ack"
      <4>1. h \in held' /\ task'[h].stage # "ack" /\ task'[h].msg.event = e
        BY <1>10, <2>1, <2>2, <2>3, <3>2 DEF Proceeds
      <4> QED
        BY <4>1 DEF Kept
    <3> QED
      BY <3>1, <3>2
  <2>4. ASSUME NEW g \in Handlers, NEW e \in Events, Holds(g, e) PROVE Kept(e)'
    <3>1. CASE g = h
      BY <2>3, <2>4, <3>1
    <3>2. CASE g # h
      BY <1>6, <2>1, <2>2, <2>4, <3>2
    <3> QED
      BY <3>1, <3>2
  <2> HIDE DEF Holds, SomeMain, SomeWaiting
  <2> QED
    BY <1>2, <1>3, <1>4, <2>1, <2>4
<1>11. ASSUME NEW how, Leaves(how) PROVE KeptInv'
  <2>1. /\ UNCHANGED <<published, settled>> /\ dead \subseteq dead' /\ main' = PutBack(held)
        /\ \A d \in Delays, m \in Message : waiting[d][m] > 0 => waiting'[d][m] > 0
    BY <1>11 DEF Leaves, Gone, Grows
  <2>2. /\ \A m \in Message : main[m] > 0 => main'[m] > 0
        /\ \A h \in held : task[h].msg \in Message => main'[task[h].msg] > 0
    BY <2>1, PutBackFacts DEF TypeOK
  <2>3. ASSUME NEW g \in Handlers, NEW e \in Events, Holds(g, e) PROVE Kept(e)'
    <3>1. main'[task[g].msg] > 0
      BY <1>5, <2>2, <2>3
    <3> QED
      BY <1>6, <2>3, <3>1
  <2> HIDE DEF Holds, SomeMain, SomeWaiting
  <2> QED
    BY <1>2, <1>3, <1>4, <2>1, <2>2, <2>3
<1>12. ASSUME NEW c \in Connections, LoseConnection(c) PROVE KeptInv'
  <2>1. /\ \A m \in Message : main[m] > 0 => main'[m] > 0
        /\ \A h \in held : /\ task[h].conn # c => h \in held'
                           /\ task[h].conn = c /\ task[h].msg \in Message => main'[task[h].msg] > 0
    BY <1>12, ClosedTypes DEF LoseConnection
  <2>2. UNCHANGED <<published, waiting, dead, settled, task>>
    BY <1>12 DEF LoseConnection
  <2>3. ASSUME NEW g \in Handlers, NEW e \in Events, Holds(g, e) PROVE Kept(e)'
    BY <1>5, <1>6, <2>1, <2>2, <2>3
  <2> HIDE DEF Holds, SomeMain, SomeWaiting
  <2> QED
    BY <1>2, <1>3, <1>4, <2>1, <2>2, <2>3
<1>13. ASSUME NEW h \in Handlers, NEW m \in Message, Deliver(h, m) PROVE KeptInv'
  <2>1. /\ held' = held \union {h} /\ task[h].stage = "idle"
        /\ task'[h].stage = "enter" /\ task'[h].msg = m
        /\ \A g \in Handlers \ {h} : task'[g] = task[g]
        /\ \A n \in Message \ {m} : main'[n] = main[n]
        /\ UNCHANGED <<published, waiting, dead, settled>>
    BY <1>13 DEF Deliver, TypeOK, Idle
  <2>2. ASSUME NEW e, SomeMain(e) PROVE Kept(e)'
    <3>1. CASE m.event = e
      BY <2>1, <3>1 DEF Kept
    <3>2. CASE m.event # e
      BY <2>1, <2>2, <3>2 DEF Kept, Waits
    <3> QED
      BY <3>1, <3>2
  <2>3. ASSUME NEW g \in Handlers, NEW e \in Events, Holds(g, e) PROVE Kept(e)'
    <3>1. g # h
      BY <2>1, <2>3 DEF HandlerInv
    <3> QED
      BY <1>6, <2>1, <2>3, <3>1
  <2> HIDE DEF Holds, SomeMain, SomeWaiting
  <2> QED
    BY <1>2, <1>4, <2>1, <2>2, <2>3
<1>14. ASSUME NEW d \in Delays, NEW m \in Message, Expire(d, m) PROVE KeptInv'
  <2>1. /\ main' = Put(main, m)
        /\ UNCHANGED <<published, dead, settled, task, held>>
        /\ waiting' = [waiting EXCEPT ![d][m] = @ - 1]
    BY <1>14 DEF Expire, handlerVars
  <2>2. main'[m] > 0 /\ \A n \in Message : main[n] > 0 => main'[n] > 0
    BY <2>1, PutFacts DEF TypeOK
  <2>3. \A b \in Delays, n \in Message :
          waiting[b][n] > 0 => waiting'[b][n] > 0 \/ n = m
    BY <2>1 DEF TypeOK
  <2>4. ASSUME NEW e, SomeWaiting(e) PROVE Kept(e)'
    BY <2>2, <2>3, <2>4 DEF Kept, Waits
  <2>5. \A g \in Handlers, e \in Events : Holds(g, e) => Kept(e)'
    BY <1>6, <2>1
  <2> HIDE DEF Holds, SomeMain, SomeWaiting
  <2> QED
    BY <1>2, <1>3, <2>1, <2>2, <2>4, <2>5
<1> HIDE DEF Holds, SomeMain, SomeWaiting
<1> QED
  BY <1>7, <1>8, <1>9, <1>10, <1>11, <1>12, <1>13, <1>14, StepCases
     DEF Connect, Start, Cancel, Signal, Restart, Check, Deliveries, Expiries,
         brokerVars, handlerVars, vars

-----------------------------------------------------------------------------
(* The theorems                                                            *)

(* What comes first is a message, and it is ready or it waits. *)
LEMMA FirstIsKept ==
  ASSUME Init, NEW e \in published
  PROVE  Waits(e)
<1> DEFINE m == FirstMessage(e)
<1>1. e \in Events
  BY ConsumerAssumption DEF Init
<1>2. /\ m.event = e
      /\ m.attempt \in {Len(OldTiers) + 1, 0, 1}
      /\ m = [event |-> e, attempt |-> m.attempt]
  BY DEF FirstMessage
<1> HIDE DEF m
<1>3. m \in Message
  <2>1. m.attempt \in 0..(LongestTiers + 1)
    BY <1>2, TierFacts
  <2> QED
    BY <1>1, <1>2, <2>1 DEF Message
<1>4. m = FirstMessage(m.event)
  BY <1>2 DEF m
<1>5. CASE e \notin Delayed
  <2>1. main[m] = 1
    BY <1>2, <1>3, <1>4, <1>5 DEF Init
  <2> QED
    BY <1>2, <1>3, <2>1 DEF Waits
<1>6. CASE e \in Delayed
  <2> DEFINE d == OldTiers[Len(OldTiers)]
  <2>1. Len(OldTiers) \in DOMAIN OldTiers
    BY <1>6, ConsumerAssumption, TierFacts
  <2>2. d \in Delays
    BY <2>1 DEF Delays
  <2>3. waiting[d][m] = 1
    BY <1>2, <1>3, <1>4, <1>6, <2>2 DEF Init
  <2> HIDE DEF d
  <2> QED
    BY <1>2, <1>3, <2>2, <2>3 DEF Waits
<1> QED
  BY <1>5, <1>6

(* The inductive invariant holds of every behaviour. *)
THEOREM ConsumerInvariant == Spec => []IInv
<1>1. Init => IInv
  <2> SUFFICES ASSUME Init PROVE IInv
    OBVIOUS
  <2>1. TypeOK
    <3>1. 0 \in 0..MaxConnections /\ 0 \in 0..MaxFaults
      BY ConsumerAssumption
    <3>2. main \in [Message -> Nat] /\ waiting \in [Delays -> [Message -> Nat]]
      BY DEF Init
    <3> QED
      BY <3>1, <3>2, TierFacts, IdleTypes DEF Init, TypeOK
  <2>2. HandlerInv /\ ProcessInv /\ PrimaryInv /\ LossInv
    BY IdleTypes DEF Init, HandlerInv, ProcessInv, Consuming, PrimaryInv, LossInv
  <2>3. CountInv
    <3>1. Busy = {} /\ inFlight = 0
      BY IdleTypes DEF Init, Busy
    <3> QED
      BY <3>1, FS_EmptySet DEF CountInv
  <2>4. KeptInv
    BY FirstIsKept DEF KeptInv, Kept
  <2> QED
    BY <2>1, <2>2, <2>3, <2>4 DEF IInv
<1>2. IInv /\ [Next]_vars => IInv'
  BY TypeStep, HandlerStep, ProcessStep, PrimaryStep, LossStep, CountStep, KeptStep DEF IInv
<1> QED
  BY <1>1, <1>2, PTL DEF Spec

(* The types hold. *)
THEOREM ConsumerTypeCorrect == Spec => []TypeOK
<1>1. IInv => TypeOK
  BY DEF IInv
<1> QED
  BY <1>1, ConsumerInvariant, PTL

(* No event is lost, whatever closes, dies or is started again, and        *)
(* whichever tiers the deployment before had.                              *)
THEOREM NoEventIsLost == Spec => []NothingLost
<1>1. IInv => NothingLost
  BY DEF IInv, KeptInv, Kept, Waits, NothingLost, Queued
<1> QED
  BY <1>1, ConsumerInvariant, PTL

(* Until a connection is lost, the process has one, and is subscribed on   *)
(* it (amqp.connection.ts, getChannel).                                    *)
THEOREM OneConnectionSuffices == Spec => []OneConnectionUntilLoss
<1>1. IInv => OneConnectionUntilLoss
  BY DEF IInv, LossInv, PrimaryInv, Sole, OneConnectionUntilLoss
<1> QED
  BY <1>1, ConsumerInvariant, PTL

(* The cancel of stop() reaches the subscription (order.consumer.ts).      *)
THEOREM StopCancels == Spec => []DrainingIsCancelled
<1>1. IInv => DrainingIsCancelled
  BY DEF IInv, ProcessInv, DrainingIsCancelled
<1> QED
  BY <1>1, ConsumerInvariant, PTL

(* No handler settles the delivery of another (order.consumer.ts, ack).    *)
THEOREM OnlyOwnDeliveries == Spec => OwnDeliveriesOnly
<1> DEFINE Own == \A h \in held :
      h \notin held' => \/ task[h].stage = "ack" /\ task'[h].stage = "idle"
                        \/ conn'[task[h].conn] # "open"
<1>1. IInv /\ [Next]_vars => Own
  <2> SUFFICES ASSUME IInv, [Next]_vars, NEW h \in held, h \notin held'
               PROVE  \/ task[h].stage = "ack" /\ task'[h].stage = "idle"
                      \/ conn'[task[h].conn] # "open"
    OBVIOUS
  <2> USE DEF IInv
  <2>1. h \in Handlers /\ task[h].conn \in Connections
    BY DEF TypeOK, HandlerInv
  <2>2. ASSUME NEW g \in Handlers, Ack(g)
        PROVE  task[h].stage = "ack" /\ task'[h].stage = "idle"
    BY <2>1, <2>2, IdleTypes DEF Ack, Acked, Finish, TypeOK
  <2>3. ASSUME NEW g \in Handlers, AckElsewhere(g) PROVE FALSE
    BY <2>3, ElsewhereIsAfterLoss
  <2>4. ASSUME NEW g \in Handlers, NEW t \in Task, Proceeds(g, t) PROVE FALSE
    BY <2>4 DEF Proceeds
  <2>5. ASSUME NEW how, Leaves(how) PROVE conn'[task[h].conn] # "open"
    BY <2>1, <2>5 DEF Leaves, Gone
  <2>6. ASSUME NEW c \in Connections, LoseConnection(c) PROVE conn'[task[h].conn] # "open"
    BY <2>1, <2>6 DEF LoseConnection, Closed, HeldOn, TypeOK
  <2>7. CASE UNCHANGED held
    BY <2>7
  <2>8. CASE Deliveries
    BY <2>8 DEF Deliveries, Deliver
  <2> QED
    BY <2>2, <2>3, <2>4, <2>5, <2>6, <2>7, <2>8, StepCases
       DEF Connect, Start, Cancel, Signal, Restart, Check, Expiries, Expire, handlerVars, vars
<1>2. IInv /\ [Next]_vars => [Own]_vars
  BY <1>1
<1> QED
  BY <1>2, ConsumerInvariant, PTL DEF Spec, OwnDeliveriesOnly

(* A process that exits by stop() has no handler at work and gives no      *)
(* delivery back (order.consumer.ts, stop).                                *)
THEOREM ExitsAreClean == Spec => ExitIsClean
<1> DEFINE Clean == (Up /\ proc' = "exited") =>
      main' = main /\ \A h \in Handlers : task[h].stage = "idle"
<1>1. IInv /\ [Next]_vars => Clean
  <2> SUFFICES ASSUME IInv, [Next]_vars, Up, proc' = "exited"
               PROVE  main' = main /\ \A h \in Handlers : task[h].stage = "idle"
    OBVIOUS
  <2>1. (Exit \/ (proc = "starting" /\ Ends("exited")))
    <3>1. proc # "exited"
      BY DEF Up
    <3>2. ~Gone("crashed")
      BY DEF Gone
    <3>3. ASSUME NEW h \in Handlers, Handle(h) PROVE FALSE
      BY <3>1, <3>2, <3>3
         DEF Handle, Connect, NoChannel, Fails, Raises, Enter, Execute, OnFailure, FailOrder,
             Publish, Confirm, Unconfirmed, Ack, AckElsewhere, AckFails
    <3> QED
      BY <3>1, <3>2, <3>3
         DEF Next, Lifetime, Terminate, StartFails, CancelFails, Crash, Dies, Ends, Connect,
             Start, Cancel, Restart, Check, LoseConnection, Deliveries, Deliver, Expiries,
             Expire, vars
  <2>2. \A h \in Handlers : task[h].stage = "idle"
    <3>1. CASE Exit
      <4>1. Cardinality(Busy) = 0
        BY <3>1 DEF Exit, Drained, IInv, CountInv
      <4>2. IsFiniteSet(Busy)
        BY ConsumerAssumption, FS_Subset DEF Busy
      <4>3. Busy = {}
        BY <4>1, <4>2, FS_EmptySet
      <4> QED
        BY <4>3 DEF Busy
    <3>2. CASE proc = "starting"
      BY <3>2, IdleTypes DEF IInv, ProcessInv, Consuming
    <3> QED
      BY <2>1, <3>1, <3>2
  <2>3. held = {}
    BY <2>2 DEF IInv, HandlerInv, TypeOK
  <2>4. main' = PutBack(held)
    BY <2>1 DEF Exit, Ends, Gone
  <2> QED
    BY <2>2, <2>3, <2>4, PutBackFacts DEF IInv
<1>2. IInv /\ [Next]_vars => [Clean]_vars
  BY <1>1
<1> QED
  BY <1>2, ConsumerInvariant, PTL DEF Spec, ExitIsClean
=============================================================================
