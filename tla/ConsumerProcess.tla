---------------------------- MODULE ConsumerProcess ----------------------------
(***************************************************************************)
(* One consumer process: its AMQP connections and the channel it caches,   *)
(* its subscription, its handlers, its stop, and the queues it works with. *)
(*                                                                         *)
(*   Handlers   deliveries at work at once: AMQP_PREFETCH of them          *)
(*   Lifecycle  start() and stop() of order.consumer.ts                    *)
(*   Probe      /health/ready, which asks for a channel as well            *)
(*                                                                         *)
(* A connection and its only channel have one number.  What the broker and *)
(* amqplib do is external: a connection or a publish may fail at any time, *)
(* and so may a connection be lost.  What a delivery does to the database  *)
(* is OrderProcessing; here its event becomes "settled" or it throws.      *)
(***************************************************************************)
EXTENDS Integers, FiniteSets, Sequences

CONSTANTS
  Events,           \* the events there are messages about
  Unreadable,       \* those whose message body is not a JSON object
  Invalid,          \* those whose payload OrderCreatedEvent refuses
  Delayed,          \* those waiting in the last retry queue of OldTiers
  Tiers,            \* RETRY_TIERS_MS, a delay per retry
  OldTiers,         \* the tiers the deployment before this one declared
  Mixes,            \* bound: which events come together
  Handlers, Lifecycle, Probe,
  MaxConnections,   \* bound: connections of one process
  MaxFaults,        \* bound: connections lost and processes started again
  NoMessage, NoEvent

LongestTiers == IF Len(Tiers) > Len(OldTiers) THEN Len(Tiers) ELSE Len(OldTiers)

ASSUME ConsumerAssumption ==
  /\ Unreadable \subseteq Events /\ Invalid \subseteq Events /\ Delayed \subseteq Events
  /\ Tiers \in Seq(Nat) /\ OldTiers \in Seq(Nat)
  /\ Tiers # <<>>
  /\ Delayed # {} => OldTiers # <<>>
  /\ Mixes \subseteq SUBSET Events
  /\ IsFiniteSet(Handlers)
  /\ {Lifecycle, Probe} \cap Handlers = {} /\ Lifecycle # Probe
  /\ MaxConnections \in Nat \ {0} /\ MaxFaults \in Nat
  /\ NoEvent \notin Events

VARIABLES
  published,  \* the events that came, one message each
  main,       \* how many copies of each message orders.created has ready
  waiting,    \* how many each retry queue has, by the queue's delay
  bindings,   \* the (retry number, delay) pairs bound on orders.retry
  dead,       \* the events that have reached orders.dead
  settled,    \* the events whose processing has committed
  conn,       \* the state of each connection
  cached,     \* AmqpConnection.channel, 0 for null
  opening,    \* the connection each caller of getChannel is opening, or 0
  consumer,   \* the connection the broker has the subscription on, or 0
  proc,       \* where the process is
  inFlight,   \* OrderConsumer.inFlight
  task,       \* what each handler is doing
  held,       \* handlers whose delivery the broker counts as unacknowledged
  faults      \* connections lost and processes started again so far

brokerVars == <<published, main, waiting, bindings, dead, settled>>
amqpVars == <<conn, cached, opening>>
handlerVars == <<inFlight, task, held>>
vars == <<brokerVars, amqpVars, consumer, proc, handlerVars, faults>>

Connections == 1..MaxConnections
Callers == Handlers \union {Lifecycle, Probe}
Delays == {Tiers[i] : i \in DOMAIN Tiers} \union {OldTiers[i] : i \in DOMAIN OldTiers}

(* The attempt is the x-attempt header; 0 stands for one that is no number. *)
Message == [event : Events, attempt : 0..(LongestTiers + 1)]

Idle == [stage |-> "idle", guarded |-> FALSE, msg |-> NoMessage,
         conn |-> 0,   \* where it was delivered
         chan |-> 0,   \* the channel it will be acknowledged on
         pub |-> 0]    \* the channel it is publishing on

Up == proc \in {"starting", "running", "stopping", "draining"}

-----------------------------------------------------------------------------
(* Faulty variants, each used in place of the definition of the comment.   *)

KeyOfAttempt(m) == m.attempt                    \* RetryKey: the next attempt's key
SameAttempt(m) == m                             \* NextAttempt: header not incremented
AnyKey(k) == Delays                             \* RoutedTo: a fanout exchange
LeaksUnreadable(h) ==                           \* Counted: no decrement on that path
  IF task[h].msg.event \in Unreadable THEN inFlight ELSE inFlight - 1
CountsTwice(h) ==                               \* Counted: and in the finally as well
  IF task[h].msg.event \in Unreadable THEN inFlight - 2 ELSE inFlight - 1
AcksRefused(m) ==                               \* Decision: no dead letter for a refused one
  IF m.event \in Invalid THEN "ack" ELSE IF m.attempt <= Len(Tiers) THEN "retry" ELSE "failOrder"
NoDrain == TRUE                                 \* Drained: stop() does not wait
EveryDelivery(h) ==                             \* Acked: channel.ackAll()
  {g \in held : task[g].conn = task[h].conn}
NeverCaches(x, c) ==                            \* Gets: the new channel is not kept
  /\ c \in Connections
  /\ \/ opening[x] = 0 /\ cached = c /\ UNCHANGED <<conn, opening, bindings>>
     \/ /\ opening[x] = c
        /\ conn' = [conn EXCEPT ![c] = "open"]
        /\ opening' = [opening EXCEPT ![x] = 0]
        /\ UNCHANGED bindings
  /\ UNCHANGED cached

-----------------------------------------------------------------------------
(* Topology, routing and the retry decision.                               *)

(* MessageCodec.decode and OrderCreatedEvent.fromPayload do not throw. *)
Readable(m) == m.event \notin Unreadable
WellFormed(m) == m.event \notin Invalid

Bound(tiers) == {<<i, tiers[i]>> : i \in DOMAIN tiers}

RoutedTo(key) == {d \in Delays : <<key, d>> \in bindings}

AttemptOf(m) == IF m.attempt >= 1 THEN m.attempt ELSE 1

NextAttempt(m) == [m EXCEPT !.attempt = AttemptOf(m) + 1]

(* retryRoutingKey(attempt - 1), of the message with its next attempt.     *)
RetryKey(m) == m.attempt - 1

(* asTransientIfRetryable and decide, for what a handler can throw.        *)
Decision(m) ==
  CASE ~WellFormed(m) -> "dead"
    [] WellFormed(m) /\ AttemptOf(m) \in DOMAIN Tiers -> "retry"
    [] OTHER -> "failOrder"

Put(queue, m) == [queue EXCEPT ![m] = @ + 1]

PutBack(S) == [m \in Message |-> main[m] + Cardinality({h \in S : task[h].msg = m})]

(* A message waits in every queue its key is bound to; without one it is   *)
(* dropped, for nothing is published as mandatory.                         *)
RouteRetry(m) ==
  /\ waiting' = [d \in Delays |->
       IF d \in RoutedTo(RetryKey(m)) THEN Put(waiting[d], m) ELSE waiting[d]]
  /\ UNCHANGED dead

(* The dead letter of an unreadable message carries the payload {}.        *)
RouteDead(m) ==
  /\ dead' = dead \union {IF Readable(m) THEN m.event ELSE NoEvent}
  /\ UNCHANGED waiting

Route(h) == IF task[h].stage = "sentRetry"
            THEN RouteRetry(NextAttempt(task[h].msg))
            ELSE RouteDead(task[h].msg)
-----------------------------------------------------------------------------
(* getChannel: the cached channel, or a connection of the caller's own.    *)

Wants(x) ==
  \/ x \in Handlers /\ task[x].stage \in {"enter", "failure", "retry", "dead"}
  \/ x = Lifecycle /\ proc \in {"starting", "stopping"}
  \/ x = Probe /\ proc = "running"

(* No channel is cached: every call that comes now connects by itself.     *)
Connect(x) ==
  /\ Wants(x) /\ cached = 0 /\ opening[x] = 0
  /\ \E c \in Connections :
       /\ conn[c] = "unused"
       /\ \A d \in 1..(c - 1) : conn[d] # "unused"
       /\ conn' = [conn EXCEPT ![c] = "opening"]
       /\ opening' = [opening EXCEPT ![x] = c]
  /\ UNCHANGED <<brokerVars, cached, consumer, proc, handlerVars, faults>>

(* The call answers with channel c, declared and cached if it is new.      *)
Gets(x, c) ==
  /\ c \in Connections
  /\ \/ opening[x] = 0 /\ cached = c /\ UNCHANGED <<amqpVars, bindings>>
     \/ /\ opening[x] = c
        /\ conn' = [conn EXCEPT ![c] = "open"]
        /\ cached' = c
        /\ opening' = [opening EXCEPT ![x] = 0]
        /\ bindings' = bindings \union Bound(Tiers)

(* The call throws: the broker cannot be reached, or not to the end. *)
Refused(x) == opening[x] # 0 \/ cached = 0

OpenedIs(x, state) ==
  conn' = [c \in Connections |-> IF c = opening[x] THEN state ELSE conn[c]]

(* No connection was made; or one was, and it is left open without a       *)
(* channel; or it closed, and its listener clears the cache of another.    *)
Abandoned(x) ==
  /\ opening' = [opening EXCEPT ![x] = 0]
  /\ \/ OpenedIs(x, "unused") /\ UNCHANGED cached
     \/ opening[x] # 0 /\ OpenedIs(x, "channelClosed") /\ UNCHANGED cached
     \/ opening[x] # 0 /\ OpenedIs(x, "unused") /\ cached' = 0

(* The process is gone and the broker takes back what it held.             *)
Gone(how) ==
  /\ proc' = how
  /\ main' = PutBack(held)
  /\ conn' = [c \in Connections |-> "unused"]
  /\ cached' = 0
  /\ opening' = [x \in Callers |-> 0]
  /\ consumer' = 0
  /\ inFlight' = 0
  /\ task' = [h \in Handlers |-> Idle]
  /\ held' = {}
  /\ UNCHANGED <<published, bindings, settled, faults>>

Ends(how) == Gone(how) /\ UNCHANGED <<waiting, dead>>
Dies == Ends("crashed")

-----------------------------------------------------------------------------
(* Life of the process: start(), a signal, stop(), the end.                *)

Start ==
  /\ proc = "starting"
  /\ \E c \in Connections : Gets(Lifecycle, c) /\ consumer' = c
  /\ proc' = "running"
  /\ UNCHANGED <<published, main, waiting, dead, settled, handlerVars, faults>>

StartFails ==
  /\ proc = "starting"
  /\ Refused(Lifecycle)
  /\ Dies

(* Before consumerTag is set, stop() has nothing to do. *)
Terminate ==
  \/ proc = "starting" /\ Ends("exited")
  \/ /\ proc = "running"
     /\ proc' = "stopping"
     /\ UNCHANGED <<brokerVars, amqpVars, consumer, handlerVars, faults>>

(* The broker ignores a tag that channel does not have. *)
Cancel ==
  /\ proc = "stopping"
  /\ \E c \in Connections :
       /\ Gets(Lifecycle, c)
       /\ conn'[c] = "open"
       /\ consumer' = IF consumer = c THEN 0 ELSE consumer
  /\ proc' = "draining"
  /\ UNCHANGED <<published, main, waiting, dead, settled, handlerVars, faults>>

(* A shutdown hook that throws ends the process at once. *)
CancelFails ==
  /\ proc = "stopping"
  /\ Refused(Lifecycle) \/ (cached # 0 /\ conn[cached] # "open")
  /\ Dies

Drained == inFlight = 0

Exit == proc = "draining" /\ Drained /\ Ends("exited")

Crash == Up /\ faults < MaxFaults /\ Dies

Restart ==
  /\ ~Up
  /\ faults < MaxFaults
  /\ proc' = "starting"
  /\ faults' = faults + 1
  /\ UNCHANGED <<brokerVars, amqpVars, consumer, handlerVars>>

(* The readiness probe asks for a channel and does nothing with it. *)
Check ==
  /\ opening[Probe] # 0
  /\ \/ \E c \in Connections : Gets(Probe, c)
     \/ Abandoned(Probe) /\ UNCHANGED bindings
  /\ UNCHANGED <<published, main, waiting, dead, settled, consumer, proc, handlerVars, faults>>

-----------------------------------------------------------------------------
(* The broker: expiry, loss of a connection, delivery.                     *)

(* A delay is over: the message is dead-lettered to orders.created.        *)
Expire(d, m) ==
  /\ waiting[d][m] > 0
  /\ waiting' = [waiting EXCEPT ![d][m] = @ - 1]
  /\ main' = Put(main, m)
  /\ UNCHANGED <<published, bindings, dead, settled, amqpVars, consumer, proc, handlerVars, faults>>

HeldOn(c) == {h \in held : task[h].conn = c}

(* Channel c is gone: its deliveries are ready again.  Only the close of a *)
(* connection clears the cache, and the close of any connection does.      *)
Closed(c, state) ==
  /\ conn' = [conn EXCEPT ![c] = state]
  /\ cached' = IF state = "closed" THEN 0 ELSE cached
  /\ consumer' = IF consumer = c THEN 0 ELSE consumer
  /\ main' = PutBack(HeldOn(c))
  /\ held' = held \ HeldOn(c)

LoseConnection(c) ==
  /\ conn[c] \in {"open", "channelClosed"}
  /\ faults < MaxFaults
  /\ faults' = faults + 1
  /\ Closed(c, "closed")
  /\ UNCHANGED <<published, waiting, bindings, dead, settled, opening, proc, inFlight, task>>

Deliver(h, m) ==
  /\ consumer # 0
  /\ main[m] > 0
  /\ task[h].stage = "idle"
  /\ main' = [main EXCEPT ![m] = @ - 1]
  /\ held' = held \union {h}
  /\ task' = [task EXCEPT ![h] = [Idle EXCEPT !.stage = "enter", !.msg = m, !.conn = consumer]]
  /\ inFlight' = inFlight + 1
  /\ UNCHANGED <<published, waiting, bindings, dead, settled, amqpVars, consumer, proc, faults>>

-----------------------------------------------------------------------------
(* The handler.  guarded: an error goes to onFailure; otherwise it is an   *)
(* unhandled rejection, which ends the process.                            *)

Goto(h, stage) == task' = [task EXCEPT ![h].stage = stage]

Raises(h) ==
  \/ /\ task[h].guarded
     /\ task' = [task EXCEPT ![h].stage = "failure", ![h].guarded = FALSE]
     /\ Abandoned(h)
     /\ UNCHANGED <<published, main, bindings, settled, consumer, proc, inFlight, held, faults>>
  \/ ~task[h].guarded /\ Gone("crashed")

Fails(h) == Raises(h) /\ UNCHANGED <<waiting, dead>>

(* The channel taken on entry is kept for the ack. *)
Enter(h) ==
  /\ task[h].stage = "enter"
  /\ \E c \in Connections :
       /\ Gets(h, c)
       /\ task' = [task EXCEPT ![h].chan = c,
            ![h].stage = CASE ~Readable(task[h].msg) -> "dead"
                           [] Readable(task[h].msg) /\ ~WellFormed(task[h].msg) -> "failure"
                           [] OTHER -> "execute",
            ![h].guarded = Readable(task[h].msg) /\ WellFormed(task[h].msg)]
  /\ UNCHANGED <<published, main, waiting, dead, settled, consumer, proc, inFlight, held, faults>>

(* getChannel throws, or gives a channel that is closed but still cached.  *)
NoChannel(h) ==
  /\ \/ task[h].stage \in {"enter", "failure", "retry", "dead"} /\ Refused(h)
     \/ task[h].stage \in {"retry", "dead"} /\ cached # 0 /\ conn[cached] # "open"
  /\ Fails(h)

(* execute answers PROCESSED, DUPLICATE or FAILED; or DEAD_LETTER; or it   *)
(* throws, perhaps after a commit whose answer is lost.                    *)
Execute(h) ==
  /\ task[h].stage = "execute"
  /\ \/ Goto(h, "ack") /\ settled' = settled \union {task[h].msg.event}
     \/ Goto(h, "dead") /\ UNCHANGED settled
     \/ /\ task' = [task EXCEPT ![h].stage = "failure", ![h].guarded = FALSE]
        /\ settled' \in {settled, settled \union {task[h].msg.event}}
  /\ UNCHANGED <<published, main, waiting, bindings, dead, amqpVars, consumer, proc,
                 inFlight, held, faults>>

(* onFailure takes a channel anew, and decides. *)
OnFailure(h) ==
  /\ task[h].stage = "failure"
  /\ \E c \in Connections :
       /\ Gets(h, c)
       /\ task' = [task EXCEPT ![h].chan = c, ![h].stage = Decision(task[h].msg)]
  /\ UNCHANGED <<published, main, waiting, dead, settled, consumer, proc, inFlight, held, faults>>

FailOrder(h) ==
  /\ task[h].stage = "failOrder"
  /\ \/ /\ Goto(h, "dead")
        /\ settled' = settled \union {task[h].msg.event}
        /\ UNCHANGED <<published, main, waiting, bindings, dead, amqpVars, consumer, proc,
                       inFlight, held, faults>>
     \/ Fails(h)

(* publish: a channel, the message on its way, then the broker's answer.   *)
Publish(h) ==
  /\ task[h].stage \in {"retry", "dead"}
  /\ \E c \in Connections :
       /\ Gets(h, c)
       /\ conn'[c] = "open"
       /\ task' = [task EXCEPT ![h].pub = c,
            ![h].stage = IF @ = "retry" THEN "sentRetry" ELSE "sentDead"]
  /\ UNCHANGED <<published, main, waiting, dead, settled, consumer, proc, inFlight, held, faults>>

Sent(h) == task[h].stage \in {"sentRetry", "sentDead"}

Confirm(h) ==
  /\ Sent(h) /\ conn[task[h].pub] = "open"
  /\ \/ /\ Route(h)
        /\ Goto(h, "ack")
        /\ UNCHANGED <<published, main, bindings, settled, amqpVars, consumer, proc,
                       inFlight, held, faults>>
     \/ Fails(h)

(* The connection goes first, with or without the message routed: amqplib  *)
(* may reject the publish, or leave its callback uncalled, and then the    *)
(* handler never ends.                                                     *)
Unconfirmed(h) ==
  /\ Sent(h) /\ conn[task[h].pub] # "open"
  /\ Route(h) \/ UNCHANGED <<waiting, dead>>
  /\ \/ Raises(h)
     \/ /\ Goto(h, "hung")
        /\ UNCHANGED <<published, main, bindings, settled, amqpVars, consumer, proc,
                       inFlight, held, faults>>

Counted(h) == inFlight - 1

Finish(h) ==
  /\ task' = [task EXCEPT ![h] = Idle]
  /\ inFlight' = Counted(h)

(* The delivery an acknowledgement settles. *)
Acked(h) == {h}

Ack(h) ==
  /\ task[h].stage = "ack"
  /\ task[h].chan = task[h].conn /\ conn[task[h].chan] = "open"
  /\ Finish(h)
  /\ held' = held \ Acked(h)
  /\ UNCHANGED <<brokerVars, amqpVars, consumer, proc, faults>>

(* Another channel does not know the delivery's tag, and nothing throws:   *)
(* the broker closes that channel, and amqplib, whose channel has no error *)
(* listener, perhaps the connection with it.                               *)
AckElsewhere(h) ==
  /\ task[h].stage = "ack"
  /\ task[h].chan # task[h].conn /\ conn[task[h].chan] = "open"
  /\ Finish(h)
  /\ \E state \in {"channelClosed", "closed"} : Closed(task[h].chan, state)
  /\ UNCHANGED <<published, waiting, bindings, dead, settled, opening, proc, faults>>

AckFails(h) ==
  /\ task[h].stage = "ack"
  /\ conn[task[h].chan] # "open"
  /\ Fails(h)

Handle(h) ==
  \/ Connect(h) \/ NoChannel(h)
  \/ Enter(h) \/ Execute(h) \/ OnFailure(h) \/ FailOrder(h)
  \/ Publish(h) \/ Confirm(h) \/ Unconfirmed(h)
  \/ Ack(h) \/ AckElsewhere(h) \/ AckFails(h)

Lifetime ==
  \/ Connect(Lifecycle) \/ Start \/ StartFails
  \/ Cancel \/ CancelFails \/ Exit

-----------------------------------------------------------------------------
(* Everything starts with the messages on the broker: new ones, those that *)
(* did not come from the relay, and those an older deployment left behind. *)

FirstMessage(e) ==
  [event |-> e,
   attempt |-> IF e \in Delayed THEN Len(OldTiers) + 1
               ELSE IF e \in Unreadable \union Invalid THEN 0 ELSE 1]

Init ==
  /\ published \in Mixes
  /\ main = [m \in Message |->
       IF m.event \in published /\ m.event \notin Delayed /\ m = FirstMessage(m.event) THEN 1 ELSE 0]
  /\ waiting = [d \in Delays |-> [m \in Message |->
       IF /\ m.event \in published \cap Delayed /\ m = FirstMessage(m.event)
          /\ d = OldTiers[Len(OldTiers)]
       THEN 1 ELSE 0]]
  /\ bindings = Bound(OldTiers)
  /\ dead = {} /\ settled = {}
  /\ conn = [c \in Connections |-> "unused"]
  /\ cached = 0
  /\ opening = [x \in Callers |-> 0]
  /\ consumer = 0
  /\ proc = "starting"
  /\ inFlight = 0
  /\ task = [h \in Handlers |-> Idle]
  /\ held = {}
  /\ faults = 0

Deliveries == \E h \in Handlers, m \in Message : Deliver(h, m)
Expiries == \E d \in Delays, m \in Message : Expire(d, m)

Next ==
  \/ \E h \in Handlers : Handle(h)
  \/ Lifetime
  \/ Terminate \/ Crash \/ Restart
  \/ Connect(Probe) \/ Check
  \/ \E c \in Connections : LoseConnection(c)
  \/ Deliveries \/ Expiries

(* The event loop runs what is ready; the broker delivers while it can, in *)
(* the order of the queue, and delays run out.  Losses, crashes, signals,  *)
(* restarts and probes are nobody's duty.                                  *)
Fairness ==
  /\ WF_vars(\E h \in Handlers : Handle(h))
  /\ WF_vars(Lifetime)
  /\ WF_vars(Deliveries \/ Expiries)

Spec == Init /\ [][Next]_vars /\ Fairness

-----------------------------------------------------------------------------
(* Properties.                                                             *)

Stages == {"idle", "enter", "execute", "failure", "failOrder", "retry", "dead",
           "sentRetry", "sentDead", "ack", "hung"}

Task == [stage : Stages, guarded : BOOLEAN, msg : Message \union {NoMessage},
         conn : 0..MaxConnections, chan : 0..MaxConnections, pub : 0..MaxConnections]

(* Types. *)
TypeOK ==
  /\ published \in Mixes
  /\ main \in [Message -> Nat]
  /\ waiting \in [Delays -> [Message -> Nat]]
  /\ bindings \subseteq Nat \X Delays
  /\ dead \subseteq Events \union {NoEvent}
  /\ settled \subseteq Events
  /\ conn \in [Connections -> {"unused", "opening", "open", "channelClosed", "closed"}]
  /\ cached \in 0..MaxConnections
  /\ opening \in [Callers -> 0..MaxConnections]
  /\ consumer \in 0..MaxConnections
  /\ proc \in {"starting", "running", "stopping", "draining", "exited", "crashed"}
  /\ inFlight \in Nat
  /\ task \in [Handlers -> Task]
  /\ held \subseteq Handlers
  /\ faults \in 0..MaxFaults

Queued(e) ==
  \/ \E m \in Message : m.event = e /\ main[m] > 0
  \/ \E d \in Delays, m \in Message : m.event = e /\ waiting[d][m] > 0
  \/ \E h \in held : task[h].msg.event = e

DeadLetter(e) == IF e \in Unreadable THEN NoEvent ELSE e

(* No event is lost: until its processing has committed it is in a queue,  *)
(* held by a handler, or among the dead letters, whatever closes or dies   *)
(* and whichever tiers the deployment before had (order.consumer.ts: the   *)
(* ack comes last; order.publisher.ts: retries find their queue).          *)
NothingLost == \A e \in published : e \in settled \/ Queued(e) \/ DeadLetter(e) \in dead

Places(e) ==
  Cardinality({m \in Message : m.event = e /\ main[m] > 0})
  + Cardinality({x \in Delays \X Message : x[2].event = e /\ waiting[x[1]][x[2]] > 0})
  + Cardinality({h \in held : task[h].msg.event = e /\ task[h].stage # "ack"})

(* A key leads to one queue unless a deployment has moved it. *)
SameKeys == \A i \in DOMAIN Tiers \cap DOMAIN OldTiers : Tiers[i] = OldTiers[i]

(* While no process has died and no connection was lost, an event is being *)
(* worked on in one place at most (order.consumer.ts republishes it before *)
(* the ack; amqp.topology.ts binds one queue per retry).                   *)
NoCopyWithoutFault ==
  (SameKeys /\ faults = 0 /\ Up) =>
    \A e \in Events : Places(e) <= 1

(* A delivery stops being unacknowledged by the ack at its own handler's   *)
(* end, or because its connection or its process is gone: no handler       *)
(* settles the delivery of another (order.consumer.ts, ack on the channel  *)
(* of the delivery or on none).                                            *)
OwnDeliveriesOnly ==
  [][\A h \in held :
       h \notin held' => \/ task[h].stage = "ack" /\ task'[h].stage = "idle"
                         \/ conn'[task[h].conn] # "open"]_vars

(* While no connection was lost, a running process has one connection, and *)
(* that is the one it caches and is subscribed on: the channel stop()      *)
(* cancels on and handlers acknowledge on (amqp.connection.ts).            *)
OneConnectionUntilLoss ==
  (faults = 0 /\ proc = "running") =>
    /\ consumer # 0 /\ consumer = cached
    /\ \A c \in Connections \ {consumer} : conn[c] = "unused"

(* Once stop() has cancelled, the broker has no subscription of the        *)
(* process, on whichever channel the cancel went (ARCHITECTURE.md 4.4:     *)
(* SIGTERM stops consuming).                                               *)
DrainingIsCancelled == proc = "draining" => consumer = 0

(* A process that exits by stop() interrupts no handler and returns no     *)
(* delivery to the queue (ARCHITECTURE.md 4.4: it waits for the messages   *)
(* in flight).                                                             *)
ExitIsClean ==
  [][(Up /\ proc' = "exited") =>
       main' = main /\ \A h \in Handlers : task[h].stage = "idle"]_vars

Hung == \E h \in Handlers : task[h].stage = "hung"

(* stop() ends: every handler counts itself out, on every path, unless one *)
(* waits for a confirm that cannot come any more.                          *)
StopEnds == (proc = "stopping") ~> (~Up \/ Hung)

(* If the process keeps its subscription from some time on, every event    *)
(* ends committed or as a dead letter: retries are counted, and run out.   *)
ConsumedWhileSubscribed ==
  <>[](proc = "running" /\ consumer # 0 /\ ~Hung) =>
    <>(\A e \in published : e \in settled \/ DeadLetter(e) \in dead)

(* Retries, redeliveries, deaths and lost connections together deliver at  *)
(* least once: the events in a queue or at a handler, one that no longer   *)
(* holds its delivery included, are what MessageDelivery owes.             *)
Unfinished(e) ==
  \/ \E m \in Message : m.event = e /\ main[m] > 0
  \/ \E d \in Delays, m \in Message : m.event = e /\ waiting[d][m] > 0
  \/ \E h \in Handlers : task[h].stage # "idle" /\ task[h].msg.event = e

Delivery == INSTANCE MessageDelivery
              WITH owed <- {e \in Events : Unfinished(e)},
                   Letter <- [e \in Events |-> DeadLetter(e)]
ImplementsDelivery == Delivery!Spec
=============================================================================
