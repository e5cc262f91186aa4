------------------------------ MODULE OutboxRelay ------------------------------
(***************************************************************************)
(* The relay role: any number of processes that drain outbox_messages to   *)
(* the broker.  One cycle of relay.worker.ts claims a batch in a           *)
(* transaction of its own, publishes it row by row, waits for each         *)
(* publisher confirm, and only then marks the rows.                        *)
(*                                                                         *)
(* Time appears as the set of the rows whose available_at has come.  A     *)
(* claim moves available_at 30 seconds ahead, and nothing makes a batch    *)
(* end within them: the history variable late has the rows whose claim ran *)
(* out under the relay that held them.                                     *)
(***************************************************************************)
EXTENDS Integers, FiniteSets

CONSTANTS
  Rows,                \* identifiers of outbox_messages: one row per event
  Relays,
  BatchSize,           \* OUTBOX_BATCH_SIZE
  MaxPublishAttempts,  \* MAX_PUBLISH_ATTEMPTS
  MaxFaults            \* bound: crashes, failed statements, lost confirms

ASSUME RelayAssumption ==
  /\ Rows \subseteq Nat
  /\ BatchSize \in Nat \ {0}
  /\ MaxPublishAttempts \in Nat \ {0}
  /\ MaxFaults \in Nat

VARIABLES
  status,     \* outbox_messages.status; "NONE" before the row, "PURGED" after
  attempts,   \* outbox_messages.attempts
  due,        \* rows whose available_at is not in the future
  copies,     \* how often the broker got the event, 2 standing for more
  pc,         \* what each relay is about to do
  locked,     \* rows the relay's open transaction has read FOR UPDATE
  batch,      \* rows the relay has claimed and not yet dealt with
  published,  \* rows of the batch the broker has confirmed
  faults,     \* crashes, failed statements and lost confirms so far
  late        \* rows that became due while a relay still held them

tableVars == <<status, attempts, due>>
relayVars == <<pc, locked, batch, published>>
historyVars == <<faults, late>>
vars == <<tableVars, copies, relayVars, historyVars>>

-----------------------------------------------------------------------------
(* Faulty variants, each used in place of the definition of the comment.   *)

NotSkippingLocked(e) == status[e] = "PENDING" /\ e \in due    \* Claimable
AnyDueRow(e) == status[e] # "NONE" /\ e \in due               \* Claimable: no status filter
StatusOutsideEnum(e) ==                                       \* WriteRetry
  /\ attempts' = [attempts EXCEPT ![e] = @ + 1]
  /\ status' = [status EXCEPT ![e] = "RETRY"]
  /\ due' = due \ {e}
ClaimNeverExpires(e) ==                                       \* Elapse: a flag, not a window
  /\ status[e] = "PENDING" /\ attempts[e] > 0
  /\ e \notin due
  /\ due' = due \union {e}
  /\ UNCHANGED <<status, attempts, copies, relayVars, historyVars>>
ErrorTakenForConfirm(r) ==                                    \* PublishError: fire and forget
  /\ pc[r] = "publishing"
  /\ batch[r] # {}
  /\ \E e \in batch[r] :
       /\ \A f \in batch[r] : e <= f
       /\ batch' = [batch EXCEPT ![r] = @ \ {e}]
       /\ published' = [published EXCEPT ![r] = @ \union {e}]
  /\ UNCHANGED <<tableVars, copies, pc, locked, historyVars>>

-----------------------------------------------------------------------------
(* POST /orders or the reprocess route commits an event, available at once.*)
(* Rows commit in any order: the identifier is drawn at the insert.        *)
Append(e) ==
  /\ status[e] = "NONE"
  /\ status' = [status EXCEPT ![e] = "PENDING"]
  /\ due' = due \union {e}
  /\ UNCHANGED <<attempts, copies, relayVars, historyVars>>

(* WHERE status = 'PENDING' AND available_at <= :now ... SKIP LOCKED *)
Claimable(e) ==
  /\ status[e] = "PENDING"
  /\ e \in due
  /\ \A r \in Relays : e \notin locked[r]

(* ORDER BY id LIMIT :batchSize *)
Oldest(S) == {e \in S : Cardinality({f \in S : f < e}) < BatchSize}

SelectBatch(r) ==
  /\ pc[r] = "sleeping"
  /\ LET rows == Oldest({e \in Rows : Claimable(e)}) IN
       /\ rows # {}
       /\ locked' = [locked EXCEPT ![r] = rows]
  /\ pc' = [pc EXCEPT ![r] = "claiming"]
  /\ UNCHANGED <<tableVars, copies, batch, published, historyVars>>

(* The claim commits, and with it the lock is gone: from here only         *)
(* available_at keeps the other relays away.                               *)
ReserveBatch(r) ==
  /\ pc[r] = "claiming"
  /\ due' = due \ locked[r]
  /\ batch' = [batch EXCEPT ![r] = locked[r]]
  /\ locked' = [locked EXCEPT ![r] = {}]
  /\ pc' = [pc EXCEPT ![r] = "publishing"]
  /\ UNCHANGED <<status, attempts, copies, published, historyVars>>

IsNextRow(r, e) == e \in batch[r] /\ \A f \in batch[r] : e <= f

(* The broker has the event. *)
Received(e) == copies' = [copies EXCEPT ![e] = IF @ = 0 THEN 1 ELSE 2]

PublishConfirmed(r) ==
  /\ pc[r] = "publishing"
  /\ \E e \in Rows :
       /\ IsNextRow(r, e)
       /\ Received(e)
       /\ batch' = [batch EXCEPT ![r] = @ \ {e}]
       /\ published' = [published EXCEPT ![r] = @ \union {e}]
  /\ UNCHANGED <<tableVars, pc, locked, historyVars>>

(* No confirm: the broker refused the event, or the connection failed      *)
(* before or after the broker got it.                                      *)
PublishError(r) ==
  /\ pc[r] = "publishing"
  /\ \E e \in Rows :
       /\ IsNextRow(r, e)
       /\ Received(e) \/ UNCHANGED copies
  /\ pc' = [pc EXCEPT ![r] = "retrying"]
  /\ UNCHANGED <<tableVars, locked, batch, published, historyVars>>

(* SET attempts = attempts + 1, ..., status = IF(attempts + 1 >= :max, ...) *)
(* MySQL evaluates the assignments from left to right, so that the second  *)
(* one reads the attempts already incremented.                             *)
TooManyAttempts(e) == attempts[e] + 2 >= MaxPublishAttempts

(* The update has no condition on the status: it writes to whatever the    *)
(* row has become.                                                         *)
WriteRetry(e) ==
  \/ /\ status[e] = "PURGED"
     /\ UNCHANGED tableVars
  \/ /\ status[e] # "PURGED"
     /\ attempts' = [attempts EXCEPT ![e] = @ + 1]
     /\ status' = [status EXCEPT ![e] = IF TooManyAttempts(e) THEN "FAILED" ELSE "PENDING"]
     /\ due' = due \ {e}

MarkRetry(r) ==
  /\ pc[r] = "retrying"
  /\ \E e \in Rows :
       /\ IsNextRow(r, e)
       /\ WriteRetry(e)
       /\ batch' = [batch EXCEPT ![r] = @ \ {e}]
  /\ pc' = [pc EXCEPT ![r] = "publishing"]
  /\ UNCHANGED <<copies, locked, published, historyVars>>

(* The whole batch has been tried: one update for what was confirmed, and  *)
(* none when nothing was.                                                  *)
MarkPublished(r) ==
  /\ pc[r] = "publishing"
  /\ batch[r] = {}
  /\ status' = [e \in Rows |-> IF e \in published[r] /\ status[e] # "PURGED"
                                 THEN "PUBLISHED" ELSE status[e]]
  /\ published' = [published EXCEPT ![r] = {}]
  /\ pc' = [pc EXCEPT ![r] = "sleeping"]
  /\ UNCHANGED <<attempts, due, copies, locked, batch, historyVars>>

-----------------------------------------------------------------------------
(* Failures                                                                *)

Fault == faults < MaxFaults /\ faults' = faults + 1

(* The cycle is over, with whatever it had not written yet. *)
AbandonCycle(r, stage) ==
  /\ pc' = [pc EXCEPT ![r] = stage]
  /\ locked' = [locked EXCEPT ![r] = {}]
  /\ batch' = [batch EXCEPT ![r] = {}]
  /\ published' = [published EXCEPT ![r] = {}]

(* A statement throws out of drainOnce, or the process dies and is started *)
(* again.  Either way an open transaction rolls back.                      *)
LoseCycle(r) ==
  /\ Fault
  /\ pc[r] # "sleeping"
  /\ AbandonCycle(r, "sleeping")
  /\ UNCHANGED <<tableVars, copies, late>>

(* The same, when the statement was executed and only its answer was lost. *)
LoseAnswer(r) ==
  /\ Fault
  /\ \/ /\ pc[r] = "claiming"
        /\ due' = due \ locked[r]
        /\ UNCHANGED <<status, attempts>>
     \/ /\ pc[r] = "retrying"
        /\ \E e \in Rows : IsNextRow(r, e) /\ WriteRetry(e)
  /\ AbandonCycle(r, "sleeping")
  /\ UNCHANGED <<copies, late>>

(* The connection goes while a confirm is awaited, and its callback is     *)
(* never called: publish has no timeout, so that the loop stands still     *)
(* until the process dies, and nothing of this batch is written any more.  *)
Hang(r) ==
  /\ Fault
  /\ pc[r] = "publishing"
  /\ \E e \in Rows :
       /\ IsNextRow(r, e)
       /\ Received(e) \/ UNCHANGED copies
  /\ AbandonCycle(r, "hung")
  /\ UNCHANGED <<tableVars, late>>

-----------------------------------------------------------------------------
(* Time                                                                    *)

Held(r) == locked[r] \union batch[r] \union published[r]

(* A row's available_at comes, perhaps under a batch that is still going   *)
(* on: 50 publishes, each awaiting its confirm, may outlast 30 seconds.    *)
Elapse(e) ==
  /\ status[e] \notin {"NONE", "PURGED"}
  /\ e \notin due
  /\ due' = due \union {e}
  /\ late' = late \union {f \in {e} : \E r \in Relays : f \in Held(r)}
  /\ UNCHANGED <<status, attempts, copies, relayVars, faults>>

(* The hourly purge deletes what was published before the retention period *)
(* began, which is in days: no batch is that old.                          *)
Purge(e) ==
  /\ status[e] = "PUBLISHED"
  /\ \A r \in Relays : e \notin Held(r)
  /\ status' = [status EXCEPT ![e] = "PURGED"]
  /\ UNCHANGED <<attempts, due, copies, relayVars, historyVars>>

-----------------------------------------------------------------------------
Init ==
  /\ status = [e \in Rows |-> "NONE"]
  /\ attempts = [e \in Rows |-> 0]
  /\ due = {}
  /\ copies = [e \in Rows |-> 0]
  /\ pc = [r \in Relays |-> "sleeping"]
  /\ locked = [r \in Relays |-> {}]
  /\ batch = [r \in Relays |-> {}]
  /\ published = [r \in Relays |-> {}]
  /\ faults = 0
  /\ late = {}

Cycle(r) ==
  \/ SelectBatch(r) \/ ReserveBatch(r) \/ PublishConfirmed(r) \/ PublishError(r)
  \/ MarkRetry(r) \/ MarkPublished(r)

Next ==
  \/ \E r \in Relays : Cycle(r) \/ LoseCycle(r) \/ LoseAnswer(r) \/ Hang(r)
  \/ \E e \in Rows : Append(e) \/ Elapse(e) \/ Purge(e)

(* A relay's loop goes on while the process runs and no confirm is lost,   *)
(* and time passes.  A relay that hangs need not be started again.         *)
Fairness ==
  /\ \A r \in Relays : WF_vars(Cycle(r))
  /\ \A e \in Rows : WF_vars(Elapse(e))

Spec == Init /\ [][Next]_vars /\ Fairness

-----------------------------------------------------------------------------
(* Properties                                                              *)

(* Types.                                                                  *)
TypeOK ==
  /\ status \in [Rows -> {"NONE", "PENDING", "PUBLISHED", "FAILED", "PURGED"}]
  /\ attempts \in [Rows -> Nat]
  /\ due \subseteq Rows
  /\ copies \in [Rows -> 0..2]
  /\ pc \in [Relays -> {"sleeping", "claiming", "publishing", "retrying", "hung"}]
  /\ locked \in [Relays -> SUBSET Rows]
  /\ batch \in [Relays -> SUBSET Rows]
  /\ published \in [Relays -> SUBSET Rows]
  /\ faults \in 0..MaxFaults
  /\ late \subseteq Rows

(* ADR-005: the replicas' batches are disjoint, from the moment the rows   *)
(* are locked until the last one is marked, but for the rows whose claim   *)
(* ran out meanwhile (claimBatch).                                         *)
BatchesAreDisjoint ==
  \A r, s \in Relays : r # s => Held(r) \intersect Held(s) \subseteq late

(* As long as nothing fails and no claim runs out, two relays publish an   *)
(* event once: a second copy is the price of a lost confirm, a crash, a    *)
(* failed statement or a batch that took too long (claimBatch, publish).   *)
DuplicateNeedsFailure ==
  \A e \in Rows : copies[e] > 1 => attempts[e] > 0 \/ faults > 0 \/ e \in late

(* The second case is enough by itself: docs/ARCHITECTURE.md:1559 has SKIP *)
(* LOCKED prevent that two relays publish the same message.                *)
PublishedByOneRelay ==
  \A e \in Rows : copies[e] > 1 => attempts[e] > 0 \/ faults > 0

(* PUBLISHED means that the broker has confirmed the event (markPublished  *)
(* comes after the confirms).                                              *)
PublishedMeansConfirmed ==
  \A e \in Rows : status[e] \in {"PUBLISHED", "PURGED"} => copies[e] > 0

Out(e) == status[e] \in {"PUBLISHED", "PURGED"}


(* markRetry does not look at the status, but a retry of one relay reopens *)
(* or fails what another has published only when the claim of that very    *)
(* row ran out under the first (claimBatch, markRetry).                    *)
ReopenedOnlyWhenLate == [][\A e \in Rows : Out(e) /\ ~Out(e)' => e \in late]_vars

(* docs/ARCHITECTURE.md:761: an event is FAILED when it has used up        *)
(* MAX_PUBLISH_ATTEMPTS.                                                   *)
FailedAfterMaxAttempts ==
  \A e \in Rows : status[e] = "FAILED" => attempts[e] >= MaxPublishAttempts

AllHang == \A r \in Relays : pc[r] = "hung"

(* Every committed event is published or visibly given up in the end, once *)
(* processes and statements stop failing, unless a lost confirm has every  *)
(* relay waiting for ever: no row is left claimed by nobody (claimBatch,   *)
(* run).                                                                   *)
EveryEventSettles ==
  \A e \in Rows :
    status[e] = "PENDING" ~> (status[e] \in {"PUBLISHED", "FAILED", "PURGED"} \/ AllHang)

(* The relays together are an EventOutbox. *)
Fate(e) ==
  CASE status[e] = "NONE" -> "none"
    [] status[e] = "PENDING" -> "waiting"
    [] status[e] = "FAILED" -> "abandoned"
    [] OTHER -> "published"

Outbox == INSTANCE EventOutbox
            WITH fate <- [e \in Rows |-> Fate(e)],
                 delivered <- {e \in Rows : copies[e] > 0},
                 overrun <- late
ImplementsOutbox == Outbox!Spec
=============================================================================
