--------------------------- MODULE OutboxRelayProofs ---------------------------
(***************************************************************************)
(* What TLAPS proves about OutboxRelay, for any number of rows, relays,    *)
(* attempts and failures, and any batch size.                              *)
(***************************************************************************)
EXTENDS OutboxRelay, TLAPS

-----------------------------------------------------------------------------
(* What holds of a cycle, however long it takes                            *)

(* A relay holds rows only in the part of its cycle that deals with them,  *)
(* and what it holds is in the table.                                      *)
CycleInv ==
  \A r \in Relays :
    /\ locked[r] # {} => pc[r] = "claiming"
    /\ batch[r] # {} \/ published[r] # {} => pc[r] \in {"publishing", "retrying"}
    /\ batch[r] \intersect published[r] = {}
    /\ \A e \in Held(r) : status[e] \notin {"NONE", "PURGED"}
    /\ \A e \in published[r] : copies[e] > 0

(* An event that was given up has no attempt left: it is not waiting again *)
(* after a late retry.                                                     *)
FailedInv == \A e \in Rows : status[e] = "FAILED" => TooManyAttempts(e)

RelayInv == TypeOK /\ CycleInv /\ PublishedMeansConfirmed /\ FailedInv

(* A batch is a choice among the claimable rows. *)
LEMMA BatchIsClaimable ==
  ASSUME NEW S \in SUBSET Rows
  PROVE  Oldest(S) \subseteq S
  BY DEF Oldest

(* A received copy counts. *)
LEMMA ReceivedCounts ==
  ASSUME TypeOK, NEW e \in Rows, Received(e)
  PROVE  /\ copies' \in [Rows -> 0..2] /\ copies'[e] > 0
         /\ \A f \in Rows \ {e} : copies'[f] = copies[f]
  BY DEF TypeOK, Received

(* Types are kept by every step. *)
LEMMA TypeStep ==
  ASSUME TypeOK, [Next]_vars
  PROVE  TypeOK'
<1> USE DEF TypeOK
<1>1. ASSUME NEW e \in Rows, Append(e) \/ Elapse(e) \/ Purge(e) PROVE TypeOK'
  BY <1>1 DEF Append, Elapse, Purge, relayVars, historyVars
<1>2. ASSUME NEW r \in Relays, SelectBatch(r) PROVE TypeOK'
  <2>1. Oldest({e \in Rows : Claimable(e)}) \subseteq Rows
    BY DEF Oldest
  <2> QED
    BY <1>2, <2>1 DEF SelectBatch, tableVars, historyVars
<1>3. ASSUME NEW r \in Relays, ReserveBatch(r) PROVE TypeOK'
  BY <1>3 DEF ReserveBatch, historyVars
<1>4. ASSUME NEW r \in Relays, PublishConfirmed(r) PROVE TypeOK'
  BY <1>4, ReceivedCounts DEF PublishConfirmed, tableVars, historyVars
<1>5. ASSUME NEW r \in Relays, PublishError(r) PROVE TypeOK'
  BY <1>5, ReceivedCounts DEF PublishError, tableVars, historyVars
<1>6. ASSUME NEW r \in Relays, MarkRetry(r) PROVE TypeOK'
  BY <1>6 DEF MarkRetry, WriteRetry, tableVars, historyVars
<1>7. ASSUME NEW r \in Relays, MarkPublished(r) PROVE TypeOK'
  BY <1>7 DEF MarkPublished, historyVars
<1>8. ASSUME NEW r \in Relays, LoseCycle(r) PROVE TypeOK'
  BY <1>8, RelayAssumption DEF LoseCycle, AbandonCycle, Fault, tableVars
<1>9. ASSUME NEW r \in Relays, LoseAnswer(r) PROVE TypeOK'
  <2>1. /\ status' \in [Rows -> {"NONE", "PENDING", "PUBLISHED", "FAILED", "PURGED"}]
        /\ attempts' \in [Rows -> Nat] /\ due' \subseteq Rows /\ copies' = copies
    BY <1>9 DEF LoseAnswer, WriteRetry, tableVars
  <2>2. faults' \in 0..MaxFaults
    BY <1>9, RelayAssumption DEF LoseAnswer, Fault
  <2> QED
    BY <1>9, <2>1, <2>2 DEF LoseAnswer, AbandonCycle
<1>10. ASSUME NEW r \in Relays, Hang(r) PROVE TypeOK'
  BY <1>10, ReceivedCounts, RelayAssumption DEF Hang, AbandonCycle, Fault, tableVars
<1>11. CASE UNCHANGED vars
  BY <1>11 DEF vars, tableVars, relayVars, historyVars
<1> QED
  BY <1>1, <1>2, <1>3, <1>4, <1>5, <1>6, <1>7, <1>8, <1>9, <1>10, <1>11 DEF Next, Cycle

(* A retry writes one row, which stays in the table and waits again only   *)
(* while it has attempts left.                                             *)
LEMMA RetryKeeps ==
  ASSUME RelayInv, NEW r \in Relays, NEW e \in Rows, IsNextRow(r, e), WriteRetry(e)
  PROVE  /\ FailedInv'
         /\ status'[e] \in {"PENDING", "FAILED"}
         /\ \A f \in Rows \ {e} : status'[f] = status[f]
<1>1. status[e] # "PURGED"
  BY DEF RelayInv, CycleInv, Held, IsNextRow
<1>2. /\ status \in [Rows -> {"NONE", "PENDING", "PUBLISHED", "FAILED", "PURGED"}]
      /\ attempts \in [Rows -> Nat]
  BY DEF RelayInv, TypeOK
<1>3. /\ attempts' = [attempts EXCEPT ![e] = @ + 1]
      /\ status' = [status EXCEPT ![e] = IF TooManyAttempts(e) THEN "FAILED" ELSE "PENDING"]
  BY <1>1 DEF WriteRetry
<1>4. \A f \in Rows \ {e} : status'[f] = status[f] /\ attempts'[f] = attempts[f]
  BY <1>2, <1>3
<1>5. status'[e] = "FAILED" => attempts'[e] + 2 >= MaxPublishAttempts
  BY <1>2, <1>3, RelayAssumption DEF TooManyAttempts
<1>6. FailedInv'
  BY <1>4, <1>5 DEF RelayInv, FailedInv, TooManyAttempts
<1> QED
  BY <1>2, <1>3, <1>4, <1>6

(* So is the consistency of a cycle. *)
LEMMA CycleStep ==
  ASSUME RelayInv, [Next]_vars
  PROVE  CycleInv' /\ PublishedMeansConfirmed' /\ FailedInv'
<1> DEFINE Kept == CycleInv' /\ PublishedMeansConfirmed' /\ FailedInv'
<1> USE DEF RelayInv, TypeOK, CycleInv, PublishedMeansConfirmed, FailedInv, TooManyAttempts, Held
<1>1. ASSUME NEW e \in Rows, Append(e) \/ Elapse(e) \/ Purge(e)
      PROVE  Kept
  BY <1>1 DEF Append, Elapse, Purge, relayVars
<1>2. ASSUME NEW r \in Relays, SelectBatch(r) PROVE Kept
  <2>1. \A e \in locked'[r] : e \in Rows /\ status[e] = "PENDING"
    BY <1>2 DEF SelectBatch, Oldest, Claimable
  <2> QED
    BY <1>2, <2>1 DEF SelectBatch, tableVars
<1>3. ASSUME NEW r \in Relays, ReserveBatch(r) PROVE Kept
  BY <1>3 DEF ReserveBatch
<1>4. ASSUME NEW r \in Relays, PublishConfirmed(r) PROVE Kept
  BY <1>4, ReceivedCounts DEF PublishConfirmed, IsNextRow, tableVars
<1>5. ASSUME NEW r \in Relays, PublishError(r) PROVE Kept
  BY <1>5, ReceivedCounts DEF PublishError, tableVars
<1>6. ASSUME NEW r \in Relays, MarkRetry(r) PROVE Kept
  <2>1. PICK e \in Rows : IsNextRow(r, e) /\ WriteRetry(e)
                          /\ batch' = [batch EXCEPT ![r] = @ \ {e}]
    BY <1>6 DEF MarkRetry
  <2>2. /\ FailedInv' /\ status'[e] \in {"PENDING", "FAILED"}
        /\ \A f \in Rows \ {e} : status'[f] = status[f]
    BY <2>1, RetryKeeps
  <2>3. CycleInv' /\ PublishedMeansConfirmed'
    BY <1>6, <2>1, <2>2 DEF MarkRetry
  <2> QED
    BY <2>2, <2>3
<1>7. ASSUME NEW r \in Relays, MarkPublished(r) PROVE Kept
  BY <1>7 DEF MarkPublished
<1>8. ASSUME NEW r \in Relays, LoseCycle(r) PROVE Kept
  BY <1>8 DEF LoseCycle, AbandonCycle, tableVars
<1>9. ASSUME NEW r \in Relays, LoseAnswer(r) PROVE Kept
  <2>1. CASE UNCHANGED <<status, attempts>>
    BY <1>9, <2>1 DEF LoseAnswer, AbandonCycle
  <2>2. ASSUME NEW e \in Rows, IsNextRow(r, e), WriteRetry(e) PROVE Kept
    <3>1. /\ FailedInv' /\ status'[e] \in {"PENDING", "FAILED"}
          /\ \A f \in Rows \ {e} : status'[f] = status[f]
      BY <2>2, RetryKeeps
    <3>2. CycleInv' /\ PublishedMeansConfirmed'
      BY <1>9, <3>1 DEF LoseAnswer, AbandonCycle
    <3> QED
      BY <3>1, <3>2
  <2> QED
    BY <1>9, <2>1, <2>2 DEF LoseAnswer
<1>10. ASSUME NEW r \in Relays, Hang(r) PROVE Kept
  BY <1>10, ReceivedCounts DEF Hang, AbandonCycle, tableVars
<1>11. ASSUME UNCHANGED vars PROVE Kept
  BY <1>11 DEF vars, tableVars, relayVars
<1> HIDE DEF Kept
<1>12. Kept
  BY <1>1, <1>2, <1>3, <1>4, <1>5, <1>6, <1>7, <1>8, <1>9, <1>10, <1>11 DEF Next, Cycle
<1> QED
  BY <1>12 DEF Kept

(* Whatever the number of relays, however slow their batches and whatever  *)
(* fails, the cycles are consistent.                                       *)
THEOREM RelayInvariant == Spec => []RelayInv
<1>1. Init => RelayInv
  BY RelayAssumption DEF Init, RelayInv, TypeOK, CycleInv, PublishedMeansConfirmed, FailedInv, Held
<1>2. RelayInv /\ [Next]_vars => RelayInv'
  BY TypeStep, CycleStep DEF RelayInv
<1> QED
  BY <1>1, <1>2, PTL DEF Spec

(* Every reachable state is well typed. *)
THEOREM RelayTypeCorrect == Spec => []TypeOK
<1>1. RelayInv => TypeOK
  BY DEF RelayInv
<1> QED
  BY <1>1, RelayInvariant, PTL

(* No row is PUBLISHED before the broker has confirmed it, even when two   *)
(* relays work on it at once: the outbox loses no event.                   *)
THEOREM PublishedWasConfirmed == Spec => []PublishedMeansConfirmed
<1>1. RelayInv => PublishedMeansConfirmed
  BY DEF RelayInv
<1> QED
  BY <1>1, RelayInvariant, PTL

-----------------------------------------------------------------------------
(* What holds of the rows whose claim has not run out under their batch    *)

(* A row that is locked or claimed is one relay's alone, stays PENDING,    *)
(* and once it is claimed it is not due, until its claim runs out.         *)
ClaimInv ==
  /\ BatchesAreDisjoint
  /\ \A r \in Relays :
       /\ \A e \in Held(r) \ late : status[e] = "PENDING"
       /\ \A e \in (batch[r] \union published[r]) \ late : e \notin due

(* As long as nothing fails, an event the broker has is on its way to      *)
(* being marked, and was sent once.                                        *)
SentInv ==
  \A e \in Rows \ late :
    copies[e] > 0 /\ attempts[e] = 0 /\ faults = 0 =>
      /\ copies[e] = 1
      /\ \/ status[e] \in {"PUBLISHED", "PURGED"}
         \/ \E r \in Relays :
              e \in published[r] \/ (pc[r] = "retrying" /\ IsNextRow(r, e))

(* A claim excludes the other relays for as long as the batch lasts. *)
LEMMA ClaimStep ==
  ASSUME RelayInv, ClaimInv, [Next]_vars
  PROVE  ClaimInv'
<1> USE DEF RelayInv, TypeOK, CycleInv, ClaimInv, BatchesAreDisjoint, Held
<1>1. ASSUME NEW e \in Rows, Append(e) \/ Elapse(e) \/ Purge(e) PROVE ClaimInv'
  BY <1>1 DEF Append, Elapse, Purge, relayVars, historyVars
<1>2. ASSUME NEW r \in Relays, SelectBatch(r) PROVE ClaimInv'
  <2>1. /\ \A e \in locked'[r] : e \in Rows /\ Claimable(e)
        /\ \A s \in Relays \ {r} : locked'[s] = locked[s]
        /\ batch[r] = {} /\ published[r] = {}
    BY <1>2 DEF SelectBatch, Oldest
  <2>2. \A e \in locked'[r] \ late, s \in Relays \ {r} : e \notin Held(s)
    BY <2>1 DEF Claimable
  <2>3. UNCHANGED <<status, due, batch, published, late>>
    BY <1>2 DEF SelectBatch, tableVars, historyVars
  <2>4. \A e \in locked'[r] : status[e] = "PENDING"
    BY <2>1 DEF Claimable
  <2> QED
    BY <2>1, <2>2, <2>3, <2>4
<1>3. ASSUME NEW r \in Relays, ReserveBatch(r) PROVE ClaimInv'
  BY <1>3 DEF ReserveBatch, historyVars
<1>4. ASSUME NEW r \in Relays, PublishConfirmed(r) PROVE ClaimInv'
  BY <1>4 DEF PublishConfirmed, IsNextRow, tableVars, historyVars
<1>5. ASSUME NEW r \in Relays, PublishError(r) PROVE ClaimInv'
  BY <1>5 DEF PublishError, tableVars, historyVars
<1>6. ASSUME NEW r \in Relays, MarkRetry(r) PROVE ClaimInv'
  BY <1>6 DEF MarkRetry, WriteRetry, IsNextRow, tableVars, historyVars
<1>7. ASSUME NEW r \in Relays, MarkPublished(r) PROVE ClaimInv'
  BY <1>7 DEF MarkPublished, historyVars
<1>8. ASSUME NEW r \in Relays, LoseCycle(r) PROVE ClaimInv'
  BY <1>8 DEF LoseCycle, AbandonCycle, tableVars
<1>9. ASSUME NEW r \in Relays, LoseAnswer(r) PROVE ClaimInv'
  BY <1>9 DEF LoseAnswer, AbandonCycle, WriteRetry, IsNextRow, tableVars
<1>10. ASSUME NEW r \in Relays, Hang(r) PROVE ClaimInv'
  BY <1>10 DEF Hang, AbandonCycle, tableVars
<1>11. CASE UNCHANGED vars
  BY <1>11 DEF vars, tableVars, relayVars, historyVars
<1> QED
  BY <1>1, <1>2, <1>3, <1>4, <1>5, <1>6, <1>7, <1>8, <1>9, <1>10, <1>11 DEF Next, Cycle

(* Each copy is accounted for. *)
LEMMA SentStep ==
  ASSUME RelayInv, ClaimInv, SentInv, [Next]_vars
  PROVE  SentInv'
<1> USE DEF RelayInv, TypeOK, CycleInv, ClaimInv, BatchesAreDisjoint, Held, SentInv
<1>1. ASSUME NEW e \in Rows, Append(e) \/ Elapse(e) \/ Purge(e) PROVE SentInv'
  BY <1>1 DEF Append, Elapse, Purge, IsNextRow, relayVars, historyVars
<1>2. ASSUME NEW r \in Relays, SelectBatch(r) PROVE SentInv'
  BY <1>2 DEF SelectBatch, IsNextRow, tableVars, historyVars
<1>3. ASSUME NEW r \in Relays, ReserveBatch(r) PROVE SentInv'
  BY <1>3 DEF ReserveBatch, IsNextRow, historyVars
<1>4. ASSUME NEW r \in Relays, PublishConfirmed(r) PROVE SentInv'
  BY <1>4 DEF PublishConfirmed, Received, IsNextRow, tableVars, historyVars
<1>5. ASSUME NEW r \in Relays, PublishError(r) PROVE SentInv'
  BY <1>5 DEF PublishError, Received, IsNextRow, tableVars, historyVars
<1>6. ASSUME NEW r \in Relays, MarkRetry(r) PROVE SentInv'
  <2>1. PICK e \in Rows : /\ IsNextRow(r, e) /\ WriteRetry(e)
                          /\ batch' = [batch EXCEPT ![r] = @ \ {e}]
    BY <1>6 DEF MarkRetry
  <2>2. status[e] # "PURGED" /\ attempts'[e] = attempts[e] + 1 /\ attempts'[e] # 0
    BY <2>1 DEF WriteRetry, IsNextRow
  <2>3. \A f \in Rows \ {e} : attempts'[f] = attempts[f] /\ status'[f] = status[f]
    BY <2>1, <2>2 DEF WriteRetry
  <2>4. /\ UNCHANGED <<copies, published, faults, late>>
        /\ \A s \in Relays \ {r} : pc'[s] = pc[s] /\ batch'[s] = batch[s]
    BY <1>6, <2>1 DEF MarkRetry, historyVars
  <2>5. \A f \in Rows \ {e} : ~IsNextRow(r, f)
    BY <2>1, RelayAssumption DEF IsNextRow
  <2> QED
    BY <2>2, <2>3, <2>4, <2>5 DEF IsNextRow
<1>7. ASSUME NEW r \in Relays, MarkPublished(r) PROVE SentInv'
  BY <1>7 DEF MarkPublished, IsNextRow, historyVars
<1>8. ASSUME NEW r \in Relays, LoseCycle(r) \/ LoseAnswer(r) \/ Hang(r) PROVE SentInv'
  BY <1>8, RelayAssumption DEF LoseCycle, LoseAnswer, Hang, Fault
<1>9. CASE UNCHANGED vars
  BY <1>9 DEF vars, tableVars, relayVars, historyVars, IsNextRow
<1> QED
  BY <1>1, <1>2, <1>3, <1>4, <1>5, <1>6, <1>7, <1>8, <1>9 DEF Next, Cycle

(* The claims of different relays overlap only in rows that ran out. *)
THEOREM ClaimsExclude == Spec => []ClaimInv
<1>1. Init => ClaimInv
  BY DEF Init, ClaimInv, BatchesAreDisjoint, Held
<1>2. RelayInv /\ ClaimInv /\ [Next]_vars => ClaimInv'
  BY ClaimStep
<1> QED
  BY <1>1, <1>2, RelayInvariant, PTL DEF Spec

(* ADR-005: two relays never hold the same row, locked, claimed or waiting *)
(* to be marked, whose claim has not run out under one of them.            *)
THEOREM BatchesNeverOverlap == Spec => []BatchesAreDisjoint
<1>1. ClaimInv => BatchesAreDisjoint
  BY DEF ClaimInv
<1> QED
  BY <1>1, ClaimsExclude, PTL

(* Whatever the number of relays, an event goes out twice only after a     *)
(* failure, or when its claim has run out under the batch it was in.       *)
THEOREM NoDuplicateWithoutFailure == Spec => []DuplicateNeedsFailure
<1>1. Init => SentInv
  BY DEF Init, SentInv
<1>2. RelayInv /\ ClaimInv /\ SentInv /\ [Next]_vars => SentInv'
  BY SentStep
<1>3. RelayInv /\ SentInv => DuplicateNeedsFailure
  BY DEF RelayInv, TypeOK, SentInv, DuplicateNeedsFailure
<1> QED
  BY <1>1, <1>2, <1>3, RelayInvariant, ClaimsExclude, PTL DEF Spec

(* The UPDATE of a retry does not look at the status, and yet it reopens   *)
(* no row that was published, whatever fails, but one whose claim has run  *)
(* out under the relay that retries.                                       *)
THEOREM OnlyLateRetriesReopen == Spec => ReopenedOnlyWhenLate
<1> DEFINE Kept == \A e \in Rows : Out(e) /\ ~Out(e)' => e \in late
<1>1. RelayInv /\ ClaimInv /\ [Next]_vars => Kept
  <2> SUFFICES ASSUME RelayInv, ClaimInv, [Next]_vars PROVE Kept
    OBVIOUS
  <2> USE DEF RelayInv, TypeOK, ClaimInv, Held, Out
  <2>1. ASSUME NEW e \in Rows, Append(e) \/ Elapse(e) \/ Purge(e) PROVE Kept
    BY <2>1 DEF Append, Elapse, Purge
  <2>2. ASSUME NEW r \in Relays, MarkRetry(r) \/ LoseAnswer(r) PROVE Kept
    BY <2>2 DEF MarkRetry, LoseAnswer, WriteRetry, IsNextRow, tableVars
  <2>3. ASSUME NEW r \in Relays, MarkPublished(r) PROVE Kept
    BY <2>3 DEF MarkPublished
  <2>4. CASE UNCHANGED status
    BY <2>4
  <2> QED
    BY <2>1, <2>2, <2>3, <2>4 DEF Next, Cycle, SelectBatch, ReserveBatch, PublishConfirmed,
       PublishError, LoseCycle, Hang, tableVars, vars
<1>2. RelayInv /\ ClaimInv /\ [Next]_vars => [Kept]_vars
  BY <1>1
<1> QED
  BY <1>2, RelayInvariant, ClaimsExclude, PTL DEF Spec, ReopenedOnlyWhenLate

-----------------------------------------------------------------------------
(* The outbox                                                              *)

(* What a relay works on is open: it waits, or its claim has run out. *)
LEMMA HeldIsOpen ==
  ASSUME RelayInv, ClaimInv, NEW r \in Relays, NEW e \in Held(r)
  PROVE  /\ e \in Rows /\ status[e] \notin {"NONE", "PURGED"}
         /\ status[e] = "PENDING" \/ e \in late
         /\ Fate(e) = "waiting" \/ (e \in late /\ Fate(e) # "none")
<1>1. e \in Rows /\ status[e] \notin {"NONE", "PURGED"}
  BY DEF RelayInv, TypeOK, CycleInv, Held
<1>2. status[e] = "PENDING" \/ e \in late
  BY DEF ClaimInv
<1> QED
  BY <1>1, <1>2 DEF Fate

(* A retry leaves the event waiting or gives it up, or reopens it when its *)
(* claim has run out.                                                      *)
LEMMA RetryImplementsOutbox ==
  ASSUME RelayInv, ClaimInv, NEW r \in Relays, NEW e \in Rows,
         IsNextRow(r, e), WriteRetry(e), UNCHANGED <<copies, late>>
  PROVE  [Outbox!Next]_(Outbox!vars)
<1> DEFINE fate == [f \in Rows |-> Fate(f)]
           delivered == {f \in Rows : copies[f] > 0}
<1>1. /\ status \in [Rows -> {"NONE", "PENDING", "PUBLISHED", "FAILED", "PURGED"}]
      /\ attempts \in [Rows -> Nat]
  BY DEF RelayInv, TypeOK
<1>2. e \in Held(r)
  BY DEF Held, IsNextRow
<1>3. /\ status[e] \notin {"NONE", "PURGED"}
      /\ fate[e] = "waiting" \/ (e \in late /\ fate[e] # "none")
      /\ status[e] = "PENDING" \/ e \in late
  BY <1>2, HeldIsOpen
<1>4. delivered' = delivered /\ late' = late
  OBVIOUS
<1>5. CASE status' = [status EXCEPT ![e] = "FAILED"]
  <2>1. fate' = [fate EXCEPT ![e] = "abandoned"]
    BY <1>1, <1>5 DEF Fate
  <2> QED
    BY <1>3, <1>4, <2>1 DEF Outbox!Next, Outbox!GiveUp, Outbox!Open
<1>6. CASE status' = [status EXCEPT ![e] = "PENDING"] /\ ~TooManyAttempts(e)
  <2>1. status[e] \in {"PENDING", "PUBLISHED"}
    BY <1>1, <1>3, <1>6 DEF RelayInv, FailedInv
  <2>2. CASE status[e] = "PENDING"
    <3>1. status' = status
      BY <1>1, <1>6, <2>2
    <3> QED
      BY <1>4, <3>1 DEF Outbox!vars, Fate
  <2>3. CASE status[e] = "PUBLISHED"
    <3>1. fate[e] = "published" /\ e \in late
      BY <1>3, <2>3 DEF Fate
    <3>2. fate' = [fate EXCEPT ![e] = "waiting"]
      BY <1>1, <1>6 DEF Fate
    <3> QED
      BY <1>4, <3>1, <3>2 DEF Outbox!Next, Outbox!Reopen
  <2> QED
    BY <2>1, <2>2, <2>3
<1> QED
  BY <1>3, <1>5, <1>6 DEF WriteRetry

(* The broker getting an event of a batch is a delivery. *)
LEMMA ReceivedImplementsOutbox ==
  ASSUME RelayInv, ClaimInv, NEW r \in Relays, NEW e \in Rows,
         IsNextRow(r, e), Received(e), UNCHANGED <<status, late>>
  PROVE  [Outbox!Next]_(Outbox!vars)
<1> DEFINE fate == [f \in Rows |-> Fate(f)]
           delivered == {f \in Rows : copies[f] > 0}
<1>1. e \in Held(r)
  BY DEF Held, IsNextRow
<1>2. /\ fate[e] = "waiting" \/ (e \in late /\ fate[e] # "none")
      /\ fate' = fate
  BY <1>1, HeldIsOpen DEF Fate
<1>3. delivered' = delivered \union {e}
  BY ReceivedCounts DEF RelayInv
<1> QED
  BY <1>2, <1>3 DEF Outbox!Next, Outbox!Deliver, Outbox!Open

(* A step of the relays is a step of the outbox, or none. *)
LEMMA StepImplementsOutbox ==
  ASSUME RelayInv, ClaimInv, [Next]_vars
  PROVE  [Outbox!Next]_(Outbox!vars)
<1> DEFINE fate == [f \in Rows |-> Fate(f)]
           delivered == {f \in Rows : copies[f] > 0}
<1>1. status \in [Rows -> {"NONE", "PENDING", "PUBLISHED", "FAILED", "PURGED"}]
  BY DEF RelayInv, TypeOK
<1>2. CASE UNCHANGED <<status, copies, late>>
  BY <1>2 DEF Outbox!vars, Fate
<1>3. ASSUME NEW e \in Rows, Append(e) PROVE [Outbox!Next]_(Outbox!vars)
  <2>1. /\ fate[e] = "none" /\ fate' = [fate EXCEPT ![e] = "waiting"]
        /\ delivered' = delivered /\ late' = late
    BY <1>1, <1>3 DEF Append, Fate, historyVars
  <2> QED
    BY <2>1 DEF Outbox!Next, Outbox!Append
<1>4. ASSUME NEW e \in Rows, Purge(e) PROVE [Outbox!Next]_(Outbox!vars)
  <2>1. fate' = fate /\ delivered' = delivered /\ late' = late
    BY <1>1, <1>4 DEF Purge, Fate, historyVars
  <2> QED
    BY <2>1 DEF Outbox!vars
<1>5. ASSUME NEW e \in Rows, Elapse(e) PROVE [Outbox!Next]_(Outbox!vars)
  <2>1. fate' = fate /\ delivered' = delivered
    BY <1>5 DEF Elapse, Fate
  <2>2. late' = late \/ late' = late \union {e}
    BY <1>5 DEF Elapse
  <2>3. fate[e] # "none"
    BY <1>5 DEF Elapse, Fate
  <2> QED
    BY <2>1, <2>2, <2>3 DEF Outbox!Next, Outbox!Overrun, Outbox!vars
<1>6. ASSUME NEW r \in Relays, PublishConfirmed(r) \/ PublishError(r) \/ Hang(r)
      PROVE  [Outbox!Next]_(Outbox!vars)
  BY <1>2, <1>6, ReceivedImplementsOutbox
     DEF PublishConfirmed, PublishError, Hang, tableVars, historyVars
<1>7. ASSUME NEW r \in Relays, MarkRetry(r) \/ LoseAnswer(r)
      PROVE  [Outbox!Next]_(Outbox!vars)
  BY <1>2, <1>7, RetryImplementsOutbox DEF MarkRetry, LoseAnswer, historyVars
<1>8. ASSUME NEW r \in Relays, MarkPublished(r) PROVE [Outbox!Next]_(Outbox!vars)
  <2>1. \A e \in published[r] :
          /\ e \in Rows /\ status[e] # "PURGED" /\ copies[e] > 0
          /\ Fate(e) = "waiting" \/ (e \in late /\ Fate(e) # "none")
    BY HeldIsOpen DEF RelayInv, TypeOK, CycleInv, Held
  <2>2. /\ published[r] \in SUBSET delivered
        /\ \A e \in published[r] : fate[e] = "waiting" \/ (e \in late /\ fate[e] # "none")
    BY <2>1
  <2>3. fate' = [e \in Rows |-> IF e \in published[r] THEN "published" ELSE fate[e]]
    BY <1>1, <1>8, <2>1 DEF MarkPublished, Fate
  <2>4. delivered' = delivered /\ late' = late
    BY <1>8 DEF MarkPublished, historyVars
  <2> QED
    BY <2>2, <2>3, <2>4 DEF Outbox!Next, Outbox!Settle, Outbox!Open
<1> QED
  BY <1>2, <1>3, <1>4, <1>5, <1>6, <1>7, <1>8 DEF Next, Cycle, SelectBatch, ReserveBatch,
     LoseCycle, tableVars, historyVars, vars

(* Whatever the number of relays and the failures, the table and the       *)
(* broker move as EventOutbox says: an event is delivered before it counts *)
(* as published, and it is settled once unless its claim ran out.          *)
THEOREM RefinesOutbox == Spec => ImplementsOutbox
<1>1. Init => Outbox!Init
  BY DEF Init, Outbox!Init, Fate
<1>2. RelayInv /\ ClaimInv /\ [Next]_vars => [Outbox!Next]_(Outbox!vars)
  BY StepImplementsOutbox
<1> QED
  BY <1>1, <1>2, RelayInvariant, ClaimsExclude, PTL DEF Spec, ImplementsOutbox, Outbox!Spec
=============================================================================
