----------------------------- MODULE OrderApiProofs -----------------------------
(***************************************************************************)
(* What TLAPS proves about OrderApi, for any orders, requests, tokens,     *)
(* pool, page size, faults and failures.                                   *)
(***************************************************************************)
EXTENDS OrderApi, FiniteSetTheorems, TLAPS

-----------------------------------------------------------------------------
(* The inductive invariant.                                                *)

(* A request at work is one that was asked, about an order if it changes   *)
(* one.                                                                    *)
CallInv ==
  \A r \in Calls : call[r].stage # "idle" =>
    /\ call[r].q \in Asked
    /\ call[r].q.route = "reprocess" => call[r].q.order \in Ids
    /\ call[r].since <= faults

Borrowers == {r \in Calls : call[r].stage = "begun" /\ ConnectionOf(call[r].q.route) = "pool"}

(* A connection is free, or with one request, or with one query runner, or *)
(* nobody's after a transaction that could not begin.                      *)
PoolInv == free + Cardinality(Borrowers) + Cardinality(Keepers) + leaked = PoolSize

(* The places, from the newest order on, that the walk is done with.       *)
Covered == IF walk.stage = "rows" THEN Skip(walk.page) ELSE Skip(walk.page + 1)

(* Of the orders there were at the start, those the walk has not seen are  *)
(* still ahead of it: what is created meanwhile only moves them back.      *)
Reached(t, seen, initial, upto) ==
  /\ initial \subseteq InScope(t) /\ seen \subseteq InScope(t)
  /\ \A o \in initial : Rank(o, InScope(t)) < upto => o \in seen

WalkInv ==
  /\ walk = [stage |-> walk.stage, token |-> walk.token, page |-> walk.page,
             seen |-> walk.seen, initial |-> walk.initial]
  /\ walk.stage \in {"rows", "total"} =>
       /\ walk.page \in Nat \ {0}
       /\ Reached(walk.token, walk.seen, walk.initial, Covered)
  /\ walk.stage = "done" =>
       walk.initial \subseteq walk.seen /\ walk.seen \subseteq InScope(walk.token)

(* A request whose connection is gone has met a fault since it arrived.    *)
CauseInv ==
  \A r \in Calls : call[r].stage = "broken" => faults > call[r].since

IInv == TypeOK /\ CallInv /\ PoolInv /\ WalkInv /\ CauseInv /\ AcceptedIsUnderWay

-----------------------------------------------------------------------------
(* Pages                                                                   *)

(* Pages lie next to each other. *)
LEMMA SkipFacts ==
  ASSUME NEW page \in Nat
  PROVE  Skip(page) \in Int /\ Skip(page + 1) = Skip(page) + Limit
  BY ApiAssumption DEF Skip

(* The last page reaches the last row. *)
LEMMA LastPageIsEnough ==
  ASSUME NEW page \in Nat, NEW total \in Nat, page >= TotalPages(total)
  PROVE  total <= Skip(page + 1)
  BY ApiAssumption DEF TotalPages, Skip

(* An order's rank counts those before it, itself not among them. *)
LEMMA RankFacts ==
  ASSUME orders \in [Ids -> Row], NEW S \in SUBSET Ids, NEW o \in Ids
  PROVE  /\ Rank(o, S) \in Nat
         /\ Cardinality(S) \in Nat
         /\ o \in S => Rank(o, S) < Cardinality(S)
<1> DEFINE B == {p \in S : ComesBefore(p, o)}
<1>1. IsFiniteSet(S)
  BY ApiAssumption, FS_Subset
<1>2. IsFiniteSet(B) /\ Cardinality(B) \in Nat /\ Cardinality(S) \in Nat
  BY <1>1, FS_Subset, FS_CardinalityType
<1>3. ASSUME o \in S PROVE Cardinality(B) < Cardinality(S)
  <2>1. o \in Nat /\ orders[o].at \in Nat
    BY ApiAssumption DEF Row, RowsOf
  <2>2. o \notin B
    BY <2>1 DEF ComesBefore
  <2>3. B \subseteq S \ {o}
    BY <2>2
  <2>4. IsFiniteSet(S \ {o}) /\ Cardinality(S \ {o}) = Cardinality(S) - 1
    BY <1>1, <1>3, FS_RemoveElement
  <2>5. Cardinality(B) <= Cardinality(S \ {o})
    BY <2>3, <2>4, FS_Subset
  <2> QED
    BY <1>2, <2>4, <2>5
<1> QED
  BY <1>2, <1>3 DEF Rank

-----------------------------------------------------------------------------
(* Rows                                                                    *)

(* A row that is there stays, with its owner and its place in the list. *)
RowsStay ==
  /\ orders' \in [Ids -> Row]
  /\ \A o \in Ids : orders[o].status # "ABSENT" =>
       /\ orders'[o].status # "ABSENT"
       /\ orders'[o].owner = orders[o].owner /\ orders'[o].at = orders[o].at

(* What commits is one order, taken from where the request found it. *)
Written(r, o) ==
  /\ orders[o].status = IF call[r].q.route = "create" THEN "ABSENT" ELSE "FAILED"
  /\ orders'[o].status = "PENDING" /\ orders'[o].event = "carried"
  /\ \A p \in Ids \ {o} : orders'[p] = orders[p]

(* A transaction that commits has found its order as it must be. *)
LEMMA WritesFacts ==
  ASSUME TypeOK, CallInv, NEW r \in Calls, Serving(r, "begun", {"create", "reprocess"}),
         Thrown(r) = {}, Writes(r)
  PROVE  RowsStay /\ \E o \in Ids : Written(r, o)
<1> DEFINE q == call[r].q
<1>1. /\ q \in Asked /\ q.route \in {"create", "reprocess"}
      /\ q.route = "reprocess" => q.order \in Ids
      /\ call[r] \in Call /\ orders \in [Ids -> Row]
  BY DEF CallInv, Serving, TypeOK
<1>2. call[r].seen \in Statuses /\ call[r].at \in 0..MaxTime
  BY <1>1 DEF Call
<1>3. ASSUME NEW o \in Ids, q.route = "create", orders[o].status = "ABSENT",
             orders' = [orders EXCEPT ![o] =
               [status |-> "PENDING", owner |-> q.token.subject,
                at |-> call[r].at, event |-> "carried"]]
      PROVE  RowsStay /\ Written(r, o)
  <2> DEFINE row == [status |-> "PENDING", owner |-> q.token.subject,
                     at |-> call[r].at, event |-> "carried"]
  <2>1. q.token.subject \in {p.token.subject : p \in Asked}
    BY <1>1
  <2>2. row \in Row
    BY <1>2, <2>1 DEF Row, RowsOf, Statuses
  <2>3. row.status = "PENDING" /\ row.event = "carried"
    OBVIOUS
  <2>4. orders' = [orders EXCEPT ![o] = row]
    BY <1>3
  <2> HIDE DEF row
  <2> QED
    BY <1>1, <1>3, <2>2, <2>3, <2>4 DEF RowsStay, Written
<1>4. ASSUME q.route = "reprocess",
             orders' = [orders EXCEPT ![q.order].status = "PENDING", ![q.order].event = "carried"]
      PROVE  RowsStay /\ Written(r, q.order)
  <2>1. orders[q.order].status = "FAILED"
    BY <1>2, <1>4 DEF Thrown, StillFailed, Statuses
  <2> DEFINE o == q.order
             row == [orders[o] EXCEPT !.status = "PENDING", !.event = "carried"]
  <2>2. /\ o \in Ids /\ orders[o] \in Row
    BY <1>1, <1>4
  <2>3. /\ row \in Row /\ row.status = "PENDING" /\ row.event = "carried"
        /\ row.owner = orders[o].owner /\ row.at = orders[o].at
    BY <2>2 DEF Row, RowsOf, Statuses
  <2>4. orders' = [orders EXCEPT ![o] = row]
    BY <1>1, <1>4, <2>2
  <2> HIDE DEF row
  <2> QED
    BY <1>1, <1>4, <2>1, <2>2, <2>3, <2>4 DEF RowsStay, Written
<1> QED
  BY <1>1, <1>3, <1>4 DEF Writes, NewEvent

(* What a step does to the rows. *)
LEMMA RowsStep ==
  ASSUME TypeOK, CallInv, [Next]_vars
  PROVE  RowsStay /\ mix' = mix
<1>1. orders \in [Ids -> Row]
  BY DEF TypeOK
<1>2. ASSUME NEW r \in Calls, Commit(r) \/ CommitLost(r) PROVE RowsStay /\ mix' = mix
  <2>1. Serving(r, "begun", {"create", "reprocess"}) /\ Thrown(r) = {} /\ Writes(r) /\ mix' = mix
    BY <1>2 DEF Commit, CommitLost
  <2> QED
    BY <2>1, WritesFacts
<1>3. ASSUME NEW o \in Ids, Settle(o) \/ GiveUp(o) PROVE RowsStay /\ mix' = mix
  <2>1. orders[o] \in Row /\ orders[o].status = "PENDING" /\ mix' = mix
    BY <1>1, <1>3 DEF Settle, GiveUp
  <2>2. PICK status \in {"PENDING", "PROCESSED", "FAILED"}, event \in {"done", "givenUp"} :
          orders' = [orders EXCEPT ![o] = [orders[o] EXCEPT !.status = status, !.event = event]]
    <3>1. [orders[o] EXCEPT !.status = "PENDING", !.event = "givenUp"]
            = [orders[o] EXCEPT !.event = "givenUp"]
      BY <2>1 DEF Row, RowsOf
    <3> QED
      BY <1>1, <1>3, <2>1, <3>1 DEF Settle, GiveUp
  <2> DEFINE row == [orders[o] EXCEPT !.status = status, !.event = event]
  <2>3. /\ row \in Row /\ row.status = status
        /\ row.owner = orders[o].owner /\ row.at = orders[o].at
    BY <2>1, <2>2 DEF Row, RowsOf, Statuses
  <2> HIDE DEF row
  <2> QED
    BY <1>1, <2>1, <2>2, <2>3 DEF RowsStay, row
<1>4. CASE UNCHANGED orders /\ mix' = mix
  BY <1>1, <1>4 DEF RowsStay
<1>5. ASSUME NEW r \in Calls, Serve(r), ~Commit(r), ~CommitLost(r)
      PROVE  UNCHANGED orders /\ mix' = mix
  BY <1>5 DEF Serve, Begin, BeginFails, NoConnection, Get, Login, LoginAtKeycloak, Probe, Rollback,
              StatementFails, Break
<1>6. ASSUME \/ \E r \in Calls, q \in mix.asked : Arrive(r, q)
             \/ \E runners \in SUBSET Runners, calls \in SUBSET Calls, strays \in 0..leaked :
                  Lose(runners, calls, strays)
             \/ \E t \in mix.walkers : StartWalk(t)
             \/ WalkOn
      PROVE  UNCHANGED orders /\ mix' = mix
  BY <1>6 DEF Arrive, Lose, StartWalk, WalkOn, ReadRows, ReadTotal, WalkFails
<1> QED
  BY <1>2, <1>3, <1>4, <1>5, <1>6 DEF Next, vars

(* An order that becomes PENDING takes its event with it, and loses it     *)
(* only when it is settled.                                                *)
LEMMA UnderWayStep ==
  ASSUME TypeOK, CallInv, AcceptedIsUnderWay, [Next]_vars
  PROVE  AcceptedIsUnderWay'
<1>1. orders \in [Ids -> Row]
  BY DEF TypeOK
<1>2. ASSUME NEW r \in Calls, Commit(r) \/ CommitLost(r) PROVE AcceptedIsUnderWay'
  <2>1. Serving(r, "begun", {"create", "reprocess"}) /\ Thrown(r) = {} /\ Writes(r)
    BY <1>2 DEF Commit, CommitLost
  <2>2. PICK o \in Ids : Written(r, o)
    BY <2>1, WritesFacts
  <2> QED
    BY <2>2 DEF Written, AcceptedIsUnderWay, UnderWay
<1>3. ASSUME NEW o \in Ids, Settle(o) PROVE AcceptedIsUnderWay'
  <2>1. PICK status \in {"PROCESSED", "FAILED"} :
          orders' = [orders EXCEPT ![o] = [orders[o] EXCEPT !.status = status, !.event = "done"]]
    BY <1>1, <1>3 DEF Settle
  <2>2. orders'[o].status # "PENDING" /\ orders'[o].event = "done"
    BY <1>1, <2>1 DEF Row, RowsOf
  <2> QED
    BY <1>1, <2>1, <2>2 DEF AcceptedIsUnderWay, UnderWay
<1>4. ASSUME NEW o \in Ids, GiveUp(o) PROVE AcceptedIsUnderWay'
  <2>1. /\ orders[o].status = "PENDING"
        /\ orders' = [orders EXCEPT ![o] = [orders[o] EXCEPT !.event = "givenUp"]]
    BY <1>1, <1>4 DEF GiveUp
  <2>2. orders'[o].status = "PENDING" /\ orders'[o].event = "givenUp"
    BY <1>1, <2>1 DEF Row, RowsOf
  <2> QED
    BY <1>1, <2>1, <2>2 DEF AcceptedIsUnderWay, UnderWay
<1>5. CASE UNCHANGED orders
  BY <1>5 DEF AcceptedIsUnderWay, UnderWay
<1>6. ASSUME NEW r \in Calls, Serve(r), ~Commit(r), ~CommitLost(r) PROVE UNCHANGED orders
  BY <1>6 DEF Serve, Begin, BeginFails, NoConnection, Get, Login, LoginAtKeycloak, Probe, Rollback,
              StatementFails, Break
<1> QED
  BY <1>2, <1>3, <1>4, <1>5, <1>6 DEF Next, Arrive, Lose, StartWalk, WalkOn, ReadRows, ReadTotal,
     WalkFails, vars

(* What a reader may see only grows, and what was there keeps its order. *)
LEMMA ScopeGrows ==
  ASSUME TypeOK, CallInv, [Next]_vars, NEW t
  PROVE  /\ InScope(t) \subseteq InScope(t)' /\ InScope(t) \subseteq Ids
         /\ InScope(t)' \subseteq Ids
         /\ \A o \in InScope(t) : Rank(o, InScope(t)) <= Rank(o, InScope(t))'
<1>1. RolesOf(t)' = RolesOf(t)
  BY RowsStep DEF RolesOf, MappedRoles
<1>2. /\ InScope(t) \subseteq InScope(t)' /\ InScope(t) \subseteq Ids
      /\ InScope(t)' \subseteq Ids
  BY <1>1, RowsStep DEF InScope, RowsStay
<1>3. ASSUME NEW o \in InScope(t) PROVE Rank(o, InScope(t)) <= Rank(o, InScope(t))'
  <2> DEFINE B == {p \in InScope(t) : ComesBefore(p, o)}
  <2>1. \A p \in InScope(t) : orders'[p].at = orders[p].at
    BY RowsStep DEF InScope, RowsStay
  <2>2. B \subseteq B'
    BY <1>2, <2>1 DEF ComesBefore
  <2>3. IsFiniteSet(B')
    BY <1>2, ApiAssumption, FS_Subset
  <2>4. Cardinality(B) <= Cardinality(B')
    BY <2>2, <2>3, FS_Subset
  <2> QED
    BY <2>4 DEF Rank
<1> QED
  BY <1>2, <1>3

-----------------------------------------------------------------------------
(* Requests                                                                *)

(* The database's faults are counted. *)
LEMMA FaultsGrow ==
  ASSUME TypeOK, [Next]_vars
  PROVE  faults \in Nat /\ faults' \in 0..MaxFaults /\ faults' >= faults
<1>1. faults \in 0..MaxFaults /\ MaxFaults \in Nat
  BY ApiAssumption DEF TypeOK
<1>2. UNCHANGED faults \/ Fault
  <2>1. ASSUME NEW r \in Calls, Serve(r) PROVE UNCHANGED faults \/ Fault
    BY <2>1 DEF Serve, Begin, BeginFails, NoConnection, Get, Login, LoginAtKeycloak, Probe,
                Rollback, StatementFails, Commit, CommitLost, Break, counts
  <2> QED
    BY <2>1 DEF Next, Arrive, Lose, Settle, GiveUp, StartWalk, WalkOn, ReadRows, ReadTotal,
                WalkFails, counts, vars
<1> QED
  BY <1>1, <1>2 DEF Fault

(* A request is at work on what it asked. *)
LEMMA CallStep ==
  ASSUME TypeOK, CallInv, [Next]_vars
  PROVE  CallInv' /\ call' \in [Calls -> Call]
<1>1. call \in [Calls -> Call] /\ Idle.stage = "idle" /\ Idle \in Call
  BY ApiAssumption DEF TypeOK, Idle, Call, Statuses
<1>2. ASSUME NEW r \in Calls, NEW c \in Call, call' = [call EXCEPT ![r] = c],
             c.stage # "idle" => /\ c.q \in Asked
                                 /\ c.q.route = "reprocess" => c.q.order \in Ids
                                 /\ c.since <= faults
      PROVE  CallInv' /\ call' \in [Calls -> Call]
  <2>1. ASSUME NEW g \in Calls PROVE call'[g].since \in Nat /\ call[g].since \in Nat
    BY <1>1, <1>2 DEF Call
  <2> QED
    BY <1>1, <1>2, <2>1, FaultsGrow DEF CallInv
<1>3. CASE UNCHANGED call
  <2>1. \A g \in Calls : call[g].since \in Nat
    BY <1>1 DEF Call
  <2> QED
    BY <1>1, <1>3, <2>1, FaultsGrow DEF CallInv
<1>4. ASSUME NEW r \in Calls, call' = [call EXCEPT ![r] = Idle]
      PROVE  CallInv' /\ call' \in [Calls -> Call]
  BY <1>1, <1>2, <1>4
<1>5. ASSUME NEW r \in Calls, NEW q \in mix.asked, Arrive(r, q)
      PROVE  CallInv' /\ call' \in [Calls -> Call]
  <2>1. CASE /\ Refusals(q) = {}
             /\ call' = [call EXCEPT ![r].stage = "accepted", ![r].q = q, ![r].since = faults]
    <3> DEFINE c == [call[r] EXCEPT !.stage = "accepted", !.q = q, !.since = faults]
    <3>1. q \in Asked
      BY DEF TypeOK, Asked
    <3>2. faults \in 0..MaxFaults /\ faults <= faults
      BY FaultsGrow, ApiAssumption DEF TypeOK
    <3>3. c \in Call /\ c.q = q /\ c.since = faults
      BY <1>1, <3>1, <3>2 DEF Call
    <3>4. q.route = "reprocess" => q.order \in Ids
      BY <2>1 DEF Refusals, Public, WellFormed, IdAccepted
    <3>5. call' = [call EXCEPT ![r] = c]
      BY <1>1, <2>1
    <3> HIDE DEF c
    <3> QED
      BY <1>2, <3>1, <3>2, <3>3, <3>4, <3>5
  <2> QED
    BY <1>3, <1>5, <2>1 DEF Arrive
<1>6. ASSUME NEW r \in Calls, Begin(r) PROVE CallInv' /\ call' \in [Calls -> Call]
  <2>1. call[r].stage = "accepted" /\ call[r] \in Call
    BY <1>1, <1>6 DEF Begin
  <2>2. PICK now \in 1..MaxTime :
          call' = [call EXCEPT ![r].stage = "begun",
                  ![r].at = IF call[r].q.route = "create" THEN now ELSE 0,
                  ![r].seen = IF call[r].q.route = "reprocess"
                              THEN orders[call[r].q.order].status ELSE "ABSENT"]
    BY <1>6 DEF Begin
  <2> DEFINE at == IF call[r].q.route = "create" THEN now ELSE 0
             seen == IF call[r].q.route = "reprocess"
                     THEN orders[call[r].q.order].status ELSE "ABSENT"
             c == [call[r] EXCEPT !.stage = "begun", !.at = at, !.seen = seen]
  <2>3. at \in 0..MaxTime
    BY ApiAssumption
  <2>4. seen \in Statuses
    <3>1. \A o \in Ids : orders[o].status \in Statuses
      BY DEF TypeOK, Row, RowsOf
    <3> QED
      BY <2>1, <3>1 DEF CallInv, Statuses
  <2>5. call' = [call EXCEPT ![r] = c]
    BY <1>1, <2>1, <2>2 DEF Call
  <2> HIDE DEF at, seen
  <2>6. c \in Call /\ c.q = call[r].q /\ c.since = call[r].since
    BY <2>1, <2>3, <2>4 DEF Call
  <2> HIDE DEF c
  <2> QED
    BY <1>2, <2>1, <2>5, <2>6 DEF CallInv
<1>7. ASSUME NEW runners \in SUBSET Runners, NEW calls \in SUBSET Calls, NEW strays \in 0..leaked,
             Lose(runners, calls, strays)
      PROVE  CallInv' /\ call' \in [Calls -> Call]
  <2>1. \A r \in Calls : call[r] \in Call /\ [call[r] EXCEPT !.stage = "broken"] \in Call
    BY <1>1 DEF Call
  <2>2. call' = [r \in Calls |->
          IF r \in calls \/ (call[r].stage = "begun" /\ ConnectionOf(call[r].q.route) \in runners)
          THEN [call[r] EXCEPT !.stage = "broken"] ELSE call[r]]
    BY <1>7 DEF Lose
  <2>3. call' \in [Calls -> Call]
    BY <2>1, <2>2
  <2>4. \A r \in calls : call[r].stage # "idle"
    BY <1>7 DEF Lose
  <2>5. ASSUME NEW r \in Calls, call'[r].stage # "idle"
        PROVE  /\ call[r].stage # "idle" /\ call'[r].q = call[r].q
               /\ call'[r].since = call[r].since /\ call[r].since \in Nat
    <3>1. call[r] \in Call /\ (call'[r] = call[r] \/ (call[r].stage # "idle"
            /\ call'[r] = [call[r] EXCEPT !.stage = "broken"]))
      BY <2>1, <2>2, <2>4
    <3>2. call[r].since \in Nat
      BY <3>1 DEF Call
    <3>3. call'[r].q = call[r].q /\ call'[r].since = call[r].since
      BY <3>1 DEF Call
    <3> QED
      BY <2>5, <3>1, <3>2, <3>3
  <2> QED
    BY <2>3, <2>5, FaultsGrow DEF CallInv
<1>8. ASSUME NEW r \in Calls, Serve(r), ~Begin(r) PROVE call' = [call EXCEPT ![r] = Idle]
  BY <1>8 DEF Serve, BeginFails, NoConnection, Get, Login, LoginAtKeycloak, Probe, Rollback,
              StatementFails, Commit, CommitLost, Break, Answered
<1>9. ASSUME \/ \E o \in Ids : Settle(o) \/ GiveUp(o)
             \/ \E t \in mix.walkers : StartWalk(t)
             \/ WalkOn \/ UNCHANGED vars
      PROVE  UNCHANGED call
  BY <1>9 DEF Settle, GiveUp, StartWalk, WalkOn, ReadRows, ReadTotal, WalkFails, vars
<1> QED
  BY <1>3, <1>4, <1>5, <1>6, <1>7, <1>8, <1>9 DEF Next

(* A request whose connection is gone has met a fault. *)
LEMMA CauseStep ==
  ASSUME TypeOK, CallInv, CauseInv, [Next]_vars
  PROVE  CauseInv'
<1>1. /\ call \in [Calls -> Call] /\ faults \in Nat /\ faults' \in Nat /\ faults' >= faults
      /\ \A r \in Calls : call[r].since \in Nat
  BY FaultsGrow, ApiAssumption DEF TypeOK, Call
<1>2. ASSUME \A r \in Calls : call'[r].stage = "broken" => call'[r] = call[r]
      PROVE  CauseInv'
  BY <1>1, <1>2 DEF CauseInv
<1>3. ASSUME NEW r \in Calls, NEW c, c.stage # "broken",
             call' = [call EXCEPT ![r] = c]
      PROVE  CauseInv'
  BY <1>1, <1>2, <1>3
<1>4. ASSUME NEW r \in Calls, NEW q \in mix.asked, Arrive(r, q) PROVE CauseInv'
  <2>1. CASE call' = [call EXCEPT ![r].stage = "accepted", ![r].q = q, ![r].since = faults]
    <3>1. /\ call'[r].stage = "accepted" /\ \A g \in Calls \ {r} : call'[g] = call[g]
      BY <1>1, <2>1 DEF Call
    <3> QED
      BY <1>2, <3>1
  <2> QED
    BY <1>2, <1>4, <2>1 DEF Arrive
<1>5. ASSUME NEW r \in Calls, Begin(r) PROVE CauseInv'
  <2>1. PICK now \in 1..MaxTime :
          call' = [call EXCEPT ![r].stage = "begun",
                  ![r].at = IF call[r].q.route = "create" THEN now ELSE 0,
                  ![r].seen = IF call[r].q.route = "reprocess"
                              THEN orders[call[r].q.order].status ELSE "ABSENT"]
    BY <1>5 DEF Begin
  <2>2. call'[r].stage = "begun" /\ \A g \in Calls \ {r} : call'[g] = call[g]
    BY <1>1, <2>1 DEF Call
  <2> QED
    BY <1>2, <2>2
<1>6. ASSUME NEW r \in Calls, Serve(r), ~Begin(r) PROVE CauseInv'
  <2>1. call' = [call EXCEPT ![r] = Idle]
    BY <1>6 DEF Serve, BeginFails, NoConnection, Get, Login, LoginAtKeycloak, Probe, Rollback,
                StatementFails, Commit, CommitLost, Break, Answered
  <2> QED
    BY <1>3, <2>1 DEF Idle
<1>7. ASSUME NEW runners \in SUBSET Runners, NEW calls \in SUBSET Calls, NEW strays \in 0..leaked,
             Lose(runners, calls, strays)
      PROVE  CauseInv'
  <2>1. faults' = faults + 1
    BY <1>7 DEF Lose, Fault
  <2>2. /\ \A r \in calls : call[r].stage = "begun"
        /\ call' = [r \in Calls |->
             IF r \in calls \/ (call[r].stage = "begun" /\ ConnectionOf(call[r].q.route) \in runners)
             THEN [call[r] EXCEPT !.stage = "broken"] ELSE call[r]]
    BY <1>7 DEF Lose
  <2>3. ASSUME NEW r \in Calls, call'[r].stage = "broken" PROVE faults' > call'[r].since
    <3>1. call'[r].since = call[r].since /\ call[r].stage # "idle"
      BY <1>1, <2>2, <2>3 DEF Call
    <3>2. call[r].since <= faults
      BY <3>1 DEF CallInv
    <3> QED
      BY <1>1, <2>1, <3>1, <3>2
  <2> QED
    BY <2>3 DEF CauseInv
<1>8. ASSUME UNCHANGED call PROVE CauseInv'
  BY <1>2, <1>8
<1> QED
  BY <1>4, <1>5, <1>6, <1>7, <1>8 DEF Next, Settle, GiveUp, StartWalk, WalkOn, ReadRows, ReadTotal,
     WalkFails, vars

-----------------------------------------------------------------------------
(* Connections                                                             *)

(* Requests and runners are finitely many. *)
LEMMA PoolFacts ==
  /\ IsFiniteSet(Borrowers) /\ Cardinality(Borrowers) \in Nat
  /\ IsFiniteSet(Keepers) /\ Cardinality(Keepers) \in Nat
<1>1. IsFiniteSet(Borrowers)
  BY ApiAssumption, FS_Subset DEF Borrowers
<1>2. IsFiniteSet(Runners)
  <2>1. Runners = {"orders"} \union {"users"} /\ IsFiniteSet({"orders"})
    BY FS_Singleton DEF Runners
  <2> QED
    BY <2>1, FS_AddElement
<1>3. IsFiniteSet(Keepers)
  BY <1>2, FS_Subset DEF Keepers
<1> QED
  BY <1>1, <1>3, FS_CardinalityType

(* A request that ends is no borrower any more. *)
LEMMA BorrowerEnds ==
  ASSUME TypeOK, NEW r \in Calls, call' = [call EXCEPT ![r] = Idle], mix' = mix
  PROVE  Borrowers' = Borrowers \ {r}
  BY DEF TypeOK, Borrowers, ConnectionOf, Idle

(* A runner that has its connection, or takes one. *)
LEMMA RunnerTakes ==
  ASSUME TypeOK, NEW c \in Runners, OnRunner(c)
  PROVE  \/ free' = free /\ Keepers' = Keepers
         \/ free' = free - 1 /\ free > 0 /\ c \notin Keepers /\ Keepers' = Keepers \union {c}
<1>1. CASE conn[c] = "open" /\ UNCHANGED <<free, conn>>
  BY <1>1 DEF Keepers
<1>2. CASE conn[c] = "none" /\ Acquire /\ conn' = [conn EXCEPT ![c] = "open"]
  <2>1. free' = free - 1 /\ free > 0 /\ c \notin Keepers
    BY <1>2 DEF Acquire, Keepers
  <2>2. Keepers' = Keepers \union {c}
    BY <1>2 DEF Keepers, TypeOK
  <2> QED
    BY <2>1, <2>2
<1> QED
  BY <1>1, <1>2 DEF OnRunner

(* Every connection given back was taken. *)
LEMMA PoolStep ==
  ASSUME TypeOK, CallInv, PoolInv, [Next]_vars
  PROVE  PoolInv' /\ free' \in 0..PoolSize /\ leaked' \in 0..PoolSize
<1> DEFINE b == Cardinality(Borrowers)
           k == Cardinality(Keepers)
           Goal == PoolInv' /\ free' \in 0..PoolSize /\ leaked' \in 0..PoolSize
<1>1. /\ b \in Nat /\ k \in Nat /\ free \in 0..PoolSize /\ PoolSize \in Nat
      /\ leaked \in 0..PoolSize /\ free + b + k + leaked = PoolSize
      /\ IsFiniteSet(Borrowers) /\ IsFiniteSet(Keepers)
  BY PoolFacts, ApiAssumption DEF TypeOK, PoolInv
<1>2. ASSUME NEW taken \in Int, NEW kept \in Int, NEW given \in Int, NEW stray \in Int,
             Cardinality(Borrowers') = b + taken, Cardinality(Keepers') = k + kept,
             free' = free + given, leaked' = leaked + stray, given + taken + kept + stray = 0,
             free + given >= 0, b + taken >= 0, k + kept >= 0, leaked + stray >= 0
      PROVE  Goal
  <2>1. free' + Cardinality(Borrowers') + Cardinality(Keepers') + leaked' = PoolSize
    <3> HIDE DEF b, k
    <3> QED BY <1>1, <1>2
  <2>2. free' \in 0..PoolSize /\ leaked' \in 0..PoolSize
    <3> HIDE DEF b, k
    <3> QED BY <1>1, <1>2
  <2> QED
    BY <2>1, <2>2 DEF PoolInv
<1>3. ASSUME UNCHANGED <<free, leaked>>, Borrowers' = Borrowers, Keepers' = Keepers PROVE Goal
  BY <1>1, <1>3 DEF PoolInv
<1>4. ASSUME NEW r \in Borrowers, Borrowers' = Borrowers \ {r}, Keepers' = Keepers,
             free' = free + 1, UNCHANGED leaked
      PROVE  Goal
  <2>1. Cardinality(Borrowers \ {r}) = b - 1
    BY <1>1, FS_RemoveElement
  <2>2. Cardinality(Borrowers') = b + -1 /\ Cardinality(Keepers') = k + 0
    BY <1>1, <1>4, <2>1
  <2>3. b >= 1
    <3>1. IsFiniteSet(Borrowers \ {r})
      BY <1>1, FS_RemoveElement
    <3>2. b - 1 \in Nat
      BY <2>1, <3>1, FS_CardinalityType
    <3> QED
      BY <1>1, <3>2
  <2> HIDE DEF b, k
  <2>4. /\ free + 1 >= 0 /\ b + -1 >= 0 /\ k + 0 >= 0 /\ leaked + 0 >= 0
        /\ leaked' = leaked + 0 /\ 1 + -1 + 0 + 0 = 0
    BY <1>1, <1>4, <2>3
  <2> HIDE DEF Goal
  <2> QED
    BY <1>2, <1>4, <2>2, <2>4
<1>5. ASSUME NEW c \in Runners, OnRunner(c), Borrowers' = Borrowers, UNCHANGED leaked PROVE Goal
  <2>1. CASE free' = free /\ Keepers' = Keepers
    BY <1>3, <1>5, <2>1
  <2>2. CASE free' = free - 1 /\ free > 0 /\ c \notin Keepers /\ Keepers' = Keepers \union {c}
    <3>1. Cardinality(Keepers \union {c}) = k + 1
      BY <1>1, <2>2, FS_AddElement
    <3>2. Cardinality(Borrowers') = b + 0 /\ Cardinality(Keepers') = k + 1
      BY <1>1, <1>5, <2>2, <3>1
    <3> HIDE DEF b, k
    <3>3. /\ free' = free + -1 /\ free + -1 >= 0 /\ b + 0 >= 0 /\ k + 1 >= 0 /\ leaked + 0 >= 0
          /\ leaked' = leaked + 0 /\ -1 + 0 + 1 + 0 = 0
      BY <1>1, <1>5, <2>2
    <3> HIDE DEF Goal
    <3> QED
      BY <1>2, <3>2, <3>3
  <2> QED
    BY <1>5, <2>1, <2>2, RunnerTakes
<1>6. mix' = mix
  BY RowsStep
<1>7. ASSUME UNCHANGED conn PROVE Keepers' = Keepers
  BY <1>7 DEF Keepers
<1>8. ASSUME UNCHANGED call PROVE Borrowers' = Borrowers
  BY <1>6, <1>8 DEF Borrowers, ConnectionOf
<1>9. ASSUME NEW r \in Calls, NEW q \in mix.asked, Arrive(r, q) PROVE Goal
  <2>1. ASSUME call' = [call EXCEPT ![r].stage = "accepted", ![r].q = q, ![r].since = faults]
        PROVE  Borrowers' = Borrowers
    <3>1. /\ call[r].stage = "idle" /\ call'[r].stage = "accepted"
          /\ \A g \in Calls \ {r} : call'[g] = call[g]
      BY <1>9, <2>1 DEF Arrive, TypeOK, Call
    <3> QED
      BY <1>6, <3>1 DEF Borrowers, ConnectionOf
  <2>2. Borrowers' = Borrowers
    BY <1>8, <1>9, <2>1 DEF Arrive
  <2> QED
    BY <1>3, <1>7, <1>9, <2>2 DEF Arrive, counts
<1>10. ASSUME NEW r \in Calls, Begin(r) PROVE Goal
  <2>1. call[r].stage = "accepted" /\ call[r] \in Call
    BY <1>10 DEF Begin, TypeOK
  <2>2. PICK now \in 1..MaxTime :
          call' = [call EXCEPT ![r].stage = "begun",
                  ![r].at = IF call[r].q.route = "create" THEN now ELSE 0,
                  ![r].seen = IF call[r].q.route = "reprocess"
                              THEN orders[call[r].q.order].status ELSE "ABSENT"]
    BY <1>10 DEF Begin
  <2>3. /\ call'[r].stage = "begun" /\ call'[r].q = call[r].q
        /\ \A g \in Calls \ {r} : call'[g] = call[g]
    BY <2>1, <2>2 DEF TypeOK, Call
  <2>4. r \notin Borrowers
    BY <2>1 DEF Borrowers
  <2>5. CASE ConnectionOf(call[r].q.route) = "pool" /\ Acquire /\ UNCHANGED conn
    <3>1. Borrowers' = Borrowers \union {r}
      BY <1>6, <2>3, <2>5 DEF Borrowers, ConnectionOf
    <3>2. Cardinality(Borrowers \union {r}) = b + 1
      BY <1>1, <2>4, FS_AddElement
    <3>3. Cardinality(Borrowers') = b + 1 /\ Cardinality(Keepers') = k + 0
      BY <1>1, <1>7, <2>5, <3>1, <3>2
    <3> HIDE DEF b, k
    <3>4. /\ free' = free + -1 /\ free + -1 >= 0 /\ b + 1 >= 0 /\ k + 0 >= 0 /\ leaked + 0 >= 0
          /\ leaked' = leaked + 0 /\ -1 + 1 + 0 + 0 = 0
      BY <1>1, <1>10, <2>5 DEF Acquire, Begin, counts
    <3> HIDE DEF Goal
    <3> QED
      BY <1>2, <3>3, <3>4
  <2>6. CASE ConnectionOf(call[r].q.route) \in Runners /\ OnRunner(ConnectionOf(call[r].q.route))
    <3>1. ConnectionOf(call[r].q.route) # "pool"
      BY <2>6 DEF Runners
    <3>2. Borrowers' = Borrowers
      BY <1>6, <2>1, <2>3, <3>1 DEF Borrowers, ConnectionOf
    <3> QED
      BY <1>5, <1>10, <2>6, <3>2 DEF Begin, counts
  <2> QED
    BY <1>10, <2>5, <2>6 DEF Begin
<1>11. ASSUME NEW r \in Calls, NoConnection(r) \/ Get(r) \/ Login(r) \/ LoginAtKeycloak(r) \/ Break(r)
       PROVE  Goal
  <2>1. r \notin Borrowers /\ UNCHANGED <<free, conn, leaked>> /\ call' = [call EXCEPT ![r] = Idle]
    BY <1>11 DEF NoConnection, Get, Login, LoginAtKeycloak, Break, Serving, Answered, Borrowers,
                 ConnectionOf, counts
  <2>2. Borrowers' = Borrowers
    BY <1>6, <2>1, BorrowerEnds
  <2> QED
    BY <1>3, <1>7, <2>1, <2>2
<1>12. ASSUME NEW r \in Calls, Probe(r) \/ Rollback(r) \/ Commit(r) \/ CommitLost(r) PROVE Goal
  <2>1. /\ r \in Borrowers /\ UNCHANGED <<conn, leaked>> /\ free' = free + 1
        /\ call' = [call EXCEPT ![r] = Idle]
    BY <1>12 DEF Probe, Rollback, Commit, CommitLost, Serving, Answered, Release, Borrowers,
                 ConnectionOf, counts
  <2>2. Borrowers' = Borrowers \ {r}
    BY <1>6, <2>1, BorrowerEnds
  <2> QED
    BY <1>4, <1>7, <2>1, <2>2
<1>13. ASSUME NEW runners \in SUBSET Runners, NEW calls \in SUBSET Calls, NEW strays \in 0..leaked,
             Lose(runners, calls, strays)
       PROVE  Goal
  <2>1. /\ calls \subseteq Borrowers /\ runners \subseteq Keepers
        /\ free' = free + Cardinality(runners) + Cardinality(calls) + strays
        /\ leaked' = leaked - strays /\ strays \in 0..leaked
    BY <1>13 DEF Lose, Borrowers, Keepers
  <2>2. Borrowers' = Borrowers \ calls
    <3>1. call' = [r \in Calls |->
            IF r \in calls \/ (call[r].stage = "begun" /\ ConnectionOf(call[r].q.route) \in runners)
            THEN [call[r] EXCEPT !.stage = "broken"] ELSE call[r]]
      BY <1>13 DEF Lose
    <3>2. \A r \in Calls : call[r] \in Call
      BY DEF TypeOK
    <3>3. ASSUME NEW r \in Calls PROVE r \in Borrowers' <=> r \in Borrowers \ calls
      <4>1. CASE r \in calls
        <5>1. call'[r].stage = "broken"
          BY <3>1, <3>2, <4>1 DEF Call
        <5> QED
          BY <4>1, <5>1 DEF Borrowers
      <4>2. CASE r \notin calls /\ call[r].stage = "begun" /\ ConnectionOf(call[r].q.route) \in runners
        <5>1. call'[r].stage = "broken"
          BY <3>1, <3>2, <4>2 DEF Call
        <5>2. ConnectionOf(call[r].q.route) # "pool"
          BY <4>2 DEF Runners
        <5> QED
          BY <5>1, <5>2 DEF Borrowers
      <4>3. CASE r \notin calls /\ ~(call[r].stage = "begun" /\ ConnectionOf(call[r].q.route) \in runners)
        <5>1. call'[r] = call[r]
          BY <3>1, <4>3
        <5> QED
          BY <1>6, <4>3, <5>1 DEF Borrowers, ConnectionOf
      <4> QED
        BY <4>1, <4>2, <4>3
    <3> QED
      BY <3>3 DEF Borrowers
  <2>3. Keepers' = Keepers \ runners
    BY <1>13 DEF Lose, Keepers
  <2>4. /\ IsFiniteSet(calls) /\ Cardinality(calls) \in Nat
        /\ IsFiniteSet(runners) /\ Cardinality(runners) \in Nat
        /\ Cardinality(calls) <= b /\ Cardinality(runners) <= k
    BY <1>1, <2>1, FS_Subset, FS_CardinalityType
  <2>5. Cardinality(Borrowers \ calls) = b - Cardinality(calls)
    <3>1. Borrowers \cap calls = calls
      BY <2>1
    <3> QED
      BY <1>1, <3>1, FS_Difference
  <2>6. Cardinality(Keepers \ runners) = k - Cardinality(runners)
    <3>1. Keepers \cap runners = runners
      BY <2>1
    <3> QED
      BY <1>1, <3>1, FS_Difference
  <2> DEFINE x == Cardinality(calls)
             y == Cardinality(runners)
  <2>7. /\ x \in Nat /\ y \in Nat /\ x <= b /\ y <= k /\ free' = free + y + x + strays
        /\ leaked' = leaked - strays /\ strays \in Nat /\ strays <= leaked
        /\ Cardinality(Borrowers') = b - x /\ Cardinality(Keepers') = k - y
    BY <1>1, <2>1, <2>2, <2>3, <2>4, <2>5, <2>6
  <2> HIDE DEF b, k, x, y
  <2>8. /\ -x \in Int /\ -y \in Int /\ -strays \in Int /\ x + y + strays \in Int
        /\ Cardinality(Borrowers') = b + -x /\ Cardinality(Keepers') = k + -y
        /\ free' = free + (x + y + strays) /\ leaked' = leaked + -strays
        /\ (x + y + strays) + -x + -y + -strays = 0
        /\ free + (x + y + strays) >= 0 /\ b + -x >= 0 /\ k + -y >= 0 /\ leaked + -strays >= 0
    BY <1>1, <2>7
  <2> HIDE DEF Goal
  <2> QED
    BY <1>2, <2>8
<1>14. CASE ReadRows
  BY <1>5, <1>8, <1>14 DEF ReadRows, Runners, counts
<1>15. ASSUME \/ \E o \in Ids : Settle(o) \/ GiveUp(o)
              \/ \E t \in mix.walkers : StartWalk(t)
              \/ ReadTotal \/ UNCHANGED vars
       PROVE  UNCHANGED <<free, conn, call, leaked>>
  BY <1>15 DEF Settle, GiveUp, StartWalk, ReadTotal, counts, vars
<1>16. ASSUME NEW c \in Runners, ConnectionRefused(c)
       PROVE  Keepers' = Keepers /\ UNCHANGED <<free, leaked>>
  BY <1>16 DEF ConnectionRefused, Keepers, TypeOK
<1>17. CASE WalkFails
  <2>1. UNCHANGED <<free, leaked, call>> /\ Keepers' = Keepers
    BY <1>7, <1>16, <1>17 DEF WalkFails, Runners
  <2> QED
    BY <1>3, <1>8, <2>1
<1>18. ASSUME NEW r \in Calls, BeginFails(r) PROVE Goal
  <2>1. Borrowers' = Borrowers
    <3>1. r \notin Borrowers /\ call' = [call EXCEPT ![r] = Idle]
      BY <1>18 DEF BeginFails, Answered, Borrowers
    <3> QED
      BY <1>6, <3>1, BorrowerEnds
  <2>2. CASE UNCHANGED <<free, conn, leaked>>
    BY <1>3, <1>7, <2>1, <2>2
  <2>3. CASE Acquire /\ leaked' = leaked + 1 /\ UNCHANGED conn
    <3>1. Cardinality(Borrowers') = b + 0 /\ Cardinality(Keepers') = k + 0
      BY <1>1, <1>7, <2>1, <2>3
    <3> HIDE DEF b, k
    <3>2. /\ free' = free + -1 /\ free + -1 >= 0 /\ b + 0 >= 0 /\ k + 0 >= 0 /\ leaked + 1 >= 0
          /\ -1 + 0 + 0 + 1 = 0
      BY <1>1, <2>3 DEF Acquire
    <3> HIDE DEF Goal
    <3> QED
      BY <1>2, <2>3, <3>1, <3>2
  <2>4. ASSUME NEW c \in Runners, ConnectionRefused(c) PROVE Goal
    BY <1>3, <1>16, <2>1, <2>4
  <2> HIDE DEF Goal
  <2> QED
    BY <1>18, <2>2, <2>3, <2>4 DEF BeginFails
<1>19. ASSUME NEW r \in Calls, StatementFails(r) PROVE Goal
  <2>1. call[r].stage = "begun" /\ call' = [call EXCEPT ![r] = Idle] /\ UNCHANGED <<conn, leaked>>
    BY <1>19 DEF StatementFails, Answered
  <2>2. Borrowers' = Borrowers \ {r}
    BY <1>6, <2>1, BorrowerEnds
  <2>3. CASE ConnectionOf(call[r].q.route) = "pool"
    <3>1. r \in Borrowers /\ free' = free + 1
      BY <1>19, <2>1, <2>3 DEF StatementFails, Release, Borrowers
    <3> QED
      BY <1>4, <1>7, <2>1, <2>2, <3>1
  <2>4. CASE ConnectionOf(call[r].q.route) # "pool"
    <3>1. r \notin Borrowers /\ UNCHANGED free
      BY <1>19, <2>4 DEF StatementFails, Borrowers
    <3>2. Borrowers' = Borrowers
      BY <2>2, <3>1
    <3> QED
      BY <1>3, <1>7, <2>1, <3>1, <3>2
  <2> QED
    BY <2>3, <2>4
<1> HIDE DEF Goal
<1>20. ASSUME UNCHANGED <<free, conn, call, leaked>> PROVE Goal
  BY <1>3, <1>7, <1>8, <1>20
<1> QED
  BY <1>9, <1>10, <1>11, <1>12, <1>13, <1>14, <1>15, <1>17, <1>18, <1>19, <1>20
     DEF Next, Serve, WalkOn, Goal

-----------------------------------------------------------------------------
(* Types                                                                   *)

Codes == {200, 201, 202, 400, 401, 403, 404, 409, 422, 500, 503}

(* What an error is mapped to. *)
LEMMA StatusFacts ==
  /\ \A error : Status(error) \in {400, 401, 403, 404, 409, 422, 500}
  /\ Status("Error") = 500
  /\ \A q : \A error \in Refusals(q) : Status(error) \in {400, 401, 403}
  BY DEF Status, Refusals

(* A step answers with one of the codes, or not. *)
LEMMA AnswerStep ==
  ASSUME TypeOK, [Next]_vars
  PROVE  answer' = NoAnswer \/ answer'.status \in Codes
<1>1. ASSUME NEW r \in Calls, NEW q \in mix.asked, Arrive(r, q)
      PROVE  answer' = NoAnswer \/ answer'.status \in Codes
  BY <1>1, StatusFacts DEF Arrive, Codes
<1>2. ASSUME NEW r \in Calls, Serve(r)
      PROVE  answer' = NoAnswer \/ answer'.status \in Codes
  <2>1. ASSUME NEW status \in Codes, Answered(r, status) PROVE answer'.status \in Codes
    BY <2>1 DEF Answered
  <2>2. CASE Begin(r)
    BY <2>2 DEF Begin
  <2>3. CASE NoConnection(r) \/ LoginAtKeycloak(r) \/ CommitLost(r)
    BY <2>1, <2>3, StatusFacts DEF NoConnection, LoginAtKeycloak, CommitLost, Codes
  <2>7. CASE BeginFails(r) \/ StatementFails(r) \/ Break(r)
    BY <2>1, <2>7, StatusFacts DEF BeginFails, StatementFails, Break, Failed, Codes
  <2>4. CASE Get(r) \/ Login(r)
    BY <2>1, <2>4, StatusFacts DEF Get, Login, Codes
  <2>5. CASE Probe(r)
    BY <2>1, <2>5, StatusFacts DEF Probe, Codes
  <2>6. CASE Rollback(r) \/ Commit(r)
    BY <2>1, <2>6, StatusFacts DEF Rollback, Commit, Codes
  <2> QED
    BY <1>2, <2>2, <2>3, <2>4, <2>5, <2>6, <2>7 DEF Serve
<1>3. CASE UNCHANGED vars
  BY <1>3 DEF vars, TypeOK, Codes
<1> QED
  BY <1>1, <1>2, <1>3
     DEF Next, Lose, Settle, GiveUp, StartWalk, WalkOn, ReadRows, ReadTotal, WalkFails

(* Runners, and orders that fail. *)
LEMMA BoundStep ==
  ASSUME TypeOK, [Next]_vars
  PROVE  /\ conn' \in [Runners -> {"none", "open", "lost"}]
         /\ failures' \in 0..MaxFailures
<1>1. /\ conn \in [Runners -> {"none", "open", "lost"}]
      /\ failures \in 0..MaxFailures /\ MaxFailures \in Nat
  BY ApiAssumption DEF TypeOK
<1> DEFINE Goal == /\ conn' \in [Runners -> {"none", "open", "lost"}]
                   /\ failures' \in 0..MaxFailures
<1>2. ASSUME NEW c \in Runners, OnRunner(c) \/ ConnectionRefused(c) \/ UNCHANGED conn,
             UNCHANGED failures
      PROVE  Goal
  BY <1>1, <1>2 DEF OnRunner, ConnectionRefused
<1>3. ASSUME NEW r \in Calls, Serve(r) PROVE Goal
  <2>1. CASE Begin(r) \/ BeginFails(r)
    BY <1>2, <2>1 DEF Begin, BeginFails, counts, Runners
  <2>2. CASE ~Begin(r) /\ ~BeginFails(r)
    <3>1. UNCHANGED <<conn, failures>>
      BY <1>3, <2>2 DEF Serve, NoConnection, Get, Login, LoginAtKeycloak, Probe, Rollback,
         StatementFails, Commit, CommitLost, Break, counts
    <3> QED
      BY <1>1, <3>1
  <2> QED
    BY <2>1, <2>2
<1>4. ASSUME NEW runners \in SUBSET Runners, NEW calls \in SUBSET Calls, NEW strays \in 0..leaked,
             Lose(runners, calls, strays)
      PROVE  Goal
  BY <1>1, <1>4 DEF Lose
<1>5. ASSUME NEW o \in Ids, Settle(o) \/ GiveUp(o) PROVE Goal
  BY <1>1, <1>5 DEF Settle, GiveUp, counts
<1>6. CASE WalkOn
  BY <1>2, <1>6 DEF WalkOn, ReadRows, ReadTotal, WalkFails, counts, Runners
<1>7. CASE \/ \E r \in Calls, q \in mix.asked : Arrive(r, q)
           \/ \E t \in mix.walkers : StartWalk(t)
           \/ UNCHANGED vars
  BY <1>1, <1>7 DEF Arrive, StartWalk, counts, vars
<1> QED
  BY <1>3, <1>4, <1>5, <1>6, <1>7 DEF Next

-----------------------------------------------------------------------------
(* The walk                                                                *)

(* Who is on a page is in scope, and all of those places are. *)
LEMMA PageFacts ==
  ASSUME NEW t, NEW page
  PROVE  /\ Page(t, page) \subseteq InScope(t)
         /\ \A o \in InScope(t) :
              (/\ Rank(o, InScope(t)) \in Int /\ Skip(page) \in Int
               /\ Skip(page) <= Rank(o, InScope(t))
               /\ Rank(o, InScope(t)) < Skip(page) + Limit) => o \in Page(t, page)
  BY ApiAssumption DEF Page

(* What has been reached stays so, whatever is written. *)
LEMMA ReachedStays ==
  ASSUME TypeOK, CallInv, [Next]_vars, NEW t, NEW seen, NEW initial, NEW upto \in Int,
         Reached(t, seen, initial, upto)
  PROVE  Reached(t, seen, initial, upto)'
<1>1. /\ InScope(t) \subseteq InScope(t)' /\ InScope(t) \subseteq Ids
      /\ InScope(t)' \subseteq Ids /\ orders \in [Ids -> Row]
      /\ \A o \in InScope(t) : Rank(o, InScope(t)) <= Rank(o, InScope(t))'
  BY ScopeGrows DEF TypeOK
<1>2. ASSUME NEW o \in InScope(t)
      PROVE  Rank(o, InScope(t)) \in Nat /\ Rank(o, InScope(t))' \in Nat
  <2>1. Rank(o, InScope(t)) \in Nat
    BY <1>1, RankFacts
  <2> DEFINE B == {x \in InScope(t) : ComesBefore(x, o)}
  <2>2. IsFiniteSet(B') /\ Cardinality(B') \in Nat
    BY <1>1, ApiAssumption, FS_Subset, FS_CardinalityType
  <2> QED
    BY <2>1, <2>2 DEF Rank
<1>3. ASSUME NEW o \in initial, Rank(o, InScope(t))' < upto PROVE o \in seen
  BY <1>1, <1>2, <1>3 DEF Reached
<1> QED
  BY <1>1, <1>3 DEF Reached

(* The walk never leaves an order behind that it should have seen. *)
LEMMA WalkStep ==
  ASSUME TypeOK, CallInv, WalkInv, [Next]_vars
  PROVE  /\ WalkInv'
         /\ walk'.stage \in {"none", "rows", "total", "done", "failed"}
         /\ walk'.seen \subseteq Ids /\ walk'.initial \subseteq Ids
<1> DEFINE Goal == /\ WalkInv'
                   /\ walk'.stage \in {"none", "rows", "total", "done", "failed"}
                   /\ walk'.seen \subseteq Ids /\ walk'.initial \subseteq Ids
<1>1. PICK stage, t, page, seen, initial :
        /\ walk = [stage |-> stage, token |-> t, page |-> page, seen |-> seen,
                   initial |-> initial]
        /\ stage = walk.stage /\ t = walk.token /\ page = walk.page
        /\ seen = walk.seen /\ initial = walk.initial
  BY DEF WalkInv
<1>2. /\ walk = [stage |-> stage, token |-> t, page |-> page, seen |-> seen,
                 initial |-> initial]
      /\ walk.stage \in {"none", "rows", "total", "done", "failed"}
      /\ seen \subseteq Ids /\ initial \subseteq Ids /\ orders \in [Ids -> Row]
  BY <1>1 DEF TypeOK
<1>3. \A u : /\ InScope(u) \subseteq InScope(u)' /\ InScope(u)' \subseteq Ids
             /\ InScope(u) \subseteq Ids
  BY ScopeGrows
<1>4. CASE UNCHANGED walk
  <2>1. ASSUME walk.stage \in {"rows", "total"}
        PROVE  page \in Nat \ {0} /\ Reached(walk.token, walk.seen, walk.initial, Covered)'
    <3>1. page \in Nat \ {0} /\ Reached(t, seen, initial, Covered)
      BY <1>1, <2>1 DEF WalkInv
    <3>2. PICK upto \in Int : upto = Covered
      BY <1>1, <3>1, SkipFacts DEF Covered
    <3>3. Reached(t, seen, initial, upto)'
      BY <3>1, <3>2, ReachedStays
    <3>4. Covered' = upto
      BY <1>4, <3>2 DEF Covered, Skip
    <3> QED
      BY <1>1, <1>4, <3>1, <3>3, <3>4 DEF Reached
  <2>2. walk.stage = "done" => walk'.seen \subseteq InScope(walk.token)'
    BY <1>1, <1>3, <1>4 DEF WalkInv
  <2>3. WalkInv'
    BY <1>1, <1>2, <1>4, <2>1, <2>2 DEF WalkInv
  <2> QED
    BY <1>1, <1>2, <1>4, <2>3
<1>5. ASSUME NEW u \in mix.walkers, StartWalk(u) PROVE Goal
  <2>1. /\ walk' = [stage |-> "rows", token |-> u, page |-> 1, seen |-> {}, initial |-> InScope(u)]
        /\ UNCHANGED <<mix, orders>>
    BY <1>5 DEF StartWalk
  <2>2. InScope(walk.token)' = InScope(u)
    BY <2>1 DEF InScope, RolesOf, MappedRoles
  <2>3. Covered' = 0
    BY <2>1, ApiAssumption DEF Covered, Skip
  <2>4. ASSUME NEW o \in InScope(u) PROVE ~(Rank(o, InScope(walk.token))' < 0)
    <3>1. Rank(o, InScope(walk.token))' = Rank(o, InScope(u))
      BY <2>1, <2>2 DEF Rank, ComesBefore
    <3>2. Rank(o, InScope(u)) \in Nat
      BY <1>2, <1>3, RankFacts
    <3> QED
      BY <3>1, <3>2
  <2> QED
    BY <1>3, <2>1, <2>2, <2>3, <2>4 DEF WalkInv, Reached
<1>6. CASE ReadRows
  <2>1. /\ walk.stage = "rows" /\ UNCHANGED <<mix, orders>>
        /\ walk' = [walk EXCEPT !.stage = "total", !.seen = @ \union Page(t, page)]
    BY <1>1, <1>6 DEF ReadRows
  <2>2. walk' = [stage |-> "total", token |-> t, page |-> page,
                 seen |-> seen \union Page(t, page), initial |-> initial]
    BY <1>2, <2>1
  <2>3. page \in Nat \ {0} /\ Reached(t, seen, initial, Skip(page))
    BY <1>1, <2>1 DEF WalkInv, Covered
  <2>4. Skip(page) \in Int /\ Skip(page + 1) = Skip(page) + Limit
    BY <2>3, SkipFacts
  <2>5. InScope(walk.token)' = InScope(t)
    <3>1. walk'.token = t
      BY <2>2
    <3> QED
      BY <2>1, <3>1 DEF InScope, RolesOf, MappedRoles
  <2>6. \A o \in InScope(t) : /\ Rank(o, InScope(walk.token))' = Rank(o, InScope(t))
                              /\ Rank(o, InScope(t)) \in Nat
    <3>1. \A o \in InScope(t) : Rank(o, InScope(walk.token))' = Rank(o, InScope(t))
      BY <2>1, <2>5 DEF Rank, ComesBefore
    <3> QED
      BY <1>2, <1>3, <3>1, RankFacts
  <2>7. Covered' = Skip(page) + Limit
    BY <2>2, <2>4 DEF Covered, Skip
  <2>8. ASSUME NEW o \in initial, Rank(o, InScope(t)) < Skip(page) + Limit
        PROVE  o \in seen \union Page(t, page)
    BY <2>3, <2>4, <2>6, <2>8, PageFacts DEF Reached
  <2>9. Reached(walk.token, walk.seen, walk.initial, Covered)'
    BY <2>2, <2>3, <2>5, <2>6, <2>7, <2>8, PageFacts DEF Reached
  <2>10. WalkInv'
    BY <2>2, <2>3, <2>9 DEF WalkInv
  <2>11. seen \union Page(t, page) \subseteq Ids
    BY <1>2, <1>3, PageFacts
  <2> QED
    BY <1>2, <2>2, <2>10, <2>11
<1>7. CASE ReadTotal
  <2>1. /\ walk.stage = "total" /\ UNCHANGED <<mix, orders>>
        /\ walk' = IF page < TotalPages(Cardinality(InScope(t)))
                   THEN [walk EXCEPT !.stage = "rows", !.page = @ + 1]
                   ELSE [walk EXCEPT !.stage = "done"]
    BY <1>1, <1>7 DEF ReadTotal
  <2>2. page \in Nat \ {0} /\ Reached(t, seen, initial, Skip(page + 1))
    BY <1>1, <2>1 DEF WalkInv, Covered
  <2>3. InScope(walk.token)' = InScope(t)
    <3>1. walk'.token = t
      BY <1>2, <2>1
    <3> QED
      BY <2>1, <3>1 DEF InScope, RolesOf, MappedRoles
  <2>4. CASE page < TotalPages(Cardinality(InScope(t)))
    <3>1. walk' = [stage |-> "rows", token |-> t, page |-> page + 1, seen |-> seen,
                   initial |-> initial]
      BY <1>2, <2>1, <2>4
    <3>2. Covered' = Skip(page + 1)
      BY <3>1 DEF Covered, Skip
    <3>3. \A o \in InScope(t) : Rank(o, InScope(walk.token))' = Rank(o, InScope(t))
      BY <2>1, <2>3 DEF Rank, ComesBefore
    <3>4. Reached(walk.token, walk.seen, walk.initial, Covered)'
      BY <2>2, <2>3, <3>1, <3>2, <3>3 DEF Reached
    <3>5. WalkInv'
      BY <2>2, <3>1, <3>4 DEF WalkInv
    <3> QED
      BY <1>2, <3>1, <3>5
  <2>5. CASE ~(page < TotalPages(Cardinality(InScope(t))))
    <3>1. walk' = [stage |-> "done", token |-> t, page |-> page, seen |-> seen,
                   initial |-> initial]
      BY <1>2, <2>1, <2>5
    <3>2. Cardinality(InScope(t)) \in Nat
      BY <1>3, ApiAssumption, FS_Subset, FS_CardinalityType
    <3>3. page >= TotalPages(Cardinality(InScope(t)))
      BY <2>2, <2>5, <3>2, ApiAssumption DEF TotalPages
    <3>4. Cardinality(InScope(t)) <= Skip(page + 1) /\ Skip(page + 1) \in Int
      BY <2>2, <3>2, <3>3, LastPageIsEnough, SkipFacts
    <3>5. ASSUME NEW o \in initial PROVE o \in seen
      <4>1. o \in InScope(t)
        BY <2>2 DEF Reached
      <4>2. Rank(o, InScope(t)) \in Nat /\ Rank(o, InScope(t)) < Cardinality(InScope(t))
        BY <1>2, <1>3, <4>1, RankFacts
      <4> QED
        BY <2>2, <3>2, <3>4, <4>2 DEF Reached
    <3>6. WalkInv'
      BY <2>2, <2>3, <3>1, <3>5 DEF WalkInv, Reached
    <3> QED
      BY <1>2, <3>1, <3>6
  <2> QED
    BY <2>4, <2>5
<1>8. CASE WalkFails
  <2>1. walk' = [stage |-> "failed", token |-> t, page |-> page, seen |-> seen,
                 initial |-> initial]
    BY <1>2, <1>8 DEF WalkFails
  <2> QED
    BY <1>2, <2>1 DEF WalkInv
<1>9. ASSUME \/ \E r \in Calls, q \in mix.asked : Arrive(r, q)
             \/ \E r \in Calls : Serve(r)
             \/ \E runners \in SUBSET Runners, calls \in SUBSET Calls, strays \in 0..leaked :
                  Lose(runners, calls, strays)
             \/ \E o \in Ids : Settle(o) \/ GiveUp(o)
             \/ UNCHANGED vars
      PROVE  UNCHANGED walk
  BY <1>9 DEF Arrive, Serve, Begin, BeginFails, NoConnection, Get, Login, LoginAtKeycloak, Probe,
              Rollback, StatementFails, Commit, CommitLost, Break, Lose, Settle, GiveUp, vars
<1> HIDE DEF Goal
<1>10. CASE UNCHANGED walk
  BY <1>4, <1>10 DEF Goal
<1>11. Goal
  BY <1>5, <1>6, <1>7, <1>8, <1>9, <1>10 DEF Next, WalkOn, Goal
<1> QED
  BY <1>11 DEF Goal

-----------------------------------------------------------------------------
(* The theorems                                                            *)

(* The inductive invariant holds of every behaviour. *)
THEOREM ApiInvariant == Spec => []IInv
<1>1. Init => IInv
  <2> SUFFICES ASSUME Init PROVE IInv
    OBVIOUS
  <2>1. orders \in [Ids -> Row]
    <3>1. /\ mix \in Mixes /\ orders = mix.existing
          /\ mix.existing \in [Ids -> RowsOf({mix.existing[o].owner : o \in Ids})]
      BY ApiAssumption DEF Init
    <3>2. RowsOf({mix.existing[o].owner : o \in Ids}) \subseteq Row
      BY DEF Row, RowsOf
    <3> QED
      BY <3>1, <3>2
  <2>2. Idle \in Call /\ Idle.stage = "idle"
    BY ApiAssumption DEF Idle, Call, Statuses
  <2>3. TypeOK
    BY <2>1, <2>2, ApiAssumption DEF Init, TypeOK
  <2>4. CallInv
    BY <2>2 DEF Init, CallInv
  <2>5. PoolInv
    <3>1. Borrowers = {} /\ Keepers = {}
      BY <2>2 DEF Init, Borrowers, Keepers
    <3> QED
      BY <3>1, FS_EmptySet, ApiAssumption DEF Init, PoolInv
  <2>6. WalkInv
    BY DEF Init, WalkInv
  <2>7. CauseInv
    BY <2>2 DEF Init, CauseInv
  <2>8. AcceptedIsUnderWay
    BY ApiAssumption DEF Init, AcceptedIsUnderWay
  <2> QED
    BY <2>3, <2>4, <2>5, <2>6, <2>7, <2>8 DEF IInv
<1>2. IInv /\ [Next]_vars => IInv'
  <2> SUFFICES ASSUME IInv, [Next]_vars PROVE IInv'
    OBVIOUS
  <2>1. TypeOK /\ CallInv /\ PoolInv /\ WalkInv /\ CauseInv /\ AcceptedIsUnderWay
    BY DEF IInv
  <2>2. CallInv' /\ PoolInv' /\ WalkInv' /\ CauseInv' /\ AcceptedIsUnderWay'
    BY <2>1, CallStep, PoolStep, WalkStep, CauseStep, UnderWayStep
  <2>3. orders' \in [Ids -> Row'] /\ mix' \in Mixes
    <3>1. orders' \in [Ids -> Row] /\ mix' = mix
      BY <2>1, RowsStep DEF RowsStay
    <3>2. {mix'.existing[o].owner : o \in Ids} = {mix.existing[o].owner : o \in Ids}
      BY <3>1
    <3>3. Row' = Row
      BY <3>2 DEF Row
    <3> QED
      BY <2>1, <3>1, <3>3 DEF TypeOK
  <2>4. TypeOK'
    BY <2>1, <2>3, CallStep, PoolStep, WalkStep, AnswerStep, BoundStep, FaultsGrow DEF TypeOK, Codes
  <2> QED
    BY <2>2, <2>4 DEF IInv
<1> QED
  BY <1>1, <1>2, PTL DEF Spec

(* The types hold; the pool never gives out more connections than it has,  *)
(* nor takes back more than it gave.                                       *)
THEOREM ApiTypeCorrect == Spec => []TypeOK
<1>1. IInv => TypeOK
  BY DEF IInv
<1> QED
  BY <1>1, ApiInvariant, PTL

(* A client who pages to the end has missed nothing (order.repository.ts,  *)
(* list).                                                                  *)
THEOREM WalksMissNothing == Spec => []WalkSeesAll
<1>1. IInv => WalkSeesAll
  BY DEF IInv, WalkInv, WalkSeesAll
<1> QED
  BY <1>1, ApiInvariant, PTL

(* An order is PENDING exactly while an event can settle it, or has been   *)
(* given up (create-order, reprocess-order: the event in the transaction). *)
THEOREM AcceptedHaveEvents == Spec => []AcceptedIsUnderWay
<1>1. IInv => AcceptedIsUnderWay
  BY DEF IInv
<1> QED
  BY <1>1, ApiInvariant, PTL

(* A write fails only when the database has failed since it arrived or     *)
(* cannot hold its data, a read only then or without its runner's          *)
(* connection, whatever has failed before (unit-of-work; persistence).     *)
THEOREM FaultsDoNotLinger == Spec => FailuresHaveCause
<1> DEFINE Caused(r) ==
             /\ call[r].q.route # "ready"
             /\ call[r].q.route = "create" => faults' > call[r].since \/ Unstorable(call[r].q)
             /\ call[r].q.route = "reprocess" => faults' > call[r].since
             /\ call[r].q.route = "get" => faults' > call[r].since \/ conn["orders"] = "lost"
             /\ call[r].q.route = "login" /\ mix.provider = "local" =>
                  faults' > call[r].since \/ conn["users"] = "lost"
           Fine == answer' # NoAnswer /\ answer'.status = 500 => Caused(answer'.call)
<1>1. ASSUME IInv, Next PROVE Fine
  <2>1. TypeOK /\ CallInv /\ CauseInv /\ faults \in Nat
    BY <1>1, FaultsGrow DEF IInv
  <2>2. ASSUME NEW r \in Calls, NEW q \in mix.asked, Arrive(r, q) PROVE Fine
    BY <2>2, StatusFacts DEF Arrive
  <2>3. ASSUME NEW r \in Calls, Serve(r), ~Begin(r) PROVE answer'.call = r
    BY <2>3 DEF Serve, BeginFails, NoConnection, Get, Login, LoginAtKeycloak, Probe, Rollback,
                StatementFails, Commit, CommitLost, Break, Answered
  <2>4. ASSUME NEW r \in Calls, Serve(r), Fault, call[r].stage # "idle", call[r].q.route # "ready",
               ~Begin(r)
        PROVE  Fine
    <3>1. faults' = faults + 1 /\ call[r].since <= faults /\ call[r].since \in Nat
      BY <2>1, <2>4 DEF Fault, CallInv, TypeOK, Call
    <3> QED
      BY <2>1, <2>3, <2>4, <3>1
  <2>5. ASSUME NEW r \in Calls, BeginFails(r) \/ StatementFails(r) PROVE Fine
    <3>1. CASE call[r].q.route = "ready"
      <4>1. answer'.status = 503
        BY <2>5, <3>1 DEF BeginFails, StatementFails, Failed, Answered
      <4> QED
        BY <4>1
    <3>2. CASE call[r].q.route # "ready"
      <4>1. Fault /\ call[r].stage # "idle" /\ Serve(r)
        BY <2>5 DEF BeginFails, StatementFails, Serve
      <4>2. faults' # faults
        BY <2>1, <4>1 DEF Fault
      <4>3. ~Begin(r)
        BY <4>2 DEF Begin, counts
      <4> QED
        BY <2>4, <3>2, <4>1, <4>3
    <3> QED
      BY <3>1, <3>2
  <2>6. ASSUME NEW r \in Calls, CommitLost(r) PROVE Fine
    <3>1. /\ Fault /\ call[r].stage = "begun" /\ call[r].q.route # "ready" /\ Serve(r)
          /\ ~Begin(r)
      BY <2>6 DEF CommitLost, Serving, Serve, Begin
    <3> QED
      BY <2>4, <3>1
  <2>7. ASSUME NEW r \in Calls, Break(r) PROVE Fine
    <3>1. CASE call[r].q.route = "ready"
      BY <2>7, <3>1 DEF Break, Failed, Answered
    <3>2. CASE call[r].q.route # "ready"
      <4>1. faults > call[r].since /\ faults' = faults /\ answer'.call = r
        BY <2>1, <2>7 DEF Break, CauseInv, Answered, counts
      <4> QED
        BY <3>2, <4>1
    <3> QED
      BY <3>1, <3>2
  <2>8. ASSUME NEW r \in Calls, NoConnection(r) PROVE Fine
    <3>1. /\ answer'.call = r /\ conn[ConnectionOf(call[r].q.route)] = "lost"
          /\ ConnectionOf(call[r].q.route) \in {"orders", "users"}
      BY <2>8 DEF NoConnection, Answered, Runners
    <3> QED
      BY <3>1 DEF ConnectionOf
  <2>9. ASSUME NEW r \in Calls, Rollback(r) PROVE Fine
    <3>1. PICK error \in Thrown(r) : answer' = [call |-> r, status |-> Status(error)]
      BY <2>9 DEF Rollback, Answered
    <3>2. Status(error) = 500 => call[r].q.route = "create" /\ Unstorable(call[r].q)
      BY <3>1 DEF Thrown, Status
    <3> QED
      BY <3>1, <3>2
  <2>10. ASSUME NEW r \in Calls, LoginAtKeycloak(r) PROVE Fine
    <3>1. /\ answer'.call = r /\ call[r].q.route = "login" /\ mix.provider = "keycloak"
      BY <2>10 DEF LoginAtKeycloak, Serving, Answered
    <3> QED
      BY <3>1
  <2>11. ASSUME NEW r \in Calls, Get(r) \/ Login(r) \/ Probe(r) \/ Commit(r) PROVE Fine
    <3>1. answer'.status \in {200, 201, 202, 401, 404, 503}
      BY <2>11 DEF Get, Login, Probe, Commit, Answered, Status
    <3> QED
      BY <3>1
  <2>12. ASSUME answer' = NoAnswer PROVE Fine
    BY <2>12
  <2> HIDE DEF Fine
  <2> QED
    BY <1>1, <2>2, <2>5, <2>6, <2>7, <2>8, <2>9, <2>10, <2>11, <2>12
       DEF Next, Serve, Begin, Lose, Settle, GiveUp, StartWalk, WalkOn, ReadRows, ReadTotal, WalkFails
<1>2. IInv /\ [Next]_vars => [Fine]_vars
  BY <1>1
<1> QED
  BY <1>2, ApiInvariant, PTL DEF Spec, FailuresHaveCause

(* What a request is answered agrees with what the tables hold             *)
(* (create-order, reprocess-order, get-order).                             *)
THEOREM AnswersAgree == Spec => AnswersAreTrue
<1> DEFINE q == call[answer'.call].q
           Changed == {o \in Ids : orders'[o] # orders[o]}
           Agrees == answer' # NoAnswer =>
             /\ answer'.status \in {201, 202} =>
                  \E o \in Ids :
                    /\ Changed = {o}
                    /\ orders[o].status = (IF q.route = "create" THEN "ABSENT" ELSE "FAILED")
                    /\ orders'[o].status = "PENDING" /\ orders'[o].event = "carried"
             /\ answer'.status \in 400..499 => Changed = {}
             /\ (answer'.status = 200 /\ q.route = "get") => q.order \in InScope(q.token)
<1>1. ASSUME IInv, Next PROVE Agrees
  <2>1. TypeOK /\ CallInv
    BY <1>1 DEF IInv
  <2>2. ASSUME UNCHANGED orders PROVE Changed = {}
    BY <2>2
  <2>3. ASSUME NEW r \in Calls, NEW p \in mix.asked, Arrive(r, p) PROVE Agrees
    BY <2>2, <2>3, StatusFacts DEF Arrive
  <2>4. ASSUME NEW r \in Calls, Commit(r) \/ CommitLost(r) PROVE Agrees
    <3>1. /\ Serving(r, "begun", {"create", "reprocess"}) /\ Thrown(r) = {} /\ Writes(r)
          /\ answer'.call = r /\ answer'.status \in {201, 202, 500}
      BY <2>4, StatusFacts DEF Commit, CommitLost, Answered
    <3>2. PICK o \in Ids : Written(r, o)
      BY <2>1, <3>1, WritesFacts
    <3>3. Changed = {o}
      BY <3>2 DEF Written
    <3> QED
      BY <3>1, <3>2, <3>3 DEF Written
  <2>5. ASSUME NEW r \in Calls, Get(r) PROVE Agrees
    <3>1. /\ answer'.call = r /\ UNCHANGED orders
          /\ answer'.status = (IF call[r].q.order \in InScope(call[r].q.token)
                               THEN 200 ELSE Status("NotFoundError"))
      BY <2>5 DEF Get, Answered
    <3> QED
      BY <2>2, <3>1, StatusFacts
  <2>6. ASSUME NEW r \in Calls,
               BeginFails(r) \/ NoConnection(r) \/ Rollback(r) \/ StatementFails(r) \/ Break(r)
        PROVE  Agrees
    <3>1. /\ answer'.call = r /\ UNCHANGED orders
          /\ answer'.status \in {400, 401, 403, 404, 409, 422, 500, 503}
      BY <2>6, StatusFacts DEF BeginFails, NoConnection, Rollback, StatementFails, Break, Failed,
                               Answered
    <3> QED
      BY <2>2, <3>1
  <2>7. ASSUME NEW r \in Calls, Login(r) \/ LoginAtKeycloak(r) \/ Probe(r) PROVE Agrees
    <3>1. /\ answer'.call = r /\ UNCHANGED orders /\ call[r].q.route \in {"login", "ready"}
          /\ answer'.status \in {200, 400, 401, 403, 404, 409, 422, 500, 503}
      BY <2>7, StatusFacts DEF Login, LoginAtKeycloak, Probe, Serving, Answered
    <3> QED
      BY <2>2, <3>1
  <2>8. ASSUME answer' = NoAnswer PROVE Agrees
    BY <2>8
  <2> HIDE DEF Agrees
  <2> QED
    BY <1>1, <2>3, <2>4, <2>5, <2>6, <2>7, <2>8
       DEF Next, Serve, Begin, Lose, Settle, GiveUp, StartWalk, WalkOn, ReadRows, ReadTotal, WalkFails
<1>2. IInv /\ [Next]_vars => [Agrees]_vars
  BY <1>1
<1> QED
  BY <1>2, ApiInvariant, PTL DEF Spec, AnswersAreTrue
=============================================================================
