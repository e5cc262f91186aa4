------------------------------ MODULE EventOutbox ------------------------------
(***************************************************************************)
(* What the transactional outbox promises to whoever appends an event: it  *)
(* is handed to the broker at least once before it counts as published,    *)
(* and it is either published or visibly given up.  What became of it is   *)
(* final, unless its handling overran the time it had: then it may be sent *)
(* and judged again.                                                       *)
(***************************************************************************)
CONSTANTS
  Rows          \* identifiers of outbox_messages, one per event

VARIABLES
  fate,         \* what became of each event
  delivered,    \* the events the broker has
  overrun       \* the events whose handling took too long

vars == <<fate, delivered, overrun>>

Init ==
  /\ fate = [e \in Rows |-> "none"]
  /\ delivered = {}
  /\ overrun = {}

-----------------------------------------------------------------------------
(* The event is committed with the order it is about. *)
Append(e) ==
  /\ fate[e] = "none"
  /\ fate' = [fate EXCEPT ![e] = "waiting"]
  /\ UNCHANGED <<delivered, overrun>>

Open(e) == fate[e] = "waiting" \/ (e \in overrun /\ fate[e] # "none")

(* The broker gets the event, perhaps not for the first time. *)
Deliver(e) ==
  /\ Open(e)
  /\ delivered' = delivered \union {e}
  /\ UNCHANGED <<fate, overrun>>

(* Events the broker has are settled, any number of them in one statement. *)
Settle ==
  \E S \in SUBSET delivered :
    /\ \A e \in S : Open(e)
    /\ fate' = [e \in Rows |-> IF e \in S THEN "published" ELSE fate[e]]
    /\ UNCHANGED <<delivered, overrun>>

GiveUp(e) ==
  /\ Open(e)
  /\ fate' = [fate EXCEPT ![e] = "abandoned"]
  /\ UNCHANGED <<delivered, overrun>>

(* Somebody is still at work on an event when it is handed out again. *)
Overrun(e) ==
  /\ fate[e] # "none"
  /\ overrun' = overrun \union {e}
  /\ UNCHANGED <<fate, delivered>>

Reopen(e) ==
  /\ fate[e] = "published" /\ e \in overrun
  /\ fate' = [fate EXCEPT ![e] = "waiting"]
  /\ UNCHANGED <<delivered, overrun>>

Next ==
  \/ \E e \in Rows : Append(e) \/ Deliver(e) \/ GiveUp(e) \/ Overrun(e) \/ Reopen(e)
  \/ Settle

Spec == Init /\ [][Next]_vars
=============================================================================
