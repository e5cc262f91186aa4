---------------------------- MODULE MessageDelivery ----------------------------
(***************************************************************************)
(* What delivering at least once promises to whoever publishes an event:   *)
(* the event stays owed until its effect is committed or it is a dead      *)
(* letter, whatever is lost or dies; and once it is owed no more it never  *)
(* comes back: no copy of it is left to be worked on.                      *)
(*                                                                         *)
(* There are no queues, connections, attempts or handlers here.            *)
(* ConsumerProcess has all of them and implements this specification.      *)
(***************************************************************************)
CONSTANTS
  Events,     \* the events there may be messages about
  Letter      \* Letter[e]: what a dead letter says it is about

VARIABLES
  published,  \* the events that came
  owed,       \* those of which a copy is queued or at work
  settled,    \* those whose effect is committed
  dead        \* what the dead letters are about

vars == <<published, owed, settled, dead>>

Init ==
  /\ published \subseteq Events
  /\ owed = published
  /\ settled = {} /\ dead = {}

-----------------------------------------------------------------------------
(* The effect of an event is committed, perhaps not for the first time. *)
Commit(e) ==
  /\ settled' = settled \union {e}
  /\ UNCHANGED dead

(* It is given up, where somebody can read it. *)
Bury(e) ==
  /\ dead' = dead \union {Letter[e]}
  /\ UNCHANGED settled

Finished(e) == e \in settled \/ Letter[e] \in dead

(* Copies go, any number of them when a process dies: the last one of an   *)
(* event only after its end.                                               *)
Forget ==
  /\ owed' \subseteq owed
  /\ \A e \in owed \ owed' : Finished(e)'
  /\ UNCHANGED published

Next ==
  /\ (\E e \in owed : Commit(e) \/ Bury(e)) \/ UNCHANGED <<settled, dead>>
  /\ Forget

Spec == Init /\ [][Next]_vars
=============================================================================
