----------------------------- MODULE MCOutboxRelay -----------------------------
(* Small instances of OutboxRelay for TLC. *)
EXTENDS OutboxRelay

CONSTANTS a, b
=============================================================================
