--------------------------- MODULE MCConsumerProcess ---------------------------
(* A small instance of ConsumerProcess for TLC. *)
EXTENDS ConsumerProcess

CONSTANTS created, unreadable, invalid, h1, h2

(* An event that can be processed beside one that cannot be read, or an event *)
(* that is refused. *)
PairOrRefused == {{created, unreadable}, {invalid}}

(* This deployment has a second retry, after a longer delay. *)
OneTier == <<5>>
TwoTiers == <<5, 15>>
=============================================================================
