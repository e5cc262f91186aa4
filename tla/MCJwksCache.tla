------------------------------ MODULE MCJwksCache ------------------------------
(* A small instance of JwksCache for TLC. *)
EXTENDS JwksCache

CONSTANTS k1, k2, v1, v2
=============================================================================
