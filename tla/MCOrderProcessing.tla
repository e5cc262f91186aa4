--------------------------- MODULE MCOrderProcessing ---------------------------
(* Small instances of OrderProcessing for TLC. *)
EXTENDS OrderProcessing, TLC

CONSTANTS o1, o2, o3, w1, w2, c1, r1, r2

(* Two orders asking for both products, in a catalogue with room for one.  *)
BothProducts == [o \in Orders |-> [p \in Products |-> 1]]
OneOfEach == [p \in Products |-> 1]

(* Room for both orders. *)
TwoOfEach == [p \in Products |-> 2]

ConsumerSymmetry == Permutations(Consumers)
ActorSymmetry == Permutations(Consumers) \union Permutations(Operators)
=============================================================================
