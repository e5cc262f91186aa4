------------------------------ MODULE StockProofs ------------------------------
(***************************************************************************)
(* No unit of stock is lost or made up: what products.stock and            *)
(* stock_reservations hold of a product adds up to its seeded stock.       *)
(*                                                                         *)
(* The reserved units are a sum over the orders, MapThenSumSet of the      *)
(* community modules.  First come the facts about that sum, by induction   *)
(* over sets of orders; an induction hypothesis is a set, the sets of      *)
(* orders it holds of, so that every step is first-order.                  *)
(***************************************************************************)
EXTENDS OrderProcessingProofs, FiniteSetTheorems

-----------------------------------------------------------------------------
(* Induction                                                               *)

(* A set of natural numbers with 0 and every successor has them all. *)
LEMMA NaturalInduction ==
  ASSUME NEW N \in SUBSET Nat, 0 \in N, \A n \in N : n + 1 \in N
  PROVE  N = Nat
<1> DEFINE R == OpToRel(<, Nat)
<1>1. SUFFICES ASSUME Nat \ N # {} PROVE FALSE
  OBVIOUS
<1>2. PICK m \in Nat \ N : \A n \in Nat \ N : <<n, m>> \notin R
  <2> HIDE DEF R
  <2>1. IsWellFoundedOn(R, Nat)
    BY NatLessThanWellFounded DEF R
  <2> QED
    BY <1>1, <2>1, WFMin
<1>3. m # 0 /\ m - 1 \in Nat /\ m - 1 < m
  OBVIOUS
<1>4. m - 1 \notin Nat \ N
  BY <1>2, <1>3 DEF OpToRel
<1> QED
  BY <1>3, <1>4

(* The order a sum over the orders of s adds first. *)
First(s) == CHOOSE o \in s : TRUE

(* A set of sets of orders that has the empty set, and every set whose     *)
(* orders but the first it has, has every set of orders.                   *)
LEMMA OrderSetInduction ==
  ASSUME NEW F, {} \in F,
         \A s \in SUBSET Orders : s # {} /\ s \ {First(s)} \in F => s \in F
  PROVE  SUBSET Orders \subseteq F
<1> DEFINE N == {n \in Nat : \A s \in SUBSET Orders : Cardinality(s) = n => s \in F}
<1>1. \A s \in SUBSET Orders : IsFiniteSet(s) /\ Cardinality(s) \in Nat
  BY ConstantsAssumption, FS_Subset, FS_CardinalityType
<1>2. 0 \in N
  BY <1>1, FS_EmptySet
<1>3. ASSUME NEW n \in N PROVE n + 1 \in N
  <2> SUFFICES ASSUME NEW s \in SUBSET Orders, Cardinality(s) = n + 1 PROVE s \in F
    OBVIOUS
  <2>1. s # {}
    BY FS_EmptySet
  <2>2. First(s) \in s
    BY <2>1 DEF First
  <2>3. Cardinality(s \ {First(s)}) = n
    <3>1. Cardinality(s \ {First(s)}) = Cardinality(s) - 1
      BY <1>1, <2>2, FS_RemoveElement
    <3> QED
      BY <3>1
  <2> QED
    BY <2>1, <2>3
<1>4. N = Nat
  <2> HIDE DEF N
  <2>1. N \subseteq Nat
    BY DEF N
  <2> QED
    BY <1>2, <1>3, <2>1, NaturalInduction
<1> QED
  BY <1>1, <1>4

-----------------------------------------------------------------------------
(* The sum                                                                 *)

(* The units of p that order o has, when R is the set of reservations. *)
Units(R, p, o) == IF <<o, p>> \in R THEN Quantity[o][p] ELSE 0

(* What sum holds for s, given what it holds for smaller sets. *)
SumOf(sum, R, p, s) ==
  IF s = {} THEN 0 ELSE Units(R, p, First(s)) + sum[s \ {First(s)}]

(* sum gives for every set of orders the units of p they have together. *)
Sums(sum, R, p) == sum = [s \in SUBSET Orders |-> SumOf(sum, R, p, s)]

UnitsOf(R, p) == CHOOSE sum : Sums(sum, R, p)

(* The sets of at most n orders. *)
Upto(n) == {s \in SUBSET Orders : Cardinality(s) <= n}

(* Without its first order a set has one order less; the sets of at most   *)
(* as many orders as there are, are all.                                   *)
LEMMA UptoSteps ==
  /\ Upto(0) = {{}}
  /\ \A n \in Nat : \A s \in Upto(n + 1) : s # {} => s \ {First(s)} \in Upto(n)
  /\ \A n \in Nat : Upto(n) \subseteq Upto(n + 1)
  /\ Cardinality(Orders) \in Nat
  /\ Upto(Cardinality(Orders)) = SUBSET Orders
<1>1. \A s \in SUBSET Orders : IsFiniteSet(s) /\ Cardinality(s) \in Nat
  BY ConstantsAssumption, FS_Subset, FS_CardinalityType
<1>2. Upto(0) = {{}}
  <2>1. ASSUME NEW s \in Upto(0) PROVE s = {}
    <3>1. s \in SUBSET Orders /\ Cardinality(s) <= 0
      BY DEF Upto
    <3>2. Cardinality(s) = 0
      BY <1>1, <3>1
    <3> QED
      BY <1>1, <3>1, <3>2, FS_EmptySet
  <2>2. {} \in Upto(0)
    BY FS_EmptySet DEF Upto
  <2> QED
    BY <2>1, <2>2
<1>3. ASSUME NEW n \in Nat, NEW s \in Upto(n + 1), s # {}
      PROVE  s \ {First(s)} \in Upto(n)
  <2> DEFINE t == s \ {First(s)}
  <2>1. First(s) \in s /\ s \in SUBSET Orders /\ Cardinality(s) <= n + 1
    BY <1>3 DEF First, Upto
  <2>2. Cardinality(s) \in Nat /\ IsFiniteSet(s)
    BY <1>1, <2>1
  <2>3. Cardinality(t) = Cardinality(s) - 1
    BY <2>1, <2>2, FS_RemoveElement
  <2>4. Cardinality(t) <= n
    BY <2>1, <2>2, <2>3
  <2> QED
    BY <2>1, <2>4 DEF Upto
<1>4. ASSUME NEW n \in Nat PROVE Upto(n) \subseteq Upto(n + 1)
  <2> SUFFICES ASSUME NEW s \in Upto(n) PROVE s \in Upto(n + 1)
    OBVIOUS
  <2>1. s \in SUBSET Orders /\ Cardinality(s) <= n
    BY DEF Upto
  <2>2. Cardinality(s) \in Nat
    BY <1>1, <2>1
  <2> QED
    BY <2>1, <2>2 DEF Upto
<1>5. Cardinality(Orders) \in Nat
  BY ConstantsAssumption, FS_CardinalityType
<1>6. Upto(Cardinality(Orders)) = SUBSET Orders
  BY ConstantsAssumption, FS_Subset DEF Upto
<1> QED
  BY <1>2, <1>3, <1>4, <1>5, <1>6

(* There is such a function: it is built up from the smaller sets of orders. *)
LEMMA SumExists ==
  ASSUME NEW R, NEW p
  PROVE  Sums(UnitsOf(R, p), R, p)
<1> DEFINE Built(n, sum) == sum = [s \in Upto(n) |-> SumOf(sum, R, p, s)]
           N == {n \in Nat : \E sum : Built(n, sum)}
<1>1. 0 \in N
  <2> DEFINE f == [s \in Upto(0) |-> 0]
  <2>1. \A s \in Upto(0) : SumOf(f, R, p, s) = 0
    BY UptoSteps DEF SumOf
  <2>2. Built(0, f)
    BY <2>1
  <2> QED
    BY <2>2
<1>2. ASSUME NEW n \in N PROVE n + 1 \in N
  <2>1. PICK f : Built(n, f)
    OBVIOUS
  <2> DEFINE g == [s \in Upto(n + 1) |-> SumOf(f, R, p, s)]
  <2>2. ASSUME NEW s \in Upto(n + 1) PROVE SumOf(g, R, p, s) = SumOf(f, R, p, s)
    <3>1. CASE s = {}
      BY <3>1 DEF SumOf
    <3>2. CASE s # {}
      <4> DEFINE t == s \ {First(s)}
      <4>1. t \in Upto(n) /\ t \in Upto(n + 1)
        BY <3>2, UptoSteps
      <4>2. f[t] = SumOf(f, R, p, t)
        BY <2>1, <4>1
      <4>3. g[t] = f[t]
        BY <4>1, <4>2
      <4> QED
        BY <3>2, <4>3 DEF SumOf
    <3> QED
      BY <3>1, <3>2
  <2>3. Built(n + 1, g)
    BY <2>2
  <2>4. n + 1 \in Nat
    OBVIOUS
  <2> HIDE DEF g, Built
  <2> QED
    BY <2>3, <2>4
<1>3. N = Nat
  <2>1. N \subseteq Nat
    OBVIOUS
  <2> HIDE DEF N
  <2> QED
    BY <1>1, <1>2, <2>1, NaturalInduction
<1>4. PICK sum : Built(Cardinality(Orders), sum)
  <2>1. Cardinality(Orders) \in N
    BY <1>3, UptoSteps
  <2> HIDE DEF Built
  <2> QED
    BY <2>1
<1>5. Sums(sum, R, p)
  BY <1>4, UptoSteps DEF Sums
<1> QED
  BY <1>5 DEF UnitsOf

(* The units of the first order, and those of the others. *)
LEMMA SumAddsUp ==
  ASSUME NEW R, NEW p, NEW s \in SUBSET Orders
  PROVE  UnitsOf(R, p)[s] = IF s = {} THEN 0
                            ELSE Units(R, p, First(s)) + UnitsOf(R, p)[s \ {First(s)}]
<1>1. UnitsOf(R, p) = [t \in SUBSET Orders |-> SumOf(UnitsOf(R, p), R, p, t)]
  BY SumExists DEF Sums
<1>2. UnitsOf(R, p)[s] = SumOf(UnitsOf(R, p), R, p, s)
  BY <1>1
<1> QED
  BY <1>2 DEF SumOf

(* Without reservations the sum is 0. *)
LEMMA NothingReserved ==
  ASSUME NEW p
  PROVE  UnitsOf({}, p)[Orders] = 0
<1> DEFINE F == {s \in SUBSET Orders : UnitsOf({}, p)[s] = 0}
<1>1. {} \in F
  <2>1. UnitsOf({}, p)[{}] = 0
    BY SumAddsUp
  <2> QED
    BY <2>1
<1>2. ASSUME NEW s \in SUBSET Orders, s # {}, s \ {First(s)} \in F PROVE s \in F
  <2>1. UnitsOf({}, p)[s] = Units({}, p, First(s)) + UnitsOf({}, p)[s \ {First(s)}]
    BY <1>2, SumAddsUp
  <2>2. Units({}, p, First(s)) = 0
    BY DEF Units
  <2> QED
    BY <1>2, <2>1, <2>2
<1>3. SUBSET Orders \subseteq F
  <2> HIDE DEF F
  <2> QED
    BY <1>1, <1>2, OrderSetInduction
<1> QED
  BY <1>3

(* The sum is a natural number. *)
LEMMA SumIsNatural ==
  ASSUME NEW R, NEW p \in Products
  PROVE  \A s \in SUBSET Orders : UnitsOf(R, p)[s] \in Nat
<1> DEFINE F == {s \in SUBSET Orders : UnitsOf(R, p)[s] \in Nat}
<1>1. {} \in F
  <2>1. UnitsOf(R, p)[{}] = 0
    BY SumAddsUp
  <2> QED
    BY <2>1
<1>2. ASSUME NEW s \in SUBSET Orders, s # {}, s \ {First(s)} \in F PROVE s \in F
  <2>1. UnitsOf(R, p)[s] = Units(R, p, First(s)) + UnitsOf(R, p)[s \ {First(s)}]
    BY <1>2, SumAddsUp
  <2>2. First(s) \in Orders
    BY <1>2 DEF First
  <2>3. Units(R, p, First(s)) \in Nat
    BY <2>2, ConstantsAssumption DEF Units
  <2> QED
    BY <1>2, <2>1, <2>3
<1>3. SUBSET Orders \subseteq F
  <2> HIDE DEF F
  <2> QED
    BY <1>1, <1>2, OrderSetInduction
<1> QED
  BY <1>3

(* When S has d units more than R for the order o, and no more for another *)
(* order, the sum has d units more.                                        *)
LEMMA OneOrderAddsUnits ==
  ASSUME NEW R, NEW S, NEW p \in Products, NEW o \in Orders, NEW d \in Nat,
         \A q \in Orders : Units(S, p, q) = Units(R, p, q) + (IF q = o THEN d ELSE 0)
  PROVE  UnitsOf(S, p)[Orders] = UnitsOf(R, p)[Orders] + d
<1> DEFINE F == {s \in SUBSET Orders :
                   UnitsOf(S, p)[s] = UnitsOf(R, p)[s] + (IF o \in s THEN d ELSE 0)}
<1>1. \A q \in Orders : Units(R, p, q) \in Nat
  BY ConstantsAssumption DEF Units
<1>2. {} \in F
  <2>1. UnitsOf(R, p)[{}] = 0 /\ UnitsOf(S, p)[{}] = 0
    BY SumAddsUp
  <2> QED
    BY <2>1
<1>3. ASSUME NEW s \in SUBSET Orders, s # {}, s \ {First(s)} \in F PROVE s \in F
  <2> DEFINE q == First(s)
             t == s \ {q}
  <2>1. q \in s /\ q \in Orders
    BY <1>3 DEF First
  <2>2. o \in s <=> (q = o \/ o \in t)
    BY <2>1
  <2>3. q = o => o \notin t
    OBVIOUS
  <2>4. /\ UnitsOf(R, p)[s] = Units(R, p, q) + UnitsOf(R, p)[t]
        /\ UnitsOf(S, p)[s] = Units(S, p, q) + UnitsOf(S, p)[t]
    BY <1>3, SumAddsUp
  <2>5. /\ UnitsOf(R, p)[t] \in Nat
        /\ UnitsOf(S, p)[t] = UnitsOf(R, p)[t] + (IF o \in t THEN d ELSE 0)
    BY <1>3, SumIsNatural
  <2> HIDE DEF q, t
  <2> QED
    BY <1>1, <2>1, <2>2, <2>3, <2>4, <2>5
<1>4. SUBSET Orders \subseteq F
  <2> HIDE DEF F
  <2> QED
    BY <1>2, <1>3, OrderSetInduction
<1> QED
  BY <1>4

-----------------------------------------------------------------------------
(* Conservation                                                            *)

(* StockConserved, with the sum as the function above. *)
StockInv ==
  \A p \in Products : stock[p] + UnitsOf(reserved, p)[Orders] = InitialStock[p]

LEMMA StockInvIsConservation == StockInv => StockConserved
  BY DEF StockInv, StockConserved, UnitsOf, Sums, SumOf, Units, First,
         MapThenSumSet, MapThenFoldSet

(* A commit moves the units of each product it took from its stock to the  *)
(* order's new reservations, and the reservations were not there before.   *)
LEMMA CommitKeepsStockInv ==
  ASSUME IInv, StockInv, NEW w \in Consumers, Commit(w)
  PROVE  StockInv'
<1> DEFINE o == msg[w].order
<1>1. o \in Orders /\ taken[w] \in SUBSET Products
  BY DEF IInv, TypeOK, Commit, Message
<1>2. reserved' = reserved \union ({o} \X taken[w])
  BY DEF Commit
<1> SUFFICES ASSUME NEW p \in Products
             PROVE  stock'[p] + UnitsOf(reserved', p)[Orders] = InitialStock[p]
  BY DEF StockInv
<1> DEFINE d == IF p \in taken[w] THEN Quantity[o][p] ELSE 0
<1>3. p \in taken[w] => <<o, p>> \notin reserved
  BY DEF IInv, ProductLockInv, AlreadyReserved
<1>4. /\ UnitsOf(reserved, p)[Orders] \in Nat
      /\ UnitsOf(reserved', p)[Orders] = UnitsOf(reserved, p)[Orders] + d
  <2>1. \A q \in Orders :
          Units(reserved', p, q) = Units(reserved, p, q) + (IF q = o THEN d ELSE 0)
    BY <1>1, <1>2, <1>3, ConstantsAssumption DEF Units
  <2>2. d \in Nat
    BY <1>1, ConstantsAssumption
  <2> HIDE DEF o, d
  <2> QED
    BY <1>1, <2>1, <2>2, OneOrderAddsUnits, SumIsNatural
<1>5. stock'[p] = stock[p] - d /\ stock[p] \in Nat /\ d \in Nat
  <2>1. stock[p] \in Nat /\ Quantity[o][p] \in Nat
    BY <1>1, ConstantsAssumption DEF IInv, TypeOK
  <2>2. stock'[p] = IF p \in taken[w] THEN stock[p] - Quantity[o][p] ELSE stock[p]
    BY DEF Commit
  <2> HIDE DEF o
  <2> QED
    BY <2>1, <2>2
<1>6. stock[p] + UnitsOf(reserved, p)[Orders] = InitialStock[p]
  BY DEF StockInv
<1> HIDE DEF o, d
<1> QED
  BY <1>4, <1>5, <1>6

(* Every unit that left products.stock is in a reservation, for any        *)
(* catalogue, orders and consumers: a repeated delivery, a rollback, a     *)
(* lost answer to a COMMIT or a crash neither takes a unit twice nor loses *)
(* one.                                                                    *)
THEOREM StockIsConserved == Spec => []StockConserved
<1>1. Init => StockInv
  <2> SUFFICES ASSUME Init, NEW p \in Products
               PROVE  stock[p] + UnitsOf(reserved, p)[Orders] = InitialStock[p]
    BY DEF StockInv
  <2>1. UnitsOf(reserved, p)[Orders] = 0
    BY NothingReserved DEF Init
  <2>2. stock[p] = InitialStock[p] /\ InitialStock[p] \in Nat
    BY ConstantsAssumption DEF Init
  <2> QED
    BY <2>1, <2>2
<1>2. IInv /\ StockInv /\ [Next]_vars => StockInv'
  <2> SUFFICES ASSUME IInv, StockInv, [Next]_vars PROVE StockInv'
    OBVIOUS
  <2>1. CASE UNCHANGED stock /\ UNCHANGED reserved
    BY <2>1 DEF StockInv
  <2>2. ASSUME NEW w \in Consumers, Commit(w) PROVE StockInv'
    BY <2>2, CommitKeepsStockInv
  <2> QED
    BY <2>1, <2>2, ReservationStep
<1> QED
  BY <1>1, <1>2, StockInvIsConservation, InvariantHolds, PTL DEF Spec

(* A product is never oversold: the orders together never have more units  *)
(* of it than the catalogue was seeded with.                               *)
NeverOversold ==
  \A p \in Products :
    LET Reserved(o) == IF <<o, p>> \in reserved THEN Quantity[o][p] ELSE 0
    IN  MapThenSumSet(Reserved, Orders) <= InitialStock[p]

(* Oversell is impossible at any load: conservation, and a stock that is   *)
(* never negative.                                                         *)
THEOREM NothingIsOversold == Spec => []NeverOversold
<1>1. TypeOK /\ StockConserved => NeverOversold
  <2> SUFFICES ASSUME TypeOK, StockConserved, NEW p \in Products
               PROVE  LET Reserved(o) == IF <<o, p>> \in reserved THEN Quantity[o][p] ELSE 0
                      IN  MapThenSumSet(Reserved, Orders) <= InitialStock[p]
    BY DEF NeverOversold
  <2> DEFINE Reserved(o) == IF <<o, p>> \in reserved THEN Quantity[o][p] ELSE 0
             sum == MapThenSumSet(Reserved, Orders)
  <2>1. sum = UnitsOf(reserved, p)[Orders]
    BY DEF UnitsOf, Sums, SumOf, Units, First, MapThenSumSet, MapThenFoldSet
  <2>2. sum \in Nat
    BY <2>1, SumIsNatural
  <2>3. stock[p] + sum = InitialStock[p]
    BY DEF StockConserved
  <2>4. stock[p] \in Nat
    BY DEF TypeOK
  <2>5. sum <= InitialStock[p]
    <3> HIDE DEF sum
    <3> QED
      BY <2>2, <2>3, <2>4
  <2> QED
    BY <2>5
<1> QED
  BY <1>1, TypeCorrect, StockIsConserved, PTL

================================================================================
