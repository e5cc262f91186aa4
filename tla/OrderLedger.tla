------------------------------ MODULE OrderLedger ------------------------------
(***************************************************************************)
(* What order processing promises to whoever reads the database: orders    *)
(* move through their life cycle one whole step at a time, and stock is    *)
(* taken for every item of an order or for none.                           *)
(*                                                                         *)
(* There are no transactions, locks, messages or processes here.           *)
(* OrderProcessing has all of them and implements this specification.      *)
(***************************************************************************)
EXTENDS Integers, FiniteSets

CONSTANTS
  Orders,             \* order identifiers
  Products,           \* product identifiers, integers as in products.id
  Quantity,           \* Quantity[o][p]: units of p that order o asks for
  InitialStock,       \* stock of each product in the seeded catalogue
  ManualIntervention  \* TRUE when an operator edits the tables by hand

VARIABLES
  status,    \* orders.status, or "ABSENT" while the row does not exist
  code,      \* orders.failure_code, "NONE" for NULL
  gen,       \* how many times the order has been sent back for reprocessing
  stock,     \* products.stock
  reserved   \* stock_reservations: the (order, product) pairs with a row

vars == <<status, code, gen, stock, reserved>>

Items(o) == {p \in Products : Quantity[o][p] > 0}

Init ==
  /\ status = [o \in Orders |-> "ABSENT"]
  /\ code = [o \in Orders |-> "NONE"]
  /\ gen = [o \in Orders |-> 0]
  /\ stock = InitialStock
  /\ reserved = {}

-----------------------------------------------------------------------------
(* POST /orders *)
Place(o) ==
  /\ status[o] = "ABSENT"
  /\ status' = [status EXCEPT ![o] = "PENDING"]
  /\ UNCHANGED <<code, gen, stock, reserved>>

(* The order gets everything it asked for, at once. *)
Fits(o) == \A p \in Items(o) : stock[p] >= Quantity[o][p]

Take(o) == [p \in Products |-> IF p \in Items(o) THEN stock[p] - Quantity[o][p] ELSE stock[p]]

Conclude(o) ==
  /\ status[o] = "PENDING"
  /\ Fits(o)
  /\ \A p \in Items(o) : <<o, p>> \notin reserved
  /\ status' = [status EXCEPT ![o] = "PROCESSED"]
  /\ stock' = Take(o)
  /\ reserved' = reserved \union ({o} \X Items(o))
  /\ UNCHANGED <<code, gen>>

(* The order fails for a recorded reason and takes nothing. *)
Fail(o, c) ==
  /\ status[o] = "PENDING"
  /\ status' = [status EXCEPT ![o] = "FAILED"]
  /\ code' = [code EXCEPT ![o] = c]
  /\ UNCHANGED <<gen, stock, reserved>>

(* POST /orders/{id}/reprocess *)
Requeue(o) ==
  /\ status[o] = "FAILED"
  /\ status' = [status EXCEPT ![o] = "PENDING"]
  /\ code' = [code EXCEPT ![o] = "NONE"]
  /\ gen' = [gen EXCEPT ![o] = @ + 1]
  /\ UNCHANGED <<stock, reserved>>

(* An operator puts a processed order back to PENDING in the table. *)
Reset(o) ==
  /\ ManualIntervention
  /\ status[o] = "PROCESSED"
  /\ status' = [status EXCEPT ![o] = "PENDING"]
  /\ UNCHANGED <<code, gen, stock, reserved>>

Next ==
  \E o \in Orders :
    \/ Place(o)
    \/ Conclude(o)
    \/ \E c \in {"INSUFFICIENT_STOCK", "RETRIES_EXHAUSTED"} : Fail(o, c)
    \/ Requeue(o)
    \/ Reset(o)

Spec == Init /\ [][Next]_vars
=============================================================================
