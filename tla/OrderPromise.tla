---------------------------- MODULE OrderPromise ----------------------------
(***************************************************************************)
(* What the paper broker promises about one session's orders, whatever the *)
(* market does: an order is worked while it is open, its executed quantity *)
(* only grows and never passes what was ordered, it closes as FILLED       *)
(* exactly when it is complete, and a closed order never changes again.    *)
(* An order of quantity zero or less, which only a modification can make,  *)
(* executes whole or not at all.                                           *)
(*                                                                         *)
(* PmbOrders is the detailed specification that implements this one.       *)
(***************************************************************************)
EXTENDS Integers

CONSTANTS
  OrderIds,     \* the ids the broker hands out
  MinQty,       \* smallest quantity of an order
  MaxQty        \* largest quantity of an order

VARIABLE book   \* the orders of the session: id -> BookEntry

Outcomes == {"FILLED", "CANCELLED", "REJECTED", "EXPIRED"}

BookEntry ==
  [qty : MinQty..MaxQty, filled : MinQty..MaxQty,
   state : {"OPEN"} \cup Outcomes]

\* An order enters the book open and unexecuted.
Fresh(e) == e.filled = 0 /\ e.state = "OPEN"

\* The executed quantities an open order can have after a step.
Reachable(e) == IF e.qty > 0 THEN e.filled..e.qty ELSE {e.filled, e.qty}

\* What one step may do to an order that is already in the book.
Evolves(e, f) ==
  \/ f = e
  \/ /\ e.state = "OPEN"
     /\ f.qty = e.qty
     /\ f.filled \in Reachable(e)
     /\ f.state = "FILLED" => f.filled = e.qty
     /\ f.filled = e.qty /\ e.qty # 0 => f.state = "FILLED"

Init == book = [i \in {} |-> 0]

\* One request or one bar: every order evolves, at most one order is new.
Next ==
  \E S \in SUBSET OrderIds :
    /\ book' \in [S -> BookEntry]
    /\ DOMAIN book \subseteq S
    /\ \A i \in DOMAIN book : Evolves(book[i], book'[i])
    /\ \A i, j \in S \ DOMAIN book : i = j
    /\ \A i \in S \ DOMAIN book : Fresh(book'[i])

Spec == Init /\ [][Next]_book
=============================================================================
