---------------------------- MODULE MCPmbOrders -----------------------------
(***************************************************************************)
(* TLC instance of PmbOrders: five minute bars over two trading dates, with *)
(* bars outside regular hours; a stock, a future, an option contract that   *)
(* expires on the first date and one that expires on the second.            *)
(***************************************************************************)
EXTENDS PmbOrders, TLC

CONSTANTS stk, fut, near, far, sp, o1, o2

MCTradingDate == [b \in 0..4 |-> IF b < 3 THEN 1 ELSE 2]
MCSegment ==
  [b \in 0..4 |-> CASE b = 0 -> "PRE" [] b = 2 -> "POST" [] OTHER -> "REGULAR"]
MCKind == [i \in {stk, fut, near, far} |->
             CASE i = stk -> "STOCK" [] i = fut -> "FUTURE" [] OTHER -> "OPTION"]
MCExpiry == [i \in {stk, fut, near, far} |->
               CASE i = near -> 1 [] i = far -> 2 [] OTHER -> -1]

\* A daily session: every bar is a trading date of its own.
DailyTradingDate == [b \in 0..2 |-> b]
DailySegment == [b \in 0..2 |-> "REGULAR"]

\* Replacements of quantity -1 and 0 stand for those that are not positive.
MCMinQty == -1

Input(i, t, e, h, q, s) ==
  [instr |-> i, tif |-> t, expire |-> e, hours |-> h, qty |-> q, spread |-> s]

\* Requests of agents that trade stock and options one order at a time; the
\* last three are refused.
SingleOrders ==
  {Input(stk,  "DAY", Never, "REGULAR",  2, NoSpread),
   Input(stk,  "DAY", Never, "EXTENDED", 2, NoSpread),
   Input(stk,  "GTD", 1,     "EXTENDED", 2, NoSpread),
   Input(fut,  "DAY", Never, "REGULAR",  2, NoSpread),
   Input(near, "GTC", Never, "REGULAR",  2, NoSpread),
   Input(far,  "DAY", Never, "REGULAR",  1, NoSpread),
   Input(far,  "GTD", Never, "REGULAR",  1, NoSpread),
   Input(far,  "DAY", Never, "EXTENDED", 1, NoSpread),
   Input(stk,  "DAY", Never, "REGULAR",  0, NoSpread)}

\* A calendar spread: the two legs differ in expiry only.
SpreadOrders ==
  {Input(near, "GTC", Never, "REGULAR", 1, sp),
   Input(far,  "GTC", Never, "REGULAR", 1, sp)}

AllOrders == SingleOrders \cup SpreadOrders

Symmetry == Permutations(OrderIds)
=============================================================================
