---------------------------- MODULE MCPmbReplay -----------------------------
(***************************************************************************)
(* TLC instance of PmbReplay: three bars over two trading dates, a stock,  *)
(* and an option contract whose bars are loaded in the middle of a session. *)
(***************************************************************************)
EXTENDS PmbReplay

Never == LastBar + 1

CONSTANTS stk, opt, c1

MCTradingDate == [b \in 0..2 |-> IF b < 2 THEN 1 ELSE 2]
MCSegment == [b \in 0..2 |-> IF b = 1 THEN "POST" ELSE "REGULAR"]
MCKind == [i \in {stk, opt} |-> IF i = opt THEN "OPTION" ELSE "STOCK"]
MCExpiry == [i \in {stk, opt} |-> IF i = opt THEN 1 ELSE -1]

\* Orders may be modified to quantity -1 or 0, and to positive ones.
MCMinQty == -1

\* One unit of each trades a bar, until orders are rejected at the last bar.
MCLiquidity ==
  [i \in {stk, opt} |-> [b \in 0..2 |-> IF b = 2 THEN Orders!Rejected ELSE 1]]

Input(i, t, e, q) ==
  [instr |-> i, tif |-> t, expire |-> e, hours |-> "REGULAR", qty |-> q,
   spread |-> NoSpread]

MCInputs == {Input(stk, "DAY", Never, 2), Input(opt, "GTC", Never, 1)}
=============================================================================
