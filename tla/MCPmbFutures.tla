---------------------------- MODULE MCPmbFutures ----------------------------
(***************************************************************************)
(* TLC instance of PmbFutures: a continuous future that goes to its next   *)
(* contract before bar 2.  Prices are multiples of 25200, so that the       *)
(* average prices of the positions that arise are integers.                *)
(***************************************************************************)
EXTENDS PmbFutures, TLC

CONSTANTS cl, noContract

\* Minute bars in two sessions, of one and three bars, and the first bar of a
\* third one: settlements are due at bars 0 and 3, and the roll is between them.
MCSessionDate == [b \in 0..4 |-> CASE b = 0 -> 0 [] b \in 1..3 -> 1 [] b = 4 -> 2]

MCContractAt == [s \in {cl} |-> [b \in 0..4 |-> IF b < 2 THEN 1 ELSE 2]]
=============================================================================
