---------------------------- MODULE MCPmbAccount ----------------------------
(***************************************************************************)
(* TLC instance of PmbAccount: two callers, one stock, three trades over   *)
(* two days.  Prices are multiples of 60, so that averages stay integers.  *)
(***************************************************************************)
EXTENDS PmbAccount, TLC

CONSTANTS stk, c1, c2

\* The second date has another price, the third none.
MCPrice == [s \in {stk} |-> [d \in 0..2 |-> CASE d = 0 -> 60 [] d = 1 -> 120
                                             [] d = 2 -> 0]]

Symmetry == Permutations(Clients)
=============================================================================
