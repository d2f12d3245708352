------------------------------- MODULE DayGate ------------------------------
(***************************************************************************)
(* What a day-gated broker account promises: trades join the day that is   *)
(* open, a day that has ended takes no more of them, days follow one       *)
(* another without a gap, and a closed account stays as it is.             *)
(*                                                                         *)
(* PmbAccount is the detailed specification that implements this one.      *)
(***************************************************************************)
EXTENDS Naturals, Sequences

CONSTANT Trades      \* the ids of trades

VARIABLES
  gate,      \* "OPEN" while the day takes trades, "SHUT" after it, "CLOSED"
  blotter    \* the trades of each day so far; its length is the current day

Init == gate = "OPEN" /\ blotter = <<{}>>

Today == Len(blotter)

\* A new trade joins the open day.
Trade ==
  /\ gate = "OPEN"
  /\ \E t \in Trades :
       /\ \A d \in 1..Today : t \notin blotter[d]
       /\ blotter' = [blotter EXCEPT ![Today] = @ \cup {t}]
  /\ UNCHANGED gate

EndDay == gate = "OPEN" /\ gate' = "SHUT" /\ UNCHANGED blotter

\* The next day opens, whether or not the current one was ended before.
NextDay ==
  gate # "CLOSED" /\ gate' = "OPEN" /\ blotter' = Append(blotter, {})

CloseAccount == gate' = "CLOSED" /\ UNCHANGED blotter

Next == Trade \/ EndDay \/ NextDay \/ CloseAccount

Spec == Init /\ [][Next]_<<gate, blotter>>
=============================================================================
