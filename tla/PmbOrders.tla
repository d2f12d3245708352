----------------------------- MODULE PmbOrders ------------------------------
(***************************************************************************)
(* Orders of one PMB replay session: the session clock, the order state    *)
(* machine (order_manager.py), the requests of order_service.py and the    *)
(* order handling of one bar (session_service._process_tick with           *)
(* execution_engine.process_step).                                         *)
(*                                                                         *)
(* Every handler is synchronous code of one asyncio process, so a request  *)
(* or a bar is one atomic step and the interleaving is that of the         *)
(* requests.  Prices, the ledger and the margin engine are the environment *)
(* here: at each bar they decide, for each order, whether it waits, is     *)
(* rejected, or executes and how much.  The ledger is taken to book every  *)
(* execution: an exception in it, which breaks the bar off, is left out.   *)
(***************************************************************************)
EXTENDS Integers, Functions

CONSTANTS
  LastBar,       \* index of the last bar of the session's clock grid
  TradingDate,   \* bar -> trading date (trading_date_of)
  Segment,       \* bar -> session segment (segment_of)
  Instruments,
  Kind,          \* instrument -> "STOCK", "OPTION" or "FUTURE"
  Expiry,        \* instrument -> expiry date of an option contract
  SpreadIds,     \* ids a client uses to link the legs of a spread
  Inputs,        \* the order specs clients send
  EnforceHours,  \* ExecutionConfig.enforce_trading_hours
  OrderIds,      \* the ids orders get; bounds the orders of a session
  MinQty,        \* smallest quantity a request gives: modify_order takes any
  MaxQty,        \* largest order quantity
  NoSpread       \* an order outside any spread

Bars     == 0..LastBar
Quantities == MinQty..MaxQty
NoDate   == -1                 \* session_date = None
Never    == LastBar + 1        \* expire_ts = None
Segments == {"PRE", "REGULAR", "POST", "OVERNIGHT"}
Hours    == {"REGULAR", "EXTENDED", "OVERNIGHT"}
Kinds    == {"STOCK", "OPTION", "FUTURE"}

Active   == {"ACCEPTED", "PARTIALLY_FILLED"}
Terminal == {"FILLED", "CANCELLED", "REJECTED", "EXPIRED"}

\* expire is the last bar at or before expire_ts (-1: before the first bar).
OrderSpec ==
  [instr : Instruments, tif : {"DAY", "GTC", "GTD"}, expire : -1..Never,
   hours : Hours, qty : Quantities, spread : SpreadIds \cup {NoSpread}]

\* placed is the clock index at submission (created_ts), date the session_date.
Order ==
  [instr : Instruments, tif : {"DAY", "GTC", "GTD"}, expire : -1..Never,
   hours : Hours, qty : Quantities, spread : SpreadIds \cup {NoSpread},
   filled : Quantities, status : Active \cup Terminal,
   date : Int, placed : -1..LastBar]

Trade == [order : OrderIds, bar : Bars, qty : Quantities]

ASSUME GridAssumption ==
  /\ LastBar \in Nat
  /\ TradingDate \in [Bars -> Nat]
  /\ Segment \in [Bars -> Segments]
ASSUME InstrumentAssumption ==
  /\ Kind \in [Instruments -> Kinds]
  /\ Expiry \in [Instruments -> Int]
ASSUME InputAssumption ==
  /\ EnforceHours \in BOOLEAN
  /\ MinQty \in Int /\ MinQty <= 0
  /\ MaxQty \in Nat \ {0}
  /\ Inputs \subseteq OrderSpec

VARIABLES
  idx,      \* clock._index: the bar processed last, -1 before the first
  status,   \* session status
  orders,   \* order_manager._orders: id -> Order
  trades    \* the trades recorded so far

vars == <<idx, status, orders, trades>>

-----------------------------------------------------------------------------
(* Order state machine.                                                    *)

IsOpen(o) == o.status \in Active

\* Mutant: the remaining quantity ignores earlier executions.
RemainingOfFullSize(o) == o.qty

\* Order.remaining_qty, which record_fill recomputes on every execution.
Remaining(o) == o.qty - o.filled

\* Mutant: an order belongs to the date it was placed on.
AcceptedOnDate(s, at) ==
  [instr |-> s.instr, tif |-> s.tif, expire |-> s.expire, hours |-> s.hours,
   qty |-> s.qty, spread |-> s.spread, filled |-> 0, status |-> "ACCEPTED",
   date |-> IF at = -1 THEN NoDate ELSE TradingDate[at], placed |-> at]

\* OrderManager.submit followed by accept, with the clock at index at.
Accepted(s, at) ==
  [instr |-> s.instr, tif |-> s.tif, expire |-> s.expire, hours |-> s.hours,
   qty |-> s.qty, spread |-> s.spread,
   filled |-> 0, status |-> "ACCEPTED", date |-> NoDate, placed |-> at]

\* OrderManager.validate_order: the checks that concern the modelled fields.
Valid(s) ==
  /\ s.qty > 0
  /\ s.tif = "GTD" => s.expire # Never
  /\ s.hours # "REGULAR" => Kind[s.instr] # "OPTION"

Cancelled(o) == [o EXCEPT !.status = "CANCELLED"]

\* Mutant: the completion test is off by one.
FilledPastTotal(o, q) ==
  [o EXCEPT !.filled = @ + q,
            !.status = IF o.filled + q > o.qty THEN "FILLED"
                                               ELSE "PARTIALLY_FILLED"]

\* OrderManager.record_fill
Filled(o, q) ==
  [o EXCEPT !.filled = @ + q,
            !.status = IF o.filled + q >= o.qty THEN "FILLED"
                                                ELSE "PARTIALLY_FILLED"]

-----------------------------------------------------------------------------
(* One bar.                                                                *)

\* SessionClock.is_last_bar_of_date; on a daily grid every bar has a date of
\* its own, so its branch for that grid says nothing more.
LastOfDate(b) == b = LastBar \/ TradingDate[b + 1] # TradingDate[b]

\* trading_sessions.ALLOWED and order_may_execute
AllowedSegments(h) ==
  CASE h = "REGULAR"   -> {"REGULAR"}
    [] h = "EXTENDED"  -> {"PRE", "REGULAR", "POST"}
    [] h = "OVERNIGHT" -> Segments

MayExecute(o, seg) ==
  CASE Kind[o.instr] = "FUTURE" -> TRUE
    [] Kind[o.instr] = "OPTION" -> seg = "REGULAR"
    [] Kind[o.instr] = "STOCK"  -> seg \in AllowedSegments(o.hours)

\* The open orders process_step hands to the matching loop at bar b.
Eligible(o, b) ==
  IsOpen(o) /\ (EnforceHours => MayExecute(o, Segment[b]))

\* Step 3 of _process_tick: orders on contracts that expire today are
\* cancelled at the last bar of the date, before matching.
OnExpiringContract(o, b) ==
  LastOfDate(b) /\ Kind[o.instr] = "OPTION" /\ Expiry[o.instr] = TradingDate[b]

\* Mutant: a partly executed order on an expiring contract is overlooked.
CancelExpiringUntouched(o, b) ==
  IF o.status = "ACCEPTED" /\ OnExpiringContract(o, b) THEN Cancelled(o) ELSE o

CancelExpiring(o, b) ==
  IF IsOpen(o) /\ OnExpiringContract(o, b) THEN Cancelled(o) ELSE o

\* An order is stamped with the trading date of its first eligible bar.
Stamp(o, b) ==
  IF EnforceHours /\ Eligible(o, b) /\ o.date = NoDate
  THEN [o EXCEPT !.date = TradingDate[b]]
  ELSE o

\* An order as the matching loop finds it at bar b.
Ready(o, b) == Stamp(CancelExpiring(o, b), b)

\* Outcomes of matching: an order waits, is rejected, or executes a quantity.
Wait        == MinQty - 1
Rejected    == MinQty - 2
Executes(q) == q \in Quantities

\* The quantities one bar may execute: part of what remains, or all of it; of
\* an order of quantity zero or less the whole at once (no cap reduces it).
Executions(o) == IF Remaining(o) > 0 THEN 1..Remaining(o) ELSE {Remaining(o)}

\* Market data (external): an expired contract has no bars and no quotes.
Quoted(o, b) == Kind[o.instr] = "OPTION" => TradingDate[b] <= Expiry[o.instr]

\* What the market and the margin engine may decide for the orders at bar b.
\* Only eligible orders are matched.  A partial fill is possible outside
\* spreads; the eligible legs of a spread all wait, are all rejected, or all
\* execute in full (_process_spread).
Decisions(b, os) ==
  {d \in [DOMAIN os -> Rejected..MaxQty] :
     /\ \A i \in DOMAIN os :
          d[i] # Wait => /\ Eligible(os[i], b) /\ Quoted(os[i], b)
                         /\ d[i] \in {Rejected} \cup Executions(os[i])
     /\ \A i, j \in DOMAIN os :
          /\ os[i].spread # NoSpread
          /\ os[i].spread = os[j].spread
          /\ Eligible(os[i], b) /\ Eligible(os[j], b)
          => /\ Executes(d[i]) => d[i] = Remaining(os[i]) /\ Executes(d[j])
             /\ d[i] = Rejected => d[j] = Rejected}

Match(o, q) ==
  CASE q = Wait     -> o
    [] q = Rejected -> [o EXCEPT !.status = "REJECTED"]
    [] Executes(q)  -> Filled(o, q)

\* expire_gtd_orders, then expire_day_orders at the last bar of the date.
PastExpiry(o, b) == o.tif = "GTD" /\ b > o.expire

\* Mutant: only orders that could still match on the last bar expire.
DayIsOverIfMatching(o, b) ==
  o.tif = "DAY" /\ LastOfDate(b) /\ MayExecute(o, Segment[b])

DayIsOver(o, b)  == o.tif = "DAY" /\ LastOfDate(b) /\ o.date = TradingDate[b]

\* Mutant: expiry does not look at the order's status.
ExpireClosedToo(o, b) ==
  IF EnforceHours /\ (PastExpiry(o, b) \/ DayIsOver(o, b))
  THEN [o EXCEPT !.status = "EXPIRED"]
  ELSE o

\* Mutant: GTD orders are looked at on the last bar of a date only.
ExpireAtDateEnd(o, b) ==
  IF /\ EnforceHours /\ IsOpen(o) /\ LastOfDate(b)
     /\ PastExpiry(o, b) \/ DayIsOver(o, b)
  THEN [o EXCEPT !.status = "EXPIRED"]
  ELSE o

ExpireOrder(o, b) ==
  IF EnforceHours /\ IsOpen(o) /\ (PastExpiry(o, b) \/ DayIsOver(o, b))
  THEN [o EXCEPT !.status = "EXPIRED"]
  ELSE o

\* What bar b makes of an order for which matching decided q.
AfterBar(o, b, q) == ExpireOrder(Match(Ready(o, b), q), b)

\* SessionService.step for one bar, and _process_tick as far as it concerns
\* orders: cancel expiring contracts, stamp, match, expire.
Tick ==
  /\ status = "RUNNING"
  /\ idx < LastBar
  /\ LET b == idx + 1 IN
     \E d \in Decisions(b, [i \in DOMAIN orders |-> Ready(orders[i], b)]) :
       /\ orders' = [i \in DOMAIN orders |-> AfterBar(orders[i], b, d[i])]
       /\ trades' = trades \cup
            {[order |-> i, bar |-> b, qty |-> d[i]] :
               i \in {j \in DOMAIN orders : Executes(d[j])}}
       /\ idx' = b
       /\ status' = IF b = LastBar THEN "FINISHED" ELSE status

-----------------------------------------------------------------------------
(* Requests.  None of them looks at the session status.                    *)

\* OrderService.place_order of a spec with no client_order_id seen before.
Place(s) ==
  /\ Valid(s)
  /\ \E i \in OrderIds \ DOMAIN orders :
       orders' = [j \in DOMAIN orders \cup {i} |->
                    IF j = i THEN Accepted(s, idx) ELSE orders[j]]
  /\ UNCHANGED <<idx, status, trades>>

\* OrderService.cancel_order
Cancel(i) ==
  /\ IsOpen(orders[i])
  /\ orders' = [orders EXCEPT ![i] = Cancelled(@)]
  /\ UNCHANGED <<idx, status, trades>>

\* The spec modify_order rebuilds from the old order: it carries over the
\* instrument, the time in force and, unless updated, the full quantity; the
\* other fields take the defaults of OrderSpec and CreateOrderRequest.
ModifiedSpec(o, q) ==
  [instr |-> o.instr, tif |-> o.tif, expire |-> Never, hours |-> "REGULAR",
   qty |-> q, spread |-> NoSpread]

\* OrderService.modify_order: cancel, then submit and accept without
\* validation: the new quantity may be zero or less.
Modify(i, q) ==
  /\ IsOpen(orders[i])
  /\ \E n \in OrderIds \ DOMAIN orders :
       orders' = [j \in DOMAIN orders \cup {n} |->
                    CASE j = n -> Accepted(ModifiedSpec(orders[i], q), idx)
                      [] j = i -> Cancelled(orders[i])
                      [] OTHER -> orders[j]]
  /\ UNCHANGED <<idx, status, trades>>

\* modify_order with a value OrderSpec refuses: it raises after the cancel, so
\* the old order is gone and no other takes its place.
ModifyRefused(i) ==
  /\ IsOpen(orders[i])
  /\ orders' = [orders EXCEPT ![i] = Cancelled(@)]
  /\ UNCHANGED <<idx, status, trades>>

\* SessionService.stop_session
Stop ==
  /\ status # "STOPPED"
  /\ status' = "STOPPED"
  /\ UNCHANGED <<idx, orders, trades>>

Init ==
  /\ idx = -1
  /\ status = "RUNNING"
  /\ orders = [i \in {} |-> 0]
  /\ trades = {}

Next ==
  \/ Tick
  \/ \E s \in Inputs : Place(s)
  \/ \E i \in DOMAIN orders : Cancel(i)
  \/ \E i \in DOMAIN orders, q \in Quantities : Modify(i, q)
  \/ \E i \in DOMAIN orders : ModifyRefused(i)
  \/ Stop

Spec == Init /\ [][Next]_vars

-----------------------------------------------------------------------------
(* Properties.                                                             *)

\* Every variable holds a value of its kind.
TypeOK ==
  /\ idx \in -1..LastBar
  /\ status \in {"RUNNING", "STOPPED", "FINISHED"}
  /\ DOMAIN orders \subseteq OrderIds
  /\ orders \in [DOMAIN orders -> Order]
  /\ trades \subseteq [order : DOMAIN orders, bar : 0..idx, qty : Quantities]

\* An open DAY order that became eligible on a date is on that date now and
\* has a bar of it left, so the date's last bar still lies ahead to expire it:
\* no DAY order is ever worked past its trading date (expire_day_orders
\* against the stamping in process_step).
DayOrdersHaveBarLeft ==
  EnforceHours =>
    \A i \in DOMAIN orders :
      IsOpen(orders[i]) /\ orders[i].tif = "DAY" /\ orders[i].date # NoDate =>
        /\ idx \in 0..(LastBar - 1)
        /\ TradingDate[idx] = orders[i].date
        /\ TradingDate[idx + 1] = orders[i].date

\* All executions of a DAY order happen on one trading date, however long it
\* waited for its first eligible bar and however many bars filled it.
DayFillsOnOneDate ==
  EnforceHours =>
    \A t, u \in trades :
      t.order = u.order /\ orders[t.order].tif = "DAY" =>
        TradingDate[t.bar] = TradingDate[u.bar]

\* Orders on an expired contract do not fill: no option order executes on the
\* last bar of its expiry date, and none placed before that bar is still
\* worked after it (_process_tick cancels before it matches).
ExpiredContractsNotWorked ==
  \A b \in 0..idx :
    LastOfDate(b) =>
      /\ \A t \in trades :
           t.bar = b => ~OnExpiringContract(orders[t.order], b)
      /\ \A i \in DOMAIN orders :
           IsOpen(orders[i]) /\ OnExpiringContract(orders[i], b) =>
             orders[i].placed >= b

\* An open GTD order is past its expire_ts only until the next bar: the first
\* bar after expire_ts leaves it executed in full, rejected or expired.
GtdOrdersLapse ==
  EnforceHours =>
    \A i \in DOMAIN orders :
      IsOpen(orders[i]) /\ PastExpiry(orders[i], idx) => orders[i].placed = idx

\* Executed quantity is accounted for: an order's filled_qty is the sum of its
\* trades, and its status says how much of it is executed; an order modified
\* to quantity zero is the one that nothing tells from a complete one
\* (record_fill against the unvalidated replacements of modify_order).
FillAccounting ==
  \A i \in DOMAIN orders :
    LET o == orders[i] IN
    /\ o.filled = SumFunction([t \in {u \in trades : u.order = i} |-> t.qty])
    /\ o.status = "FILLED" => o.filled = o.qty
    /\ o.qty # 0 /\ o.filled = o.qty => o.status = "FILLED"
    /\ o.status = "PARTIALLY_FILLED" => 0 < o.filled /\ o.filled < o.qty
    /\ o.status = "ACCEPTED" => o.filled = 0

\* The session's orders as the abstract specification sees them.
Book ==
  [i \in DOMAIN orders |->
     [qty |-> orders[i].qty, filled |-> orders[i].filled,
      state |-> IF IsOpen(orders[i]) THEN "OPEN" ELSE orders[i].status]]

Promise == INSTANCE OrderPromise WITH book <- Book

\* The session implements the broker's promise: what executes of an order only
\* grows towards its quantity (at once, where modify made that zero or less), a
\* complete order is closed, a closed order is final.
KeepsPromise == Promise!Spec

\* "Spread orders (linked by spread_id) are executed atomically: both legs
\* fill or both are rejected": a bar that fills one leg fills every leg that
\* was open before it (process_step hands _process_spread the eligible legs).
SpreadLegsFillTogether ==
  [][\A i, j \in DOMAIN orders :
       /\ orders[i].spread # NoSpread
       /\ orders[j].spread = orders[i].spread
       /\ IsOpen(orders[i]) /\ IsOpen(orders[j])
       /\ orders'[i].status = "FILLED"
       => orders'[j].status = "FILLED"]_vars
=============================================================================
