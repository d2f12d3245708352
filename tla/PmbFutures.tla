----------------------------- MODULE PmbFutures -----------------------------
(***************************************************************************)
(* Futures of a PMB session: daily variation margin, contract rolls, the   *)
(* futures margin call and its liquidation (ledger.py, margin_engine.py    *)
(* and the futures steps of session_service._process_tick).                *)
(*                                                                         *)
(* The bars of the market and the orders that are due at each bar are the  *)
(* environment; PmbOrders says which orders are due.  Orders here are      *)
(* market orders of a session that holds futures only.                     *)
(***************************************************************************)
EXTENDS Integers, FiniteSets, FiniteSetsExt, Functions, SequencesExt

CONSTANTS
  LastBar,       \* index of the last bar of the session
  SessionDate,   \* bar -> CME session date (session_date_of)
  Daily,         \* whether the session has daily bars
  Symbols,       \* futures, continuous series among them
  ContractAt,    \* symbol -> bar -> contract the series trades in (instrument_id)
  Prices,        \* prices the market may take
  MaxQty,        \* largest order quantity
  MaxOrders,     \* bound on the orders due at one bar
  Mult,          \* contract multiplier
  Maintenance,   \* maintenance margin per contract (FutureSpec)
  Initial,       \* initial margin per contract
  Fee,           \* commission per contract
  CallLimit,     \* future_margin_call_sessions
  InitialCash,
  NoContract     \* contract_id = None

Bars == 0..LastBar

ASSUME SessionAssumption ==
  /\ LastBar \in Nat /\ SessionDate \in [Bars -> Nat] /\ Daily \in BOOLEAN
  /\ \A b, c \in Bars : b < c => SessionDate[b] <= SessionDate[c]
  /\ Daily => \A b, c \in Bars : b < c => SessionDate[b] < SessionDate[c]
ASSUME MarketAssumption ==
  /\ IsFiniteSet(Symbols) /\ Prices \subseteq Nat \ {0}
  /\ \A s \in Symbols, b \in Bars : ContractAt[s][b] # NoContract
ASSUME SpecAssumption ==
  /\ Mult \in Nat \ {0} /\ Fee \in Nat /\ InitialCash \in Int
  /\ Maintenance \in Nat /\ Initial \in Nat /\ Maintenance <= Initial
  /\ CallLimit \in Nat /\ MaxQty \in Nat \ {0} /\ MaxOrders \in Nat

VARIABLES
  idx,       \* the bar processed last
  acct,      \* the ledger and the margin engine; history: acct.whole, whether no
             \* average price was ever rounded
  market,    \* symbol -> last price of the market
  gain,      \* history: what the positions gained by the market's moves
  unmet,     \* history: settlements the open margin call has seen
  forced     \* history: whether the last bar liquidated the futures

vars == <<idx, acct, market, gain, unmet, forced>>

NoPosition == [qty |-> 0, avg |-> 0, mark |-> 0, basis |-> 0,
               contract |-> NoContract, settled |-> -1]

Abs(n) == IF n < 0 THEN -n ELSE n

\* Python's x or y, for which a price of zero is no price.
Or(x, y) == IF x = 0 THEN y ELSE x

-----------------------------------------------------------------------------
(* Ledger.                                                                 *)

\* Ledger.future_positions
Open(a) == {s \in Symbols : a.pos[s].qty # 0}

\* Ledger.total_equity: cash and the open trade equity of the futures.
Equity(a) ==
  a.cash + SumFunction([s \in Symbols |-> LET p == a.pos[s] IN
                          p.qty * (p.mark - Or(p.basis, p.avg)) * Mult])

\* Position p with n contracts of side dir added at price px.
Added(p, q, px) ==
  LET n == Abs(p.qty) + Abs(q) IN
  [p EXCEPT !.qty = @ + q,
            !.avg = (@ * Abs(p.qty) + px * Abs(q)) \div n,
            !.basis = (@ * Abs(p.qty) + px * Abs(q)) \div n]

\* Mutant: a closed position stays in the ledger.
ReducedKeepingFlat(p, q, px) ==
  IF Abs(q) > Abs(p.qty)
  THEN [p EXCEPT !.qty = @ + q, !.avg = px, !.basis = px, !.settled = -1]
  ELSE [p EXCEPT !.qty = @ + q]

\* Position p reduced, closed or flipped by q contracts at price px.
Reduced(p, q, px) ==
  IF p.qty + q = 0 THEN NoPosition
  ELSE IF Abs(q) > Abs(p.qty)
       THEN [p EXCEPT !.qty = @ + q, !.avg = px, !.basis = px, !.settled = -1]
       ELSE [p EXCEPT !.qty = @ + q]

\* The code's prices are floats, those of the model are integers: whether adding
\* q contracts at price px gives an average price and a basis that are.
AverageIsWhole(p, q, px) ==
  LET n == Abs(p.qty) + Abs(q) IN
  p.qty * q > 0 => /\ (p.avg * Abs(p.qty) + px * Abs(q)) % n = 0
                   /\ (p.basis * Abs(p.qty) + px * Abs(q)) % n = 0

\* Mutant: closing pays the move since the trade, not since the settlement.
FilledFromEntry(a, s, q, px) ==
  LET p == a.pos[s]
      closed == IF p.qty * q < 0 THEN Min({Abs(q), Abs(p.qty)}) ELSE 0
      dir == IF p.qty > 0 THEN 1 ELSE -1
  IN  [a EXCEPT
         !.whole = @ /\ AverageIsWhole(p, q, px),
         !.fees = @ + Abs(q) * Fee,
         !.cash = @ - Abs(q) * Fee + closed * (px - p.avg) * Mult * dir,
         !.realized = @ + closed * (px - p.avg) * Mult * dir,
         !.pos[s] = CASE p.qty = 0     -> [NoPosition EXCEPT !.qty = q, !.avg = px,
                                             !.mark = px, !.basis = px]
                      [] p.qty * q > 0 -> Added(p, q, px)
                      [] p.qty * q < 0 -> Reduced(p, q, px)]

\* Ledger._apply_future_fill of q contracts (negative: sold) at price px.
Filled(a, s, q, px) ==
  LET p == a.pos[s]
      closed == IF p.qty * q < 0 THEN Min({Abs(q), Abs(p.qty)}) ELSE 0
      dir == IF p.qty > 0 THEN 1 ELSE -1
  IN  [a EXCEPT
         !.whole = @ /\ AverageIsWhole(p, q, px),
         !.fees = @ + Abs(q) * Fee,
         !.cash = @ - Abs(q) * Fee + closed * (px - p.basis) * Mult * dir,
         !.realized = @ + closed * (px - p.avg) * Mult * dir,
         !.pos[s] = CASE p.qty = 0     -> [NoPosition EXCEPT !.qty = q, !.avg = px,
                                             !.mark = px, !.basis = px]
                      [] p.qty * q > 0 -> Added(p, q, px)
                      [] p.qty * q < 0 -> Reduced(p, q, px)]

\* The positions a bar rolls: those in another contract than the bar's.
Rolls(a, bars) ==
  {s \in Open(a) \cap DOMAIN bars :
     a.pos[s].contract \notin {NoContract, bars[s].contract}}

\* Mutant: a roll books the gap between the contracts.
RolledInPlace(a, bars) ==
  [a EXCEPT !.pos = [s \in Symbols |->
     IF s \in Rolls(a, bars)
     THEN [@[s] EXCEPT !.mark = bars[s].open, !.contract = bars[s].contract]
     ELSE @[s]]]

\* SessionService._roll_futures with Ledger.roll_future
Rolled(a, bars) ==
  LET Moved(p, bar) ==
        LET shift == bar.open - Or(p.mark, p.basis) IN
        [p EXCEPT !.avg = @ + shift, !.basis = @ + shift,
                  !.mark = bar.open, !.contract = bar.contract]
  IN  [a EXCEPT !.pos = [s \in Symbols |->
         IF s \in Rolls(a, bars) THEN Moved(@[s], bars[s]) ELSE @[s]]]

\* Ledger.update_market_prices with the closes of the bar.
Marked(a, bars) ==
  [a EXCEPT !.pos = [s \in Symbols |->
     IF s \in Open(a) \cap DOMAIN bars THEN [@[s] EXCEPT !.mark = bars[s].close]
                                       ELSE @[s]]]

\* New positions remember the contract they were opened in.
Tagged(a, bars) ==
  [a EXCEPT !.pos = [s \in Symbols |->
     IF s \in Open(a) \cap DOMAIN bars /\ @[s].contract = NoContract
     THEN [@[s] EXCEPT !.contract = bars[s].contract] ELSE @[s]]]

\* Ledger.settle_futures: each position that was not settled on this date.
Settled(a, settles, date) ==
  LET due == {s \in Open(a) : a.pos[s].settled # date} IN
  [a EXCEPT
     !.cash = @ + SumFunction([s \in due |-> LET p == a.pos[s] IN
                                 p.qty * (settles[s] - p.basis) * Mult]),
     !.pos = [s \in Symbols |->
        IF s \in due
        THEN [@[s] EXCEPT !.basis = settles[s], !.mark = settles[s],
                          !.settled = date]
        ELSE @[s]]]

-----------------------------------------------------------------------------
(* Margin engine.                                                          *)

Held(a) == SumFunction([s \in Symbols |-> Abs(a.pos[s].qty)])
MaintenanceOf(a) == Held(a) * Maintenance    \* total_maintenance_margin
InitialOf(a) == Held(a) * Initial            \* total_initial_margin

\* Mutant: a call is met as soon as equity is back at the maintenance margin.
CheckedAtMaintenance(a) ==
  IF Equity(a) < MaintenanceOf(a)
  THEN [a EXCEPT !.status = IF @ = "LIQUIDATION" THEN @ ELSE "MARGIN_CALL"]
  ELSE [a EXCEPT !.status = "NORMAL", !.calls = 0]

\* MarginEngine.check_maintenance
Checked(a) ==
  LET equity == Equity(a) IN
  IF equity < MaintenanceOf(a) /\ MaintenanceOf(a) > 0
  THEN [a EXCEPT !.status = IF @ = "LIQUIDATION" THEN @ ELSE "MARGIN_CALL"]
  ELSE IF \/ a.status # "NORMAL" /\ Open(a) # {} /\ equity < InitialOf(a)
          \/ equity < MaintenanceOf(a)
       THEN a
       ELSE [a EXCEPT !.status = "NORMAL", !.calls = 0]

\* Mutant: liquidation one settlement early.
OverdueEarly(a) == CallLimit > 0 /\ a.calls >= CallLimit

\* Whether on_settlement finds the call open for too long.
Overdue(a) == CallLimit > 0 /\ a.calls > CallLimit

\* Mutant: settlements are not counted.
CountedNever(a) == a

\* MarginEngine.on_settlement, but for its verdict.
Counted(a) ==
  IF a.status = "NORMAL" \/ Open(a) = {} THEN [a EXCEPT !.calls = 0]
                                         ELSE [a EXCEPT !.calls = @ + 1]

\* ExecutionEngine.liquidate_futures, then the check that follows it.
Liquidated(a, settles) ==
  Checked(FoldLeft(LAMBDA b, s : Filled(b, s, -b.pos[s].qty, settles[s]),
                   [a EXCEPT !.status = "LIQUIDATION"], SetToSeq(Open(a))))

-----------------------------------------------------------------------------
(* One bar.                                                                *)

\* _is_opening_trade: it does not look at the quantity.
IsOpening(a, s, q) == a.pos[s].qty * q >= 0

\* _process_single_order for a futures market order at price px: rejected when
\* it opens in a margin call or without free initial margin, else executed.
Executed(a, o, px) ==
  IF IsOpening(a, o.symbol, o.qty)
     /\ \/ a.status # "NORMAL"
        \/ Abs(o.qty) * Initial > Equity(a) - InitialOf(a)
  THEN a ELSE Filled(a, o.symbol, o.qty, px)

\* process_step: the due orders with a bar, one after the other, at the open.
Matched(a, orders, bars) ==
  FoldLeft(LAMBDA b, o : IF o.symbol \in DOMAIN bars
                         THEN Executed(b, o, bars[o.symbol].open) ELSE b,
           a, orders)

\* _is_last_future_bar
EndsSession(b) ==
  Daily \/ (b < LastBar /\ SessionDate[b + 1] # SessionDate[b])

\* _settle_futures, its margin check, and the liquidation it may order.
AfterSettlement(a, settles, date) ==
  LET c == Counted(Checked(Settled(a, settles, date))) IN
  IF Overdue(c) /\ c.status # "NORMAL" /\ Open(c) # {}
  THEN Liquidated(c, settles) ELSE c

\* What the market brings at a bar: prices of the symbols that traded.
MarketBar == [open : Prices, close : Prices]
Orders == [symbol : Symbols, qty : (-MaxQty)..MaxQty \ {0}]

\* Steps 1b to 4b' of _process_tick: roll, mark, match, mark again, tag.
Traded(a, bars, orders) ==
  Tagged(Marked(Matched(Marked(Rolled(a, bars), bars), orders, bars), bars), bars)

\* The price of s after the bar, before any settlement.
At(s, bars) == IF s \in DOMAIN bars THEN bars[s].close ELSE market[s]

\* What the contracts of s gained when the account went from a to m in the bar:
\* what was held, from the last price (of the new contract, if rolled) on, and
\* what was traded, from the bar's open on.
Move(s, a, m, bars) ==
  LET from == IF s \in Rolls(a, bars) THEN bars[s].open ELSE market[s]
  IN  a.pos[s].qty * (At(s, bars) - from)
      + (IF s \in DOMAIN bars
         THEN (m.pos[s].qty - a.pos[s].qty) * (bars[s].close - bars[s].open) ELSE 0)

\* Steps 4c and 5, with the history: account m at the end of bar b is settled
\* at the prices settles, if the CME session ends here, and checked.
Finish(m, b, bars, settles) ==
  LET settle == Open(m) # {} /\ EndsSession(b)
      after == IF settle THEN AfterSettlement(m, settles, SessionDate[b]) ELSE m
  IN  /\ acct' = Checked(after)
      /\ market' = [s \in Symbols |->
           IF settle /\ s \in Open(m) THEN settles[s] ELSE At(s, bars)]
      /\ gain' = gain + Mult * SumFunction([s \in Symbols |->
           Move(s, acct, m, bars)
           + (IF settle /\ s \in Open(m) THEN m.pos[s].qty * (settles[s] - At(s, bars)) ELSE 0)])
      /\ unmet' = IF acct'.status = "NORMAL" THEN 0
                  ELSE IF settle THEN unmet + 1 ELSE unmet
      /\ forced' = (settle /\ Open(after) = {})

\* _process_tick of the next bar.
Tick ==
  /\ idx < LastBar
  /\ idx' = idx + 1
  /\ \E present \in SUBSET Symbols, orders \in SeqOf(Orders, MaxOrders) :
     \E px \in [present -> MarketBar] :
       LET bars == [s \in present |-> [open |-> px[s].open, close |-> px[s].close,
                                       contract |-> ContractAt[s][idx + 1]]]
           m == Traded(acct, bars, orders)
       IN  IF EndsSession(idx + 1)
           THEN \E settles \in [Open(m) -> Prices] : Finish(m, idx + 1, bars, settles)
           ELSE Finish(m, idx + 1, bars, market)

Init ==
  /\ idx = -1
  /\ acct = [cash |-> InitialCash, realized |-> 0, fees |-> 0,
             pos |-> [s \in Symbols |-> NoPosition],
             status |-> "NORMAL", calls |-> 0, whole |-> TRUE]
  /\ market \in [Symbols -> Prices]
  /\ gain = 0 /\ unmet = 0 /\ forced = FALSE

Next == Tick

Spec == Init /\ [][Next]_vars

-----------------------------------------------------------------------------
(* Properties.                                                             *)

\* Every variable holds a value of its kind; nothing is left of a flat position.
TypeOK ==
  /\ idx \in -1..LastBar
  /\ acct.cash \in Int /\ acct.realized \in Int /\ acct.fees \in Nat
  /\ acct.status \in {"NORMAL", "MARGIN_CALL", "LIQUIDATION"} /\ acct.calls \in Nat
  /\ acct.whole \in BOOLEAN
  /\ acct.pos \in [Symbols ->
       [qty : Int, avg : Int, mark : Int, basis : Int,
        contract : {ContractAt[s][b] : s \in Symbols, b \in Bars} \cup {NoContract}, settled : Int]]
  /\ \A s \in Symbols : acct.pos[s].qty = 0 => acct.pos[s] = NoPosition
  /\ \A s \in Open(acct) : acct.pos[s].contract # NoContract

\* Equity moves with the market and by nothing else: whatever was settled,
\* added to, flipped, rolled or liquidated, it is the initial cash, less the
\* fees, plus what the contracts held gained.  No average price must have been
\* rounded, and a roll must not have brought a basis to exactly zero, which the
\* code takes for none.
EquityIsMarkToMarket ==
  acct.whole /\ (\A s \in Open(acct) : acct.pos[s].basis # 0) =>
    Equity(acct) = InitialCash - acct.fees + gain

\* "Every dollar of the loss went through cash": cash holds the realised profit
\* and, of the open positions, what variation margin has paid so far.  No average
\* price must have been rounded.
CashIsSettled ==
  acct.whole =>
    acct.cash = InitialCash - acct.fees + acct.realized
      + SumFunction([s \in Symbols |->
          acct.pos[s].qty * (acct.pos[s].basis - acct.pos[s].avg) * Mult])

\* A call that is still open after future_margin_call_sessions settlements is
\* liquidated: no account holds futures through one more.
CallsEndInTime ==
  CallLimit > 0 /\ Open(acct) # {} => unmet <= CallLimit

\* A liquidation comes no earlier: only when the call has been open for
\* future_margin_call_sessions settlements before.
LiquidationsAreDue == [][forced' => unmet >= CallLimit]_vars

\* "The call is met only when equity is back at the initial margin": a call
\* ends there, or when no futures are left.
CallsMetAtInitial ==
  [][acct.status # "NORMAL" /\ acct'.status = "NORMAL" =>
       Open(acct') = {} \/ Equity(acct') >= InitialOf(acct')]_vars

\* "The account is in a margin call: new positions are refused": in a call a
\* position only shrinks.
NewPositionsRefused ==
  [][acct.status # "NORMAL" =>
       \A s \in Symbols :
         LET q == acct.pos[s].qty IN
         acct'.pos[s].qty \in (IF q < 0 THEN q..0 ELSE 0..q)]_vars
=============================================================================
