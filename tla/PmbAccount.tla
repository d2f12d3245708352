----------------------------- MODULE PmbAccount -----------------------------
(***************************************************************************)
(* A day-gated broker account of PMB: account_service.py and the routes of *)
(* routes/accounts.py that call it.                                        *)
(*                                                                         *)
(* The routes await market prices of UPQ before and after a trade and for  *)
(* a status query.  What they read before an await is kept in pending, and *)
(* any other request may run before the answer arrives.                    *)
(***************************************************************************)
EXTENDS Integers, Sequences, FiniteSetsExt, Functions

CONSTANTS
  Clients,      \* callers with at most one request in flight each
  Symbols,
  Dates,        \* simulated dates, a range from 0, the account's open date
  Price,        \* symbol -> date -> market price of UPQ, 0 if there is none
  AgentPrices,  \* prices agents supply themselves
  Quantities,   \* quantities agents trade
  Fee,          \* commission per share
  InitialCash,
  MaxDay,       \* bound on the trading days
  MaxTrades     \* bound on the trades

Sides == {"BUY", "SELL"}
Supplied == -1      \* the price of a fill was not looked up

ASSUME MarketAssumption ==
  /\ IsFiniteSet(Symbols) /\ 0 \in Dates /\ Dates \subseteq Nat
  /\ Price \in [Symbols -> [Dates -> Nat]]
ASSUME AmountAssumption ==
  /\ AgentPrices \subseteq Nat /\ Quantities \subseteq Nat
  /\ Fee \in Nat /\ InitialCash \in Int
  /\ MaxDay \in Nat \ {0} /\ MaxTrades \in Nat

VARIABLES
  status,       \* AccountStatus
  day,          \* trading_day
  date,         \* current_date
  cash, realized, fees,
  positions,    \* symbol -> position; NoPosition if there is none
  tradeSeq,     \* trade_seq
  today,        \* trades_today
  opening,      \* day_opening_equity
  history,      \* the records of the days that ended
  pending,      \* client -> what its request waits for
  whole         \* history: no average price was ever rounded, see AverageIsWhole

vars == <<status, day, date, cash, realized, fees, positions, tradeSeq, today,
          opening, history, pending, whole>>

NoPosition == [qty |-> 0, avg |-> 0, last |-> 0]
Idle == [stage |-> "idle"]

-----------------------------------------------------------------------------
(* The book.                                                               *)

\* Account.equity
Equity == cash + SumFunction([s \in Symbols |-> positions[s].qty * positions[s].last])

Held == {s \in Symbols : positions[s].qty # 0}

Abs(n) == IF n < 0 THEN -n ELSE n
Signed(side, n) == IF side = "BUY" THEN n ELSE -n

\* The shares of position p that n shares on a side close.
Closing(p, side, n) ==
  IF p.qty * Signed(side, n) < 0 THEN Min({n, Abs(p.qty)}) ELSE 0

\* Mutant: a position that is turned around keeps its average price.
FilledKeepingAverage(p, side, n, px) ==
  LET qty == p.qty + Signed(side, n) IN
  IF qty = 0 THEN NoPosition
  ELSE [qty |-> qty, last |-> px,
        avg |-> IF Closing(p, side, n) > 0 THEN p.avg
                ELSE (p.avg * Abs(p.qty) + px * n) \div (Abs(p.qty) + n)]

\* Mutant: a position that is closed out stays in the book.
FilledKeepingFlat(p, side, n, px) ==
  LET qty == p.qty + Signed(side, n) IN
  [qty |-> qty, last |-> px,
   avg |-> CASE Closing(p, side, n) = 0 ->
                  (p.avg * Abs(p.qty) + px * n) \div (Abs(p.qty) + n)
             [] Closing(p, side, n) > 0 /\ n > Abs(p.qty) -> px
             [] OTHER -> p.avg]

\* AccountService._apply_fill on the position: same for both directions.
Filled(p, side, n, px) ==
  LET qty == p.qty + Signed(side, n) IN
  IF qty = 0 THEN NoPosition
  ELSE [qty |-> qty, last |-> px,
        avg |-> CASE Closing(p, side, n) = 0 ->
                       (p.avg * Abs(p.qty) + px * n) \div (Abs(p.qty) + n)
                  [] Closing(p, side, n) > 0 /\ n > Abs(p.qty) -> px
                  [] OTHER -> p.avg]

\* The code's prices are floats, those of the model are integers: whether adding
\* n shares at px to position p gives an average price that is one.
AverageIsWhole(p, side, n, px) ==
  LET all == Abs(p.qty) + n IN
  Closing(p, side, n) = 0 /\ all > 0 => (p.avg * Abs(p.qty) + px * n) % all = 0

\* The profit that _apply_fill realises.
Realised(p, side, n, px) ==
  Closing(p, side, n) * (IF p.qty > 0 THEN px - p.avg ELSE p.avg - px)

\* The TradingDayRecord that end_day writes.
DayRecord ==
  [day |-> day, date |-> date, opening |-> opening, closing |-> Equity,
   cash |-> cash, trades |-> today]

-----------------------------------------------------------------------------
(* Requests.                                                               *)

\* Mutant: only a closed account refuses trades.
NotClosed == status # "CLOSED"

\* The status checks of AccountService.trade.
MayTrade == status = "ACTIVE"

\* _mark_from_upq up to its await: what a client then waits for.
Marking(held) ==
  IF held = {} THEN Idle ELSE [stage |-> "marks", symbols |-> held, date |-> date]

\* AccountService.trade, then the refresh of marks in place_trade.
Booked(c, s, side, n, px, asked) ==
  /\ MayTrade
  /\ tradeSeq < MaxTrades
  /\ tradeSeq' = tradeSeq + 1
  /\ cash' = cash - Signed(side, n) * px - n * Fee
  /\ realized' = realized + Realised(positions[s], side, n, px)
  /\ fees' = fees + n * Fee
  /\ positions' = [positions EXCEPT ![s] = Filled(@, side, n, px)]
  /\ whole' = (whole /\ AverageIsWhole(positions[s], side, n, px))
  /\ today' = Append(today,
       [id |-> tradeSeq + 1, day |-> day, date |-> date, asked |-> asked,
        realized |-> Realised(positions[s], side, n, px), fees |-> n * Fee])
  /\ pending' = [pending EXCEPT
       ![c] = Marking({x \in Symbols : positions'[x].qty # 0})]
  /\ UNCHANGED <<status, day, date, opening, history>>

\* place_trade with a price of the agent's.
TradeAtPrice(c, s, side, n, px) ==
  /\ pending[c] = Idle
  /\ Booked(c, s, side, n, px, Supplied)

\* place_trade without a price, up to the await of _market_price.
AskPrice(c, s, side, n) ==
  /\ pending[c] = Idle
  /\ tradeSeq < MaxTrades
  /\ pending' = [pending EXCEPT
       ![c] = [stage |-> "price", symbol |-> s, side |-> side, qty |-> n,
               date |-> date]]
  /\ UNCHANGED <<status, day, date, cash, realized, fees, whole, positions, tradeSeq,
                 today, opening, history>>

\* The rest of place_trade, when the market price is there.
PriceArrives(c) ==
  LET p == pending[c] IN
  /\ p.stage = "price"
  /\ Price[p.symbol][p.date] > 0
  /\ Booked(c, p.symbol, p.side, p.qty, Price[p.symbol][p.date], p.date)

\* The rest of place_trade, when there is no price or trade refuses.
TradeRefused(c) ==
  LET p == pending[c] IN
  /\ p.stage = "price"
  /\ Price[p.symbol][p.date] = 0 \/ ~MayTrade
  /\ pending' = [pending EXCEPT ![c] = Idle]
  /\ UNCHANGED <<status, day, date, cash, realized, fees, whole, positions, tradeSeq,
                 today, opening, history>>

\* get_account_status, up to the await of _latest_daily_closes.
AskStatus(c) ==
  /\ pending[c] = Idle /\ Held # {}
  /\ pending' = [pending EXCEPT ![c] = Marking(Held)]
  /\ UNCHANGED <<status, day, date, cash, realized, fees, whole, positions, tradeSeq,
                 today, opening, history>>

\* AccountService.mark_prices with the prices that were looked up; positions
\* closed meanwhile are skipped, the status is not looked at.
MarksArrive(c) ==
  LET p == pending[c] IN
  /\ p.stage = "marks"
  /\ positions' = [s \in Symbols |->
       IF s \in p.symbols \cap Held /\ Price[s][p.date] > 0
       THEN [positions[s] EXCEPT !.last = Price[s][p.date]]
       ELSE positions[s]]
  /\ pending' = [pending EXCEPT ![c] = Idle]
  /\ UNCHANGED <<status, day, date, cash, realized, fees, whole, tradeSeq, today,
                 opening, history>>

\* The history with the current day in it.
Closed == IF status = "ACTIVE" THEN Append(history, DayRecord) ELSE history

\* AccountService.end_day; on a frozen account it changes nothing.
EndDay ==
  /\ status = "ACTIVE"
  /\ history' = Closed
  /\ status' = "FROZEN"
  /\ UNCHANGED <<day, date, cash, realized, fees, whole, positions, tradeSeq, today,
                 opening, pending>>

\* Mutant: an open day is left behind without a record.
NextDayOnly(d) ==
  /\ status # "CLOSED" /\ day < MaxDay
  /\ date' = d /\ day' = day + 1
  /\ today' = <<>> /\ opening' = Equity /\ status' = "ACTIVE"
  /\ UNCHANGED <<cash, realized, fees, whole, positions, tradeSeq, history, pending>>

\* Mutant: the trades of the day are carried over.
NextDayKeepingTrades(d) ==
  /\ status # "CLOSED" /\ day < MaxDay
  /\ history' = Closed
  /\ date' = d /\ day' = day + 1
  /\ opening' = Equity /\ status' = "ACTIVE"
  /\ UNCHANGED <<cash, realized, fees, whole, positions, tradeSeq, today, pending>>

\* AccountService.next_day to the date d, which a caller may choose freely.
NextDay(d) ==
  /\ status # "CLOSED" /\ day < MaxDay
  /\ history' = Closed
  /\ date' = d /\ day' = day + 1
  /\ today' = <<>> /\ opening' = Equity /\ status' = "ACTIVE"
  /\ UNCHANGED <<cash, realized, fees, whole, positions, tradeSeq, pending>>

\* AccountService.close_account
CloseAccount ==
  /\ history' = Closed
  /\ status' = "CLOSED"
  /\ UNCHANGED <<day, date, cash, realized, fees, whole, positions, tradeSeq, today,
                 opening, pending>>

Init ==
  /\ status = "ACTIVE" /\ day = 1 /\ date = 0
  /\ cash = InitialCash /\ realized = 0 /\ fees = 0
  /\ positions = [s \in Symbols |-> NoPosition]
  /\ tradeSeq = 0 /\ today = <<>> /\ opening = InitialCash /\ history = <<>>
  /\ pending = [c \in Clients |-> Idle]
  /\ whole = TRUE

Next ==
  \/ \E c \in Clients, s \in Symbols, side \in Sides, n \in Quantities :
       \/ \E px \in AgentPrices : TradeAtPrice(c, s, side, n, px)
       \/ AskPrice(c, s, side, n)
  \/ \E c \in Clients :
       PriceArrives(c) \/ TradeRefused(c) \/ AskStatus(c) \/ MarksArrive(c)
  \/ EndDay
  \/ \E d \in Dates : NextDay(d)
  \/ CloseAccount

Spec == Init /\ [][Next]_vars

-----------------------------------------------------------------------------
(* Properties.                                                             *)

\* Every variable holds a value of its kind, and flat positions are removed.
TypeOK ==
  /\ status \in {"ACTIVE", "FROZEN", "CLOSED"}
  /\ day \in 1..MaxDay /\ date \in Dates /\ tradeSeq \in 0..MaxTrades
  /\ cash \in Int /\ realized \in Int /\ fees \in Nat /\ opening \in Int
  /\ positions \in [Symbols -> [qty : Int, avg : Nat, last : Nat]]
  /\ \A s \in Symbols : positions[s].qty = 0 => positions[s] = NoPosition
  /\ \A c \in Clients : pending[c].stage \in {"idle", "price", "marks"}
  /\ whole \in BOOLEAN

\* Cash and cost of what is held are the initial cash plus realised profit
\* less fees, however positions were added to, reduced and turned around, while
\* no average price was rounded.
BooksBalance ==
  whole =>
    cash + SumFunction([s \in Symbols |-> positions[s].qty * positions[s].avg])
      = InitialCash + realized - fees

\* "Auto-close the open day first so history stays contiguous": the history
\* has one record for each day that ended, in order, and the trades in it are
\* those of its day and date.
HistoryIsContiguous ==
  /\ Len(history) = (IF status = "ACTIVE" THEN day - 1 ELSE day)
  /\ \A k \in DOMAIN history :
       /\ history[k].day = k
       /\ \A j \in DOMAIN history[k].trades :
            /\ history[k].trades[j].day = k
            /\ history[k].trades[j].date = history[k].date

\* The trades that joined day k, as ids: those of its record and, for the
\* current day, those of trades_today.
Ids(trades) == {trades[j].id : j \in DOMAIN trades}
TradesOf(k) ==
  (IF k <= Len(history) THEN Ids(history[k].trades) ELSE {}) \cup
  (IF k = day THEN Ids(today) ELSE {})

\* Every trade is in one day's record or among today's trades, once, and the
\* days' profits and fees add up to the account's.
DaysAddUp ==
  LET Total(F(_)) == SumFunction([k \in DOMAIN Closed |->
        SumFunction([j \in DOMAIN Closed[k].trades |-> F(Closed[k].trades[j])])])
  IN  /\ UNION {TradesOf(k) : k \in 1..day} = 1..tradeSeq
      /\ Total(LAMBDA t : 1) = tradeSeq
      /\ Total(LAMBDA t : t.realized) = realized
      /\ Total(LAMBDA t : t.fees) = fees

Gate == INSTANCE DayGate WITH
  Trades  <- 1..MaxTrades,
  gate    <- CASE status = "ACTIVE" -> "OPEN"
               [] status = "FROZEN" -> "SHUT"
               [] status = "CLOSED" -> "CLOSED",
  blotter <- [k \in 1..day |-> TradesOf(k)]

\* The account implements the day gate: a day that has ended takes no trade,
\* also when the price it waited for arrives late.
KeepsDayGate == Gate!Spec

\* "Execute at the real UPQ market price for the account's current trading
\* day": a trade at a looked-up price has the price of the date it is on.
PricedOnItsDay ==
  \A j \in DOMAIN today : today[j].asked \in {Supplied, today[j].date}
=============================================================================
