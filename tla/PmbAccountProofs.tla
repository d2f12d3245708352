-------------------------- MODULE PmbAccountProofs --------------------------
(***************************************************************************)
(* Proofs about PmbAccount: its history is contiguous, and it implements   *)
(* DayGate, for any clients, prices, dates and number of days and trades.  *)
(***************************************************************************)
EXTENDS PmbAccount, FoldFacts, TLAPS

\* A sequence of whatever elements.
IsSeq(q) == \E S : q \in Seq(S)

\* The variables the day gate depends on.
GateTypes ==
  /\ status \in {"ACTIVE", "FROZEN", "CLOSED"}
  /\ day \in Nat \ {0} /\ tradeSeq \in 0..MaxTrades
  /\ IsSeq(history) /\ IsSeq(today)

\* The trades of today are on the current day; a day that was ended has them in
\* its record.
TodayOK ==
  /\ status = "ACTIVE" =>
       \A j \in DOMAIN today : today[j].day = day /\ today[j].date = date
  /\ status # "ACTIVE" => history[day].trades = today

\* No trade has an id that is still to be given.
IdsOK ==
  /\ Ids(today) \subseteq 1..tradeSeq
  /\ \A k \in DOMAIN history : Ids(history[k].trades) \subseteq 1..tradeSeq

\* The inductive invariant.
Inv == GateTypes /\ HistoryIsContiguous /\ TodayOK /\ IdsOK

-----------------------------------------------------------------------------
(* Lemmas about the data.                                                  *)

\* What appending does to a sequence.
LEMMA AppendAny ==
  ASSUME NEW q, IsSeq(q), NEW e
  PROVE  /\ IsSeq(Append(q, e)) /\ Len(q) \in Nat /\ Len(Append(q, e)) = Len(q) + 1
         /\ DOMAIN q = 1..Len(q) /\ DOMAIN Append(q, e) = 1..(Len(q) + 1)
         /\ Append(q, e)[Len(q) + 1] = e
         /\ \A i \in 1..Len(q) : Append(q, e)[i] = q[i]
<1>1. PICK S : q \in Seq(S)
  BY DEF IsSeq
<1>2. q \in Seq(S \cup {e}) /\ e \in S \cup {e}
  BY <1>1
<1>3. Append(q, e) \in Seq(S \cup {e})
  BY <1>2
<1> QED
  BY <1>2, <1>3 DEF IsSeq

\* A trade that joins today's adds its id.
LEMMA IdsAppend ==
  ASSUME NEW q, IsSeq(q), NEW e
  PROVE  Ids(Append(q, e)) = Ids(q) \cup {e.id}
<1> DEFINE p == Append(q, e)
           n == Len(q)
<1>1. /\ n \in Nat /\ DOMAIN q = 1..n /\ DOMAIN p = 1..(n + 1) /\ p[n + 1] = e
      /\ \A i \in 1..n : p[i] = q[i]
  BY AppendAny
<1> HIDE DEF p, n
<1>2. 1..(n + 1) = 1..n \cup {n + 1}
  BY <1>1
<1>3. {p[j].id : j \in DOMAIN p} = {q[j].id : j \in DOMAIN q} \cup {e.id}
  BY <1>1, <1>2
<1> QED
  BY <1>3 DEF Ids, p

\* The history once the current day has its record.
LEMMA ClosedFacts ==
  ASSUME Inv
  PROVE  /\ IsSeq(Closed) /\ Len(Closed) = day /\ DOMAIN Closed = 1..day /\ Len(history) \in Nat
         /\ DOMAIN history = 1..Len(history)
         /\ \A k \in DOMAIN history : k \in 1..day /\ Closed[k] = history[k]
         /\ \A k \in 1..day : \/ k \in DOMAIN history
                              \/ k = day /\ status = "ACTIVE" /\ Closed[k] = DayRecord
         /\ Closed[day].trades = today
<1>1. /\ day \in Nat \ {0} /\ IsSeq(history)
      /\ Len(history) = IF status = "ACTIVE" THEN day - 1 ELSE day
  BY DEF Inv, GateTypes, HistoryIsContiguous
<1>2. Len(history) \in Nat /\ DOMAIN history = 1..Len(history)
  BY <1>1, AppendAny
<1>3. CASE status = "ACTIVE"
  <2>1. Closed = Append(history, DayRecord)
    BY <1>3 DEF Closed
  <2>2. /\ IsSeq(Closed) /\ Len(Closed) = day /\ DOMAIN Closed = 1..day
        /\ Closed[day] = DayRecord /\ \A k \in 1..Len(history) : Closed[k] = history[k]
    BY <1>1, <1>3, <2>1, AppendAny
  <2>3. DayRecord.trades = today
    BY DEF DayRecord
  <2> QED
    BY <1>1, <1>2, <1>3, <2>2, <2>3
<1>4. CASE status # "ACTIVE"
  BY <1>1, <1>2, <1>4 DEF Closed, Inv, TodayOK
<1> QED
  BY <1>3, <1>4

\* Ending a day keeps the history contiguous and its ids known.
LEMMA ClosedContiguous ==
  ASSUME Inv, NEW k \in 1..day
  PROVE  /\ Closed[k].day = k
         /\ \A j \in DOMAIN Closed[k].trades :
              Closed[k].trades[j].day = k /\ Closed[k].trades[j].date = Closed[k].date
         /\ Ids(Closed[k].trades) \subseteq 1..tradeSeq
<1>1. CASE k \in DOMAIN history
  BY <1>1, ClosedFacts DEF Inv, HistoryIsContiguous, IdsOK
<1>2. CASE k = day /\ status = "ACTIVE" /\ Closed[k] = DayRecord
  <2>1. Closed[k].day = day /\ Closed[k].date = date /\ Closed[k].trades = today
    BY <1>2 DEF DayRecord
  <2> QED
    BY <1>2, <2>1 DEF Inv, TodayOK, IdsOK
<1> QED
  BY <1>1, <1>2, ClosedFacts

-----------------------------------------------------------------------------
(* The steps.                                                              *)

\* The account starts with an open first day and no trades.
LEMMA InitInv == Init => Inv
<1> SUFFICES ASSUME Init PROVE Inv
  OBVIOUS
<1>1. IsSeq(<<>>) /\ Len(<<>>) = 0 /\ DOMAIN <<>> = {}
  <2>1. <<>> \in Seq({})
    OBVIOUS
  <2> QED
    BY <2>1 DEF IsSeq
<1>2. tradeSeq \in 0..MaxTrades
  BY AmountAssumption DEF Init
<1> QED
  BY <1>1, <1>2 DEF Init, Inv, GateTypes, HistoryIsContiguous, TodayOK, IdsOK, Ids

\* A trade joins the day that is open.
LEMMA BookedInv ==
  ASSUME Inv, NEW c, NEW s, NEW side, NEW n, NEW px, NEW asked, Booked(c, s, side, n, px, asked)
  PROVE  Inv'
<1>1. PICK e : e.id = tradeSeq + 1 /\ e.day = day /\ e.date = date /\ today' = Append(today, e)
  <2> DEFINE e == [id |-> tradeSeq + 1, day |-> day, date |-> date, asked |-> asked,
                   realized |-> Realised(positions[s], side, n, px), fees |-> n * Fee]
  <2>1. today' = Append(today, e)
    BY DEF Booked
  <2>2. e.id = tradeSeq + 1 /\ e.day = day /\ e.date = date
    OBVIOUS
  <2> QED
    BY <2>1, <2>2
<1>2. /\ status = "ACTIVE" /\ tradeSeq < MaxTrades /\ tradeSeq' = tradeSeq + 1
      /\ UNCHANGED <<status, day, date, history>>
  BY DEF Booked, MayTrade
<1>3. tradeSeq \in Nat /\ tradeSeq' \in 0..MaxTrades /\ 1..tradeSeq \subseteq 1..tradeSeq'
      /\ tradeSeq' \in 1..tradeSeq'
  BY <1>2, AmountAssumption DEF Inv, GateTypes
<1>4. /\ IsSeq(today') /\ DOMAIN today' = 1..(Len(today) + 1) /\ Len(today) \in Nat
      /\ DOMAIN today = 1..Len(today) /\ today'[Len(today) + 1] = e
      /\ \A i \in 1..Len(today) : today'[i] = today[i]
  BY <1>1, AppendAny DEF Inv, GateTypes
<1>5. GateTypes'
  <2>1. IsSeq(history)'
    BY <1>2 DEF Inv, GateTypes, IsSeq
  <2>2. IsSeq(today)'
    BY <1>4 DEF IsSeq
  <2> QED
    BY <1>2, <1>3, <2>1, <2>2 DEF Inv, GateTypes
<1>6. HistoryIsContiguous'
  BY <1>2 DEF Inv, HistoryIsContiguous
<1>7. TodayOK'
  <2>1. \A j \in DOMAIN today' : j \in DOMAIN today \/ j = Len(today) + 1
    BY <1>4
  <2> QED
    BY <1>1, <1>2, <1>4, <2>1 DEF Inv, TodayOK
<1>8. IdsOK'
  <2>1. Ids(today') = Ids(today) \cup {tradeSeq'}
    BY <1>1, <1>2, IdsAppend DEF Inv, GateTypes
  <2>2. Ids(today)' = Ids(today')
    BY DEF Ids
  <2>3. \A k \in DOMAIN history : Ids(history[k].trades)' = Ids(history[k].trades)
    BY <1>2 DEF Ids
  <2> QED
    BY <1>2, <1>3, <2>1, <2>2, <2>3 DEF Inv, IdsOK
<1> QED
  BY <1>5, <1>6, <1>7, <1>8 DEF Inv

\* A day is ended or the account closed.
LEMMA EndInv ==
  ASSUME Inv, history' = Closed, UNCHANGED <<day, date, tradeSeq, today>>,
         status' \in {"FROZEN", "CLOSED"}
  PROVE  Inv'
<1>1. /\ IsSeq(Closed) /\ Len(Closed) = day /\ DOMAIN Closed = 1..day /\ Closed[day].trades = today
  BY ClosedFacts
<1>2. GateTypes'
  <2>1. IsSeq(today)'
    BY DEF Inv, GateTypes, IsSeq
  <2>2. IsSeq(history)'
    BY <1>1 DEF IsSeq
  <2> QED
    BY <2>1, <2>2 DEF Inv, GateTypes
<1>3. HistoryIsContiguous'
  BY <1>1, ClosedContiguous DEF HistoryIsContiguous
<1>4. TodayOK'
  BY <1>1 DEF TodayOK
<1>5. IdsOK'
  <2>1. Ids(today)' = Ids(today)
    BY DEF Ids
  <2>2. \A k \in 1..day : Ids(history[k].trades)' = Ids(Closed[k].trades)
    BY DEF Ids
  <2> QED
    BY <1>1, <2>1, <2>2, ClosedContiguous DEF Inv, IdsOK
<1> QED
  BY <1>2, <1>3, <1>4, <1>5 DEF Inv

\* The next day starts without trades, after the record of the day before.
LEMMA NextDayInv ==
  ASSUME Inv, NEW d \in Dates, NextDay(d)
  PROVE  Inv'
<1>1. /\ IsSeq(Closed) /\ Len(Closed) = day /\ DOMAIN Closed = 1..day /\ day \in Nat \ {0}
  BY ClosedFacts DEF Inv, GateTypes
<1>2. /\ history' = Closed /\ day' = day + 1 /\ today' = <<>> /\ status' = "ACTIVE"
      /\ UNCHANGED tradeSeq
  BY DEF NextDay
<1>3. IsSeq(<<>>) /\ DOMAIN <<>> = {}
  <2>1. <<>> \in Seq({})
    OBVIOUS
  <2> QED
    BY <2>1 DEF IsSeq
<1>4. GateTypes'
  <2>1. IsSeq(today)'
    BY <1>2, <1>3 DEF IsSeq
  <2>2. IsSeq(history)'
    BY <1>1, <1>2 DEF IsSeq
  <2> QED
    BY <1>1, <1>2, <2>1, <2>2 DEF Inv, GateTypes
<1>5. HistoryIsContiguous'
  BY <1>1, <1>2, ClosedContiguous DEF HistoryIsContiguous
<1>6. TodayOK'
  BY <1>2, <1>3 DEF TodayOK
<1>7. IdsOK'
  <2>1. Ids(today)' = {}
    BY <1>2, <1>3 DEF Ids
  <2>2. \A k \in 1..day : Ids(history[k].trades)' = Ids(Closed[k].trades)
    BY <1>2 DEF Ids
  <2> QED
    BY <1>1, <1>2, <2>1, <2>2, ClosedContiguous DEF IdsOK
<1> QED
  BY <1>4, <1>5, <1>6, <1>7 DEF Inv

\* Steps that only ask, mark or refuse.
LEMMA KeepsInv ==
  ASSUME Inv, UNCHANGED <<status, day, date, tradeSeq, today, history>>
  PROVE  Inv'
BY DEF Inv, GateTypes, IsSeq, HistoryIsContiguous, TodayOK, IdsOK, Ids

\* Every step keeps the invariant.
LEMMA NextInv == Inv /\ [Next]_vars => Inv'
<1> SUFFICES ASSUME Inv, [Next]_vars PROVE Inv'
  OBVIOUS
<1>1. ASSUME NEW c \in Clients, NEW s \in Symbols, NEW side \in Sides, NEW n \in Quantities,
             NEW px \in AgentPrices, TradeAtPrice(c, s, side, n, px)
      PROVE  Inv'
  BY <1>1, BookedInv DEF TradeAtPrice
<1>2. ASSUME NEW c \in Clients, NEW s \in Symbols, NEW side \in Sides, NEW n \in Quantities,
             AskPrice(c, s, side, n)
      PROVE  Inv'
  BY <1>2, KeepsInv DEF AskPrice
<1>3. ASSUME NEW c \in Clients, PriceArrives(c) PROVE Inv'
  BY <1>3, BookedInv DEF PriceArrives
<1>4. ASSUME NEW c \in Clients, TradeRefused(c) \/ AskStatus(c) \/ MarksArrive(c) PROVE Inv'
  BY <1>4, KeepsInv DEF TradeRefused, AskStatus, MarksArrive
<1>5. CASE EndDay
  BY <1>5, EndInv DEF EndDay
<1>6. ASSUME NEW d \in Dates, NextDay(d) PROVE Inv'
  BY <1>6, NextDayInv
<1>7. CASE CloseAccount
  BY <1>7, EndInv DEF CloseAccount
<1>8. CASE UNCHANGED vars
  BY <1>8, KeepsInv DEF vars
<1> QED
  BY <1>1, <1>2, <1>3, <1>4, <1>5, <1>6, <1>7, <1>8 DEF Next

-----------------------------------------------------------------------------
(* The theorems.                                                           *)

\* The inductive invariant holds in every state.
THEOREM AccountInvariant == Spec => []Inv
BY InitInv, NextInv, PTL DEF Spec

\* The history has one record for each day that ended, in order, with the
\* trades of that day only, however days are ended, skipped to and closed and
\* whatever prices arrive late.
THEOREM HistoryStaysContiguous == Spec => []HistoryIsContiguous
<1>1. Inv => HistoryIsContiguous
  BY DEF Inv
<1> QED
  BY <1>1, AccountInvariant, PTL

-----------------------------------------------------------------------------
(* Kinds of values.                                                        *)

Entry == [qty : Int, avg : Nat, last : Nat]

\* What a request may wait for.
Waits ==
  {Idle}
    \cup [stage : {"price"}, symbol : Symbols, side : Sides, qty : Quantities, date : Dates]
    \cup [stage : {"marks"}, symbols : SUBSET Symbols, date : Dates]

\* The type invariant, with what the requests in flight carry.
Typed == TypeOK /\ pending \in [Clients -> Waits]

\* Every request has its kind.
LEMMA WaitsHaveStage ==
  ASSUME NEW w \in Waits
  PROVE  w.stage \in {"idle", "price", "marks"}
BY DEF Waits, Idle

\* What is held of all symbols is worth an integer.
LEMMA EquityIsInt ==
  ASSUME Typed
  PROVE  Equity \in Int
<1> DEFINE worth == [s \in Symbols |-> positions[s].qty * positions[s].last]
<1>1. \A s \in Symbols : worth[s] \in Int
  BY DEF Typed, TypeOK
<1>2. DOMAIN worth = Symbols /\ Equity = cash + SumFunction(worth)
  BY DEF Equity
<1> HIDE DEF worth
<1>3. SumFunction(worth) \in Int
  BY <1>1, <1>2, MarketAssumption, SumRecursion DEF SumFunction
<1> QED
  BY <1>2, <1>3 DEF Typed, TypeOK

\* A quotient of natural numbers is one.
LEMMA QuotientIsNat ==
  ASSUME NEW x \in Nat, NEW y \in Nat, y > 0
  PROVE  x \div y \in Nat
OBVIOUS

\* A fill closes no more than is there or than it has, and makes a position.
LEMMA FilledTyped ==
  ASSUME NEW p \in Entry, NEW side \in Sides, NEW n \in Nat, NEW px \in Nat
  PROVE  /\ Filled(p, side, n, px) \in Entry
         /\ Filled(p, side, n, px).qty = 0 => Filled(p, side, n, px) = NoPosition
         /\ Realised(p, side, n, px) \in Int /\ Signed(side, n) \in Int
<1>1. p.qty \in Int /\ p.avg \in Nat /\ Abs(p.qty) \in Nat /\ (p.qty # 0 => Abs(p.qty) > 0)
  BY DEF Entry, Abs
<1>2. PICK v \in Int : v = Signed(side, n)
  BY DEF Signed
<1>3. n = 0 => v = 0
  <2>1. v \in {n, -n} /\ n \in Int
    BY <1>2 DEF Signed
  <2> QED
    BY <2>1
<1>4. PICK c : c = Closing(p, side, n)
  OBVIOUS
<1>5. c \in Int
  <2>1. \A x, y \in Int : Min({x, y}) \in Int
    <3> SUFFICES ASSUME NEW x \in Int, NEW y \in Int PROVE Min({x, y}) \in Int
      OBVIOUS
    <3>1. \E m \in {x, y} : \A z \in {x, y} : m <= z
      OBVIOUS
    <3> QED
      BY <3>1 DEF Min
  <2> QED
    BY <1>1, <1>4, <2>1 DEF Closing
<1>6. Realised(p, side, n, px) \in Int
  <2>1. \A x, y \in Int : x * y \in Int
    OBVIOUS
  <2> QED
    BY <1>1, <1>4, <1>5, <2>1 DEF Realised
<1>7. PICK q \in Int : q = p.qty + v
  BY <1>1
<1>8. CASE q = 0
  <2>1. Filled(p, side, n, px) = NoPosition
    BY <1>2, <1>7, <1>8 DEF Filled
  <2> QED
    BY <1>2, <1>6, <2>1 DEF NoPosition, Entry
<1>9. CASE q # 0
  <2>1. PICK w : w = CASE c = 0 -> (p.avg * Abs(p.qty) + px * n) \div (Abs(p.qty) + n)
                       [] c > 0 /\ n > Abs(p.qty) -> px
                       [] OTHER -> p.avg
    OBVIOUS
  <2>2. w \in Nat
    <3>1. Abs(p.qty) + n > 0 /\ Abs(p.qty) + n \in Nat
      BY <1>1, <1>3, <1>7, <1>9
    <3>2. \A x, y, z, u \in Nat : x * y + z * u \in Nat
      OBVIOUS
    <3>3. (p.avg * Abs(p.qty) + px * n) \div (Abs(p.qty) + n) \in Nat
      BY <1>1, <3>1, <3>2, QuotientIsNat
    <3>4. CASE c = 0
      <4>1. ~ (c > 0)
        BY <3>4
      <4> QED
        BY <2>1, <3>3, <3>4, <4>1
    <3>5. CASE c # 0
      BY <1>1, <2>1, <3>5
    <3> QED
      BY <3>4, <3>5
  <2>3. Filled(p, side, n, px) = [qty |-> q, last |-> px, avg |-> w]
    BY <1>2, <1>4, <1>7, <1>9, <2>1 DEF Filled
  <2> QED
    BY <1>2, <1>6, <1>9, <2>2, <2>3 DEF Entry
<1> QED
  BY <1>8, <1>9

\* A booked trade keeps the kinds of values.
LEMMA BookedTyped ==
  ASSUME Typed, NEW c \in Clients, NEW s \in Symbols, NEW side \in Sides, NEW n \in Quantities,
         NEW px \in Nat, NEW asked, Booked(c, s, side, n, px, asked)
  PROVE  Typed'
<1>1. /\ positions \in [Symbols -> Entry] /\ positions[s] \in Entry /\ n \in Nat
      /\ cash \in Int /\ realized \in Int /\ fees \in Nat /\ tradeSeq \in 0..MaxTrades
      /\ date \in Dates
  BY AmountAssumption DEF Typed, TypeOK, Entry
<1>2. PICK f \in Entry : f = Filled(positions[s], side, n, px) /\ (f.qty = 0 => f = NoPosition)
  BY <1>1, FilledTyped
<1>3. PICK r \in Int : r = Realised(positions[s], side, n, px)
  BY <1>1, FilledTyped
<1>4. PICK v \in Int : v = Signed(side, n)
  BY <1>1, FilledTyped
<1>5. positions' = [positions EXCEPT ![s] = f]
  BY <1>2 DEF Booked
<1>6. /\ positions' \in [Symbols -> Entry]
      /\ \A x \in Symbols : positions'[x].qty = 0 => positions'[x] = NoPosition
  BY <1>1, <1>2, <1>5 DEF Typed, TypeOK
<1>7. cash' \in Int
  <2>1. \A x, y, z, u, w \in Int : x - y * z - u * w \in Int
    OBVIOUS
  <2>2. cash' = cash - v * px - n * Fee
    BY <1>4 DEF Booked
  <2>3. px \in Int /\ n \in Int /\ Fee \in Int
    BY <1>1, AmountAssumption
  <2> QED
    BY <1>1, <2>1, <2>2, <2>3
<1>8. realized' \in Int /\ fees' \in Nat
  <2>1. \A x, y, z \in Nat : x + y * z \in Nat
    OBVIOUS
  <2>2. fees' = fees + n * Fee /\ Fee \in Nat
    BY AmountAssumption DEF Booked
  <2>3. realized' = realized + r
    BY <1>3 DEF Booked
  <2> QED
    BY <1>1, <2>1, <2>2, <2>3
<1>9. tradeSeq' \in 0..MaxTrades
  BY <1>1, AmountAssumption DEF Booked
<1>10. pending' \in [Clients -> Waits] /\ \A x \in Clients : pending'[x].stage \in {"idle", "price", "marks"}
  <2>1. \A held \in SUBSET Symbols : Marking(held) \in Waits
    BY <1>1 DEF Marking, Waits
  <2>2. PICK w \in Waits : pending' = [pending EXCEPT ![c] = w]
    BY <2>1 DEF Booked
  <2>3. pending' \in [Clients -> Waits]
    BY <2>2 DEF Typed
  <2> QED
    BY <2>3, WaitsHaveStage
<1> QED
  BY <1>6, <1>7, <1>8, <1>9, <1>10 DEF Typed, TypeOK, Booked, Entry

\* Every step keeps the kinds of values.
LEMMA NextTyped ==
  ASSUME Typed, [Next]_vars
  PROVE  Typed'
<1>1. pending \in [Clients -> Waits] /\ \A c \in Clients : pending[c] \in Waits
  BY DEF Typed
<1>2. \A w \in Waits : w.stage \in {"idle", "price", "marks"}
  BY WaitsHaveStage
<1>3. ASSUME NEW c \in Clients, NEW s \in Symbols, NEW side \in Sides, NEW n \in Quantities,
             NEW px \in AgentPrices, TradeAtPrice(c, s, side, n, px)
      PROVE  Typed'
  BY <1>3, BookedTyped, AmountAssumption DEF TradeAtPrice
<1>4. ASSUME NEW c \in Clients, NEW w \in Waits, pending' = [pending EXCEPT ![c] = w],
             UNCHANGED <<status, day, date, cash, realized, fees, whole, positions, tradeSeq,
                         today, opening, history>>
      PROVE  Typed'
  <2>1. pending' \in [Clients -> Waits]
    BY <1>1, <1>4
  <2> QED
    BY <1>2, <1>4, <2>1 DEF Typed, TypeOK
<1>5. ASSUME NEW c \in Clients, NEW s \in Symbols, NEW side \in Sides, NEW n \in Quantities,
             AskPrice(c, s, side, n)
      PROVE  Typed'
  <2>1. [stage |-> "price", symbol |-> s, side |-> side, qty |-> n, date |-> date] \in Waits
    BY DEF Waits, Typed, TypeOK
  <2> QED
    BY <1>4, <1>5, <2>1 DEF AskPrice
<1>6. ASSUME NEW c \in Clients, PriceArrives(c) PROVE Typed'
  <2>1. pending[c].stage = "price" /\ pending[c] \in Waits
    BY <1>1, <1>6 DEF PriceArrives
  <2>2. /\ pending[c].symbol \in Symbols /\ pending[c].side \in Sides
        /\ pending[c].qty \in Quantities /\ pending[c].date \in Dates
    BY <2>1 DEF Waits, Idle
  <2>3. Price[pending[c].symbol][pending[c].date] \in Nat
    BY <2>2, MarketAssumption
  <2> QED
    BY <1>6, <2>2, <2>3, BookedTyped DEF PriceArrives
<1>7. ASSUME NEW c \in Clients, TradeRefused(c) PROVE Typed'
  BY <1>4, <1>7 DEF TradeRefused, Waits
<1>8. ASSUME NEW c \in Clients, AskStatus(c) PROVE Typed'
  <2>1. Marking(Held) \in Waits
    BY DEF Marking, Waits, Held, Typed, TypeOK
  <2> QED
    BY <1>4, <1>8, <2>1 DEF AskStatus
<1>9. ASSUME NEW c \in Clients, MarksArrive(c) PROVE Typed'
  <2>1. pending[c].stage = "marks" /\ pending[c] \in Waits
    BY <1>1, <1>9 DEF MarksArrive
  <2>2. pending[c].date \in Dates
    BY <2>1 DEF Waits, Idle
  <2>3. \A s \in Symbols : Price[s][pending[c].date] \in Nat
    BY <2>2, MarketAssumption
  <2>4. positions \in [Symbols -> Entry] /\ \A s \in Symbols : positions[s].qty = 0 => positions[s] = NoPosition
    BY DEF Typed, TypeOK, Entry
  <2>5. \A p \in Entry, x \in Nat :
          [p EXCEPT !.last = x] \in Entry /\ [p EXCEPT !.last = x].qty = p.qty
    BY DEF Entry
  <2>6. ASSUME NEW s \in Symbols
        PROVE  positions'[s] \in Entry /\ (positions'[s].qty = 0 => positions'[s] = NoPosition)
    <3>1. positions'[s] = IF s \in pending[c].symbols \cap Held /\ Price[s][pending[c].date] > 0
                          THEN [positions[s] EXCEPT !.last = Price[s][pending[c].date]]
                          ELSE positions[s]
      BY <1>9 DEF MarksArrive
    <3> QED
      BY <2>3, <2>4, <2>5, <3>1 DEF Held
  <2>7. positions' \in [Symbols -> Entry]
    BY <1>9, <2>6 DEF MarksArrive
  <2>8. pending' \in [Clients -> Waits]
    BY <1>1, <1>9 DEF MarksArrive, Waits
  <2> QED
    BY <1>2, <1>9, <2>6, <2>7, <2>8 DEF MarksArrive, Typed, TypeOK, Entry
<1>10. CASE EndDay
  BY <1>10 DEF EndDay, Typed, TypeOK
<1>11. ASSUME NEW d \in Dates, NextDay(d) PROVE Typed'
  <2>1. Equity \in Int
    BY EquityIsInt
  <2> QED
    BY <1>11, <2>1, AmountAssumption DEF NextDay, Typed, TypeOK
<1>12. CASE CloseAccount
  BY <1>12 DEF CloseAccount, Typed, TypeOK
<1>13. CASE UNCHANGED vars
  BY <1>13 DEF vars, Typed, TypeOK
<1> QED
  BY <1>3, <1>5, <1>6, <1>7, <1>8, <1>9, <1>10, <1>11, <1>12, <1>13 DEF Next

\* Every variable holds a value of its kind, and flat positions are removed,
\* with whatever is traded, marked and answered late.
THEOREM AccountTyped == Spec => []TypeOK
<1>1. Init => Typed
  BY MarketAssumption, AmountAssumption DEF Init, Typed, TypeOK, NoPosition, Waits, Idle
<1>2. Typed /\ [Next]_vars => Typed'
  BY NextTyped
<1>3. Typed => TypeOK
  BY DEF Typed
<1> QED
  BY <1>1, <1>2, <1>3, PTL DEF Spec

-----------------------------------------------------------------------------
(* The days add up.                                                        *)

\* The trades of day k: those of its record, or of today.
DayTrades(k) == IF k \in DOMAIN history THEN history[k].trades ELSE today

\* What each trade of each day counts for: one, its profit, its fees.
Ones == [k \in 1..day |-> [j \in DOMAIN DayTrades(k) |-> 1]]
Profits == [k \in 1..day |-> [j \in DOMAIN DayTrades(k) |-> DayTrades(k)[j].realized]]
Costs == [k \in 1..day |-> [j \in DOMAIN DayTrades(k) |-> DayTrades(k)[j].fees]]

\* Every day has a sequence of trades, and the three sums are the account's.
SumsInv ==
  /\ \A k \in 1..day : IsSeq(DayTrades(k))
  /\ \A k \in 1..day : \A j \in DOMAIN DayTrades(k) :
       DayTrades(k)[j].realized \in Int /\ DayTrades(k)[j].fees \in Int
  /\ TableSum(Ones) = tradeSeq /\ TableSum(Profits) = realized /\ TableSum(Costs) = fees
  /\ \A i : i \in 1..tradeSeq <=> \E k \in 1..day : i \in Ids(DayTrades(k))

\* The three tables are tables of integers.
LEMMA SumTables ==
  ASSUME Inv, SumsInv
  PROVE  /\ IsTable(Ones) /\ IsTable(Profits) /\ IsTable(Costs)
         /\ DOMAIN Ones = 1..day /\ DOMAIN Profits = 1..day /\ DOMAIN Costs = 1..day
         /\ IsFiniteSet(1..day)
<1>1. \A k \in 1..day : IsFiniteSet(DOMAIN DayTrades(k))
  <2> SUFFICES ASSUME NEW k \in 1..day PROVE IsFiniteSet(DOMAIN DayTrades(k))
    OBVIOUS
  <2>1. PICK q : q = DayTrades(k)
    OBVIOUS
  <2>2. DOMAIN q = 1..Len(q) /\ Len(q) \in Nat
    BY <2>1, AppendAny DEF SumsInv
  <2> QED
    BY <2>1, <2>2, FS_Interval
<1>2. IsFiniteSet(1..day)
  BY FS_Interval DEF Inv, GateTypes
<1> QED
  BY <1>1, <1>2 DEF IsTable, Ones, Profits, Costs, SumsInv

\* A step that keeps the trades of every day and their sums.
LEMMA SumsKept ==
  ASSUME Inv, SumsInv, UNCHANGED <<day, tradeSeq, realized, fees>>,
         \A k \in 1..day : DayTrades(k)' = DayTrades(k)
  PROVE  SumsInv'
<1>1. Ones' = Ones /\ Profits' = Profits /\ Costs' = Costs
  BY DEF Ones, Profits, Costs
<1>2. \A k \in 1..day : Ids(DayTrades(k))' = Ids(DayTrades(k))
  BY DEF Ids
<1>3. \A i : i \in 1..tradeSeq' <=> \E k \in 1..day' : i \in Ids(DayTrades(k))'
  BY <1>2 DEF SumsInv
<1>4. \A k \in 1..day : IsSeq(DayTrades(k)')
  BY DEF SumsInv
<1>5. \A k \in 1..day : \A j \in DOMAIN DayTrades(k)' :
        DayTrades(k)'[j].realized \in Int /\ DayTrades(k)'[j].fees \in Int
  BY DEF SumsInv
<1>6. TableSum(Ones)' = TableSum(Ones) /\ TableSum(Profits)' = TableSum(Profits)
      /\ TableSum(Costs)' = TableSum(Costs)
  BY <1>1 DEF TableSum
<1> QED
  BY <1>3, <1>4, <1>5, <1>6 DEF SumsInv, IsSeq

\* The current day is not in the history of an open account, and the history of
\* one that is not open ends with it.
LEMMA CurrentTrades ==
  ASSUME Inv
  PROVE  /\ DayTrades(day) = today /\ day \in 1..day
         /\ \A k \in 1..day : k # day => k \in DOMAIN history
         /\ status = "ACTIVE" => day \notin DOMAIN history
         /\ \A k \in 1..day : Closed[k].trades = DayTrades(k)
<1>1. /\ day \in Nat \ {0} /\ Len(history) \in Nat /\ DOMAIN history = 1..Len(history)
      /\ Len(history) = IF status = "ACTIVE" THEN day - 1 ELSE day
  BY ClosedFacts DEF Inv, GateTypes, HistoryIsContiguous
<1>2. day \in 1..day /\ \A k \in 1..day : k # day => k \in DOMAIN history
  BY <1>1
<1>3. status = "ACTIVE" => day \notin DOMAIN history
  BY <1>1
<1>4. DayTrades(day) = today
  BY <1>1, <1>3 DEF DayTrades, Inv, TodayOK
<1>5. \A k \in 1..day : Closed[k].trades = DayTrades(k)
  BY <1>2, <1>4, ClosedFacts DEF DayTrades
<1> QED
  BY <1>2, <1>3, <1>4, <1>5

\* A booked trade adds to the sums what it adds to the account.
LEMMA BookedSums ==
  ASSUME Inv, Typed, SumsInv, NEW c \in Clients, NEW s \in Symbols, NEW side \in Sides,
         NEW n \in Quantities, NEW px \in Nat, NEW asked, Booked(c, s, side, n, px, asked)
  PROVE  SumsInv'
<1>1. PICK e : /\ e.id = tradeSeq + 1 /\ e.realized = Realised(positions[s], side, n, px)
               /\ e.fees = n * Fee /\ today' = Append(today, e)
  <2> DEFINE e == [id |-> tradeSeq + 1, day |-> day, date |-> date, asked |-> asked,
                   realized |-> Realised(positions[s], side, n, px), fees |-> n * Fee]
  <2>1. /\ e.id = tradeSeq + 1 /\ e.realized = Realised(positions[s], side, n, px)
        /\ e.fees = n * Fee /\ today' = Append(today, e)
    BY DEF Booked
  <2> QED
    BY <2>1
<1>2. /\ status = "ACTIVE" /\ tradeSeq' = tradeSeq + 1 /\ realized' = realized + e.realized
      /\ fees' = fees + e.fees /\ UNCHANGED <<status, day, date, history>>
      /\ tradeSeq \in Nat
  BY <1>1 DEF Booked, MayTrade, Inv, GateTypes
<1>3. e.realized \in Int /\ e.fees \in Int
  <2>1. positions[s] \in Entry /\ n \in Nat
    BY AmountAssumption DEF Typed, TypeOK, Entry
  <2>2. \A x, y \in Nat : x * y \in Int
    OBVIOUS
  <2> QED
    BY <1>1, <2>1, <2>2, FilledTyped, AmountAssumption
<1>4. PICK m \in Nat : /\ DOMAIN today = 1..m /\ DOMAIN today' = 1..(m + 1) /\ IsSeq(today')
                       /\ today'[m + 1] = e /\ \A i \in 1..m : today'[i] = today[i]
  <2>1. IsSeq(today) /\ today' = Append(today, e)
    BY <1>1 DEF Inv, GateTypes
  <2>2. PICK q : q = today'
    OBVIOUS
  <2>3. /\ IsSeq(q) /\ Len(today) \in Nat /\ DOMAIN today = 1..Len(today)
        /\ DOMAIN q = 1..(Len(today) + 1) /\ q[Len(today) + 1] = e
        /\ \A i \in 1..Len(today) : q[i] = today[i]
    BY <2>1, <2>2, AppendAny
  <2> QED
    BY <2>2, <2>3
<1>5. 1..(m + 1) = 1..m \cup {m + 1} /\ m + 1 \notin 1..m
  OBVIOUS
<1>6. /\ DayTrades(day) = today /\ day \in 1..day /\ day \notin DOMAIN history
      /\ \A k \in 1..day \ {day} : k \in DOMAIN history
  BY <1>2, CurrentTrades
<1>7. DayTrades(day)' = today' /\ \A k \in 1..day \ {day} : DayTrades(k)' = DayTrades(k)
  BY <1>2, <1>6 DEF DayTrades
<1>8. /\ IsTable(Ones) /\ IsTable(Profits) /\ IsTable(Costs)
      /\ DOMAIN Ones = 1..day /\ DOMAIN Profits = 1..day /\ DOMAIN Costs = 1..day
      /\ IsFiniteSet(1..day)
  BY SumTables
<1>9. TableSum(Ones') = TableSum(Ones) + 1
  <2>1. PICK u : u = Ones'
    OBVIOUS
  <2>2. PICK w : w = Ones
    OBVIOUS
  <2>3. /\ DOMAIN u = 1..day /\ DOMAIN w = 1..day
        /\ w[day] = [j \in 1..m |-> 1] /\ u[day] = [j \in 1..(m + 1) |-> 1]
        /\ \A k \in 1..day \ {day} : u[k] = w[k]
    BY <1>2, <1>4, <1>6, <1>7, <2>1, <2>2 DEF Ones
  <2>4. /\ DOMAIN w[day] = 1..m /\ DOMAIN u[day] = 1..m \cup {m + 1}
        /\ \A j \in 1..m : u[day][j] = w[day][j]
        /\ u[day][m + 1] = 1
    BY <1>5, <2>3
  <2>5. /\ IsTable(w) /\ IsFiniteSet(DOMAIN w) /\ DOMAIN u = DOMAIN w /\ day \in DOMAIN w
        /\ \A k \in DOMAIN w \ {day} : u[k] = w[k]
        /\ m + 1 \notin DOMAIN w[day] /\ DOMAIN u[day] = DOMAIN w[day] \cup {m + 1}
        /\ \A j \in DOMAIN w[day] : u[day][j] = w[day][j]
        /\ u[day][m + 1] \in Int
    BY <1>5, <1>6, <1>8, <2>2, <2>3, <2>4
  <2>6. TableSum(u) = TableSum(w) + u[day][m + 1]
    BY <2>5, TableAdd
  <2> QED
    BY <2>1, <2>2, <2>4, <2>6
<1>10. TableSum(Profits') = TableSum(Profits) + e.realized
  <2>1. PICK u : u = Profits'
    OBVIOUS
  <2>2. PICK w : w = Profits
    OBVIOUS
  <2>3. /\ DOMAIN u = 1..day /\ DOMAIN w = 1..day
        /\ w[day] = [j \in 1..m |-> today[j].realized]
        /\ u[day] = [j \in 1..(m + 1) |-> today'[j].realized]
        /\ \A k \in 1..day \ {day} : u[k] = w[k]
    BY <1>2, <1>4, <1>6, <1>7, <2>1, <2>2 DEF Profits
  <2>4. /\ DOMAIN w[day] = 1..m /\ DOMAIN u[day] = 1..m \cup {m + 1}
        /\ \A j \in 1..m : u[day][j] = w[day][j]
        /\ u[day][m + 1] = e.realized
    BY <1>4, <1>5, <2>3
  <2>5. /\ IsTable(w) /\ IsFiniteSet(DOMAIN w) /\ DOMAIN u = DOMAIN w /\ day \in DOMAIN w
        /\ \A k \in DOMAIN w \ {day} : u[k] = w[k]
        /\ m + 1 \notin DOMAIN w[day] /\ DOMAIN u[day] = DOMAIN w[day] \cup {m + 1}
        /\ \A j \in DOMAIN w[day] : u[day][j] = w[day][j]
        /\ u[day][m + 1] \in Int
    BY <1>3, <1>5, <1>6, <1>8, <2>2, <2>3, <2>4
  <2>6. TableSum(u) = TableSum(w) + u[day][m + 1]
    BY <2>5, TableAdd
  <2> QED
    BY <2>1, <2>2, <2>4, <2>6
<1>11. TableSum(Costs') = TableSum(Costs) + e.fees
  <2>1. PICK u : u = Costs'
    OBVIOUS
  <2>2. PICK w : w = Costs
    OBVIOUS
  <2>3. /\ DOMAIN u = 1..day /\ DOMAIN w = 1..day
        /\ w[day] = [j \in 1..m |-> today[j].fees]
        /\ u[day] = [j \in 1..(m + 1) |-> today'[j].fees]
        /\ \A k \in 1..day \ {day} : u[k] = w[k]
    BY <1>2, <1>4, <1>6, <1>7, <2>1, <2>2 DEF Costs
  <2>4. /\ DOMAIN w[day] = 1..m /\ DOMAIN u[day] = 1..m \cup {m + 1}
        /\ \A j \in 1..m : u[day][j] = w[day][j]
        /\ u[day][m + 1] = e.fees
    BY <1>4, <1>5, <2>3
  <2>5. /\ IsTable(w) /\ IsFiniteSet(DOMAIN w) /\ DOMAIN u = DOMAIN w /\ day \in DOMAIN w
        /\ \A k \in DOMAIN w \ {day} : u[k] = w[k]
        /\ m + 1 \notin DOMAIN w[day] /\ DOMAIN u[day] = DOMAIN w[day] \cup {m + 1}
        /\ \A j \in DOMAIN w[day] : u[day][j] = w[day][j]
        /\ u[day][m + 1] \in Int
    BY <1>3, <1>5, <1>6, <1>8, <2>2, <2>3, <2>4
  <2>6. TableSum(u) = TableSum(w) + u[day][m + 1]
    BY <2>5, TableAdd
  <2> QED
    BY <2>1, <2>2, <2>4, <2>6
<1>12. /\ TableSum(Ones)' = TableSum(Ones') /\ TableSum(Profits)' = TableSum(Profits')
       /\ TableSum(Costs)' = TableSum(Costs')
  BY DEF TableSum
<1>13. \A i : i \in 1..tradeSeq' <=> \E k \in 1..day : i \in Ids(DayTrades(k))'
  <2>1. PICK d : d = day
    OBVIOUS
  <2>2. Ids(DayTrades(d))' = Ids(DayTrades(d)) \cup {tradeSeq + 1}
    <3>1. Ids(Append(today, e)) = Ids(today) \cup {e.id}
      BY IdsAppend DEF Inv, GateTypes
    <3>2. DayTrades(d)' = Append(today, e)
      BY <1>1, <1>2, <1>7, <2>1
    <3> QED
      BY <1>1, <1>6, <2>1, <3>1, <3>2 DEF Ids
  <2>3. \A k \in 1..day \ {d} : Ids(DayTrades(k))' = Ids(DayTrades(k))
    BY <1>7, <2>1 DEF Ids
  <2>4. \A i : i \in 1..(tradeSeq + 1) <=> i \in 1..tradeSeq \/ i = tradeSeq + 1
    BY <1>2
  <2>5. \A i : i \in 1..tradeSeq <=> \E k \in 1..day : i \in Ids(DayTrades(k))
    BY DEF SumsInv
  <2>6. d \in 1..day
    BY <1>6, <2>1
  <2>7. \A i : (\E k \in 1..day : i \in Ids(DayTrades(k))')
                <=> (\E k \in 1..day : i \in Ids(DayTrades(k))) \/ i = tradeSeq + 1
    BY <2>2, <2>3, <2>6
  <2> QED
    BY <1>2, <2>4, <2>5, <2>7
<1>14. \A k \in 1..day : IsSeq(DayTrades(k)')
  BY <1>2, <1>4, <1>6, <1>7 DEF SumsInv
<1>15. \A k \in 1..day : \A j \in DOMAIN DayTrades(k)' :
         DayTrades(k)'[j].realized \in Int /\ DayTrades(k)'[j].fees \in Int
  <2>1. \A j \in 1..m : today[j].realized \in Int /\ today[j].fees \in Int
    BY <1>4, <1>6 DEF SumsInv
  <2>2. \A j \in 1..(m + 1) : today'[j].realized \in Int /\ today'[j].fees \in Int
    BY <1>3, <1>4, <1>5, <2>1
  <2> QED
    BY <1>2, <1>4, <1>6, <1>7, <2>2 DEF SumsInv
<1>16. /\ TableSum(Ones)' = tradeSeq' /\ TableSum(Profits)' = realized'
       /\ TableSum(Costs)' = fees'
  BY <1>2, <1>9, <1>10, <1>11, <1>12 DEF SumsInv
<1> QED
  BY <1>2, <1>13, <1>14, <1>15, <1>16 DEF SumsInv, IsSeq

\* The next day has no trades yet.
LEMMA NextDaySums ==
  ASSUME Inv, SumsInv, NEW d \in Dates, NextDay(d)
  PROVE  SumsInv'
<1>1. /\ day \in Nat \ {0} /\ DOMAIN Closed = 1..day
      /\ \A k \in 1..day : Closed[k].trades = DayTrades(k)
  BY ClosedFacts, CurrentTrades DEF Inv, GateTypes
<1>2. /\ history' = Closed /\ day' = day + 1 /\ today' = <<>>
      /\ UNCHANGED <<tradeSeq, realized, fees>>
  BY DEF NextDay
<1>3. PICK next : next = day + 1 /\ 1..next = 1..day \cup {next} /\ next \notin 1..day
  BY <1>1
<1>4. DayTrades(next)' = <<>> /\ \A k \in 1..day : DayTrades(k)' = DayTrades(k)
  BY <1>1, <1>2, <1>3 DEF DayTrades
<1>5. IsSeq(<<>>) /\ DOMAIN <<>> = {} /\ Ids(<<>>) = {}
  <2>1. <<>> \in Seq({}) /\ DOMAIN <<>> = {}
    OBVIOUS
  <2> QED
    BY <2>1 DEF IsSeq, Ids
<1>6. /\ IsTable(Ones) /\ IsTable(Profits) /\ IsTable(Costs)
      /\ DOMAIN Ones = 1..day /\ DOMAIN Profits = 1..day /\ DOMAIN Costs = 1..day
      /\ IsFiniteSet(1..day)
  BY SumTables
<1>7. ASSUME NEW w, IsTable(w), DOMAIN w = 1..day, NEW u, DOMAIN u = 1..next,
             \A k \in 1..day : u[k] = w[k], DOMAIN u[next] = {}
      PROVE  TableSum(u) = TableSum(w)
  BY <1>3, <1>6, <1>7, TableGrow
<1>8. TableSum(Ones') = TableSum(Ones)
  <2>1. PICK u : u = Ones'
    OBVIOUS
  <2>2. DOMAIN u = 1..next /\ u[next] = [j \in {} |-> 1] /\ \A k \in 1..day : u[k] = Ones[k]
    BY <1>2, <1>3, <1>4, <1>5, <2>1 DEF Ones
  <2>3. DOMAIN u[next] = {}
    BY <2>2
  <2> QED
    BY <1>6, <1>7, <2>1, <2>2, <2>3
<1>9. TableSum(Profits') = TableSum(Profits)
  <2>1. PICK u : u = Profits'
    OBVIOUS
  <2>2. DOMAIN u = 1..next /\ DOMAIN u[next] = {} /\ \A k \in 1..day : u[k] = Profits[k]
    BY <1>2, <1>3, <1>4, <1>5, <2>1 DEF Profits
  <2> QED
    BY <1>6, <1>7, <2>1, <2>2
<1>10. TableSum(Costs') = TableSum(Costs)
  <2>1. PICK u : u = Costs'
    OBVIOUS
  <2>2. DOMAIN u = 1..next /\ DOMAIN u[next] = {} /\ \A k \in 1..day : u[k] = Costs[k]
    BY <1>2, <1>3, <1>4, <1>5, <2>1 DEF Costs
  <2> QED
    BY <1>6, <1>7, <2>1, <2>2
<1>11. /\ TableSum(Ones)' = TableSum(Ones') /\ TableSum(Profits)' = TableSum(Profits')
       /\ TableSum(Costs)' = TableSum(Costs')
  BY DEF TableSum
<1>12. \A i : i \in 1..tradeSeq <=> \E k \in 1..next : i \in Ids(DayTrades(k))'
  <2>1. Ids(DayTrades(next))' = {} /\ \A k \in 1..day : Ids(DayTrades(k))' = Ids(DayTrades(k))
    BY <1>4, <1>5 DEF Ids
  <2>2. \A i : i \in 1..tradeSeq <=> \E k \in 1..day : i \in Ids(DayTrades(k))
    BY DEF SumsInv
  <2> QED
    BY <1>3, <2>1, <2>2
<1>13. \A k \in 1..next : IsSeq(DayTrades(k)')
  BY <1>3, <1>4, <1>5 DEF SumsInv
<1>14. \A k \in 1..next : \A j \in DOMAIN DayTrades(k)' :
         DayTrades(k)'[j].realized \in Int /\ DayTrades(k)'[j].fees \in Int
  BY <1>3, <1>4, <1>5 DEF SumsInv
<1> QED
  BY <1>2, <1>3, <1>8, <1>9, <1>10, <1>11, <1>12, <1>13, <1>14 DEF SumsInv, IsSeq

\* Every step keeps the sums.
LEMMA NextSums ==
  ASSUME Inv, Typed, SumsInv, [Next]_vars
  PROVE  SumsInv'
<1>1. ASSUME NEW c \in Clients, NEW s \in Symbols, NEW side \in Sides, NEW n \in Quantities,
             NEW px \in AgentPrices, TradeAtPrice(c, s, side, n, px)
      PROVE  SumsInv'
  BY <1>1, BookedSums, AmountAssumption DEF TradeAtPrice
<1>2. CASE UNCHANGED <<day, tradeSeq, realized, fees, today, history>>
  BY <1>2, SumsKept DEF DayTrades
<1>3. ASSUME NEW c \in Clients, PriceArrives(c) PROVE SumsInv'
  <2>1. pending[c].stage = "price" /\ pending[c] \in Waits
    BY <1>3 DEF PriceArrives, Typed
  <2>2. /\ pending[c].symbol \in Symbols /\ pending[c].side \in Sides
        /\ pending[c].qty \in Quantities /\ pending[c].date \in Dates
    BY <2>1 DEF Waits, Idle
  <2>3. Price[pending[c].symbol][pending[c].date] \in Nat
    BY <2>2, MarketAssumption
  <2> QED
    BY <1>3, <2>2, <2>3, BookedSums DEF PriceArrives
<1>4. ASSUME history' = Closed, UNCHANGED <<day, tradeSeq, realized, fees, today>>
      PROVE  SumsInv'
  <2>1. \A k \in 1..day : DayTrades(k)' = DayTrades(k)
    BY <1>4, ClosedFacts, CurrentTrades DEF DayTrades
  <2> QED
    BY <1>4, <2>1, SumsKept
<1>5. ASSUME NEW d \in Dates, NextDay(d) PROVE SumsInv'
  BY <1>5, NextDaySums
<1>6. CASE EndDay \/ CloseAccount
  BY <1>4, <1>6 DEF EndDay, CloseAccount
<1>7. ASSUME NEW c \in Clients, NEW s \in Symbols, NEW side \in Sides, NEW n \in Quantities,
             AskPrice(c, s, side, n)
      PROVE  SumsInv'
  BY <1>2, <1>7 DEF AskPrice
<1>8. ASSUME NEW c \in Clients, TradeRefused(c) \/ AskStatus(c) \/ MarksArrive(c)
      PROVE  SumsInv'
  BY <1>2, <1>8 DEF TradeRefused, AskStatus, MarksArrive
<1>9. CASE UNCHANGED vars
  BY <1>2, <1>9 DEF vars
<1> QED
  BY <1>1, <1>3, <1>5, <1>6, <1>7, <1>8, <1>9 DEF Next

\* The sums that are invariant are those of DaysAddUp.
LEMMA SumsAreThose ==
  ASSUME Inv, SumsInv
  PROVE  DaysAddUp
<1>1. /\ DOMAIN Closed = 1..day /\ \A k \in 1..day : Closed[k].trades = DayTrades(k)
      /\ DayTrades(day) = today
  BY ClosedFacts, CurrentTrades
<1>2. \A k \in 1..day : TradesOf(k) = Ids(DayTrades(k))
  <2>1. /\ Len(history) \in Nat /\ DOMAIN history = 1..Len(history)
        /\ day \in Nat \ {0} /\ \A k \in 1..day : k # day => k \in DOMAIN history
    BY ClosedFacts, CurrentTrades DEF Inv, GateTypes
  <2>2. ASSUME NEW k \in 1..day, k # day PROVE TradesOf(k) = Ids(DayTrades(k))
    BY <2>1, <2>2 DEF TradesOf, DayTrades
  <2>3. TradesOf(day) = Ids(DayTrades(day))
    <3>1. day \in DOMAIN history => history[day].trades = today
      BY <1>1 DEF DayTrades
    <3>2. TradesOf(day) = (IF day \in DOMAIN history THEN Ids(history[day].trades) ELSE {}) \cup Ids(today)
      BY <2>1 DEF TradesOf
    <3> QED
      BY <1>1, <3>1, <3>2
  <2> QED
    BY <2>2, <2>3
<1>3. UNION {TradesOf(k) : k \in 1..day} = 1..tradeSeq
  <2>1. \A i : i \in 1..tradeSeq <=> \E k \in 1..day : i \in TradesOf(k)
    BY <1>2 DEF SumsInv
  <2> QED
    BY <2>1
<1>4. [k \in DOMAIN Closed |-> SumFunction([j \in DOMAIN Closed[k].trades |-> 1])]
        = [k \in DOMAIN Ones |-> SumFunction(Ones[k])]
  BY <1>1 DEF Ones
<1>5. [k \in DOMAIN Closed |-> SumFunction([j \in DOMAIN Closed[k].trades |->
                                              Closed[k].trades[j].realized])]
        = [k \in DOMAIN Profits |-> SumFunction(Profits[k])]
  BY <1>1 DEF Profits
<1>6. [k \in DOMAIN Closed |-> SumFunction([j \in DOMAIN Closed[k].trades |->
                                              Closed[k].trades[j].fees])]
        = [k \in DOMAIN Costs |-> SumFunction(Costs[k])]
  BY <1>1 DEF Costs
<1> QED
  BY <1>3, <1>4, <1>5, <1>6 DEF DaysAddUp, SumsInv, TableSum

\* Every trade is in one day's record or among today's trades, and the days'
\* numbers of trades, profits and fees add up to the account's.
THEOREM TheDaysAddUp == Spec => []DaysAddUp
<1>1. Init => Typed
  BY MarketAssumption, AmountAssumption DEF Init, Typed, TypeOK, NoPosition, Waits, Idle
<1>2. Init => SumsInv
  <2> SUFFICES ASSUME Init PROVE SumsInv
    OBVIOUS
  <2>1. day = 1 /\ 1..day = {1} /\ DayTrades(1) = <<>> /\ tradeSeq = 0 /\ realized = 0 /\ fees = 0
    BY DEF Init, DayTrades
  <2>2. IsSeq(<<>>) /\ DOMAIN <<>> = {} /\ Ids(<<>>) = {} /\ 1..0 = {}
    <3>1. <<>> \in Seq({}) /\ DOMAIN <<>> = {}
      OBVIOUS
    <3> QED
      BY <3>1 DEF IsSeq, Ids
  <2>3. ASSUME NEW w, DOMAIN w = {1}, DOMAIN w[1] = {} PROVE TableSum(w) = 0
    <3>1. PICK v : DOMAIN v = {}
      BY <2>2
    <3>2. IsTable(v) /\ IsFiniteSet(DOMAIN v) /\ 1 \notin DOMAIN v /\ DOMAIN w = DOMAIN v \cup {1}
      BY <2>3, <3>1, FS_EmptySet DEF IsTable
    <3>3. TableSum(w) = TableSum(v)
      BY <2>3, <3>1, <3>2, TableGrow
    <3>4. TableSum(v) = 0
      <4>1. PICK f : f = [k \in DOMAIN v |-> SumFunction(v[k])]
        OBVIOUS
      <4>2. DOMAIN f = {} /\ TableSum(v) = SumFunction(f)
        BY <3>1, <4>1 DEF TableSum
      <4> QED
        BY <4>2, FS_EmptySet, SumRecursion DEF SumFunction
    <3> QED
      BY <3>3, <3>4
  <2>4. /\ DOMAIN Ones = {1} /\ DOMAIN Ones[1] = {} /\ DOMAIN Profits = {1} /\ DOMAIN Profits[1] = {}
        /\ DOMAIN Costs = {1} /\ DOMAIN Costs[1] = {}
    BY <2>1, <2>2 DEF Ones, Profits, Costs
  <2>5. TableSum(Ones) = 0 /\ TableSum(Profits) = 0 /\ TableSum(Costs) = 0
    BY <2>3, <2>4
  <2> QED
    BY <2>1, <2>2, <2>5 DEF SumsInv
<1>3. Inv /\ Typed /\ SumsInv /\ [Next]_vars => Typed' /\ SumsInv'
  BY NextTyped, NextSums
<1>4. Inv /\ SumsInv => DaysAddUp
  BY SumsAreThose
<1> QED
  BY <1>1, <1>2, <1>3, <1>4, AccountInvariant, PTL DEF Spec

-----------------------------------------------------------------------------
(* The books balance.                                                      *)

\* What a position cost.
Cost(p) == p.qty * p.avg

\* Exact division.
LEMMA WholeQuotient ==
  ASSUME NEW t \in Int, NEW m \in Nat, m > 0, t % m = 0
  PROVE  m * (t \div m) = t
OBVIOUS

\* A trade at px moves the cost of a position by what is paid and by the profit
\* it realises, if the average price is whole.
LEMMA FilledCost ==
  ASSUME NEW p \in Entry, NEW side \in Sides, NEW n \in Nat, NEW px \in Nat,
         AverageIsWhole(p, side, n, px)
  PROVE  Cost(Filled(p, side, n, px))
           = Cost(p) + Signed(side, n) * px + Realised(p, side, n, px)
<1>1. PICK q \in Int, a \in Nat : q = p.qty /\ a = p.avg
  BY DEF Entry
<1>2. PICK v \in Int : v = Signed(side, n) /\ v \in {n, -n}
  BY DEF Signed
<1>3. PICK u \in Nat : u = Abs(q) /\ (q >= 0 => u = q) /\ (q < 0 => u = -q)
  BY DEF Abs
<1>4. PICK c : c = Closing(p, side, n)
  OBVIOUS
<1>5. PICK f : f = Filled(p, side, n, px)
  OBVIOUS
<1>6. q + v # 0 => /\ f.qty = q + v
                   /\ f.avg = CASE c = 0 -> (a * u + px * n) \div (u + n)
                                [] c > 0 /\ n > u -> px
                                [] OTHER -> a
  BY <1>1, <1>2, <1>3, <1>4, <1>5 DEF Filled
<1>7. q + v = 0 => Cost(f) = 0
  BY <1>1, <1>2, <1>5 DEF Filled, NoPosition, Cost
<1>8. PICK r : r = Realised(p, side, n, px)
  OBVIOUS
<1>9. r = c * (IF q > 0 THEN px - a ELSE a - px)
  BY <1>1, <1>4, <1>8 DEF Realised
<1> SUFFICES Cost(f) = q * a + v * px + r
  BY <1>1, <1>2, <1>5, <1>8 DEF Cost
<1>10. q * v < 0 => c = Min({n, u})
  BY <1>1, <1>2, <1>3, <1>4 DEF Closing
<1>11. ~ (q * v < 0) => c = 0
  BY <1>1, <1>2, <1>4 DEF Closing
<1>12. Min({n, u}) = IF n <= u THEN n ELSE u
  <2>1. PICK m : m = IF n <= u THEN n ELSE u
    OBVIOUS
  <2>2. m \in {n, u} /\ \A y \in {n, u} : m <= y
    BY <2>1
  <2>3. \A y \in {n, u} : (\A z \in {n, u} : y <= z) => y = m
    BY <2>2
  <2>4. Min({n, u}) \in {n, u} /\ \A y \in {n, u} : Min({n, u}) <= y
    BY <2>2 DEF Min
  <2> QED
    BY <2>1, <2>3, <2>4
<1>13. CASE ~ (q * v < 0)
  <2>1. c = 0 /\ r = 0
    <3>1. \A x \in Int : 0 * x = 0
      OBVIOUS
    <3> QED
      BY <1>1, <1>9, <1>11, <1>13, <3>1
  <2>2. q = 0 \/ v = 0 \/ (q > 0 /\ v > 0) \/ (q < 0 /\ v < 0)
    <3>1. \A x, y \in Int : x > 0 /\ y < 0 => x * y < 0 /\ y * x < 0
      OBVIOUS
    <3> QED
      BY <1>13, <3>1
  <2>3. q + v = 0 => q = 0 /\ v = 0
    BY <2>2
  <2>4. CASE q + v = 0
    BY <1>7, <2>1, <2>3, <2>4
  <2>5. CASE q + v # 0
    <3>1. u + n \in Nat /\ u + n > 0 /\ (q + v = u + n \/ q + v = -(u + n))
      BY <1>2, <1>3, <2>2, <2>5
    <3>2. PICK t \in Int : t = a * u + px * n
      OBVIOUS
    <3>3. t % (u + n) = 0
      BY <1>1, <1>3, <1>4, <2>1, <3>1, <3>2 DEF AverageIsWhole
    <3>4. (u + n) * (t \div (u + n)) = t
      BY <3>1, <3>3, WholeQuotient
    <3>5. f.qty = q + v /\ f.avg = t \div (u + n)
      BY <1>6, <2>1, <2>5, <3>2
    <3>6. PICK w \in Int : w = t \div (u + n)
      BY <3>1
    <3>7. CASE q + v = u + n
      <4>1. q = u /\ v = n
        BY <1>2, <1>3, <2>2, <3>7
      <4> QED
        BY <2>1, <3>2, <3>4, <3>5, <3>6, <4>1 DEF Cost
    <3>8. CASE q + v = -(u + n)
      <4>1. q = -u /\ v = -n
        BY <1>2, <1>3, <2>2, <3>8
      <4>2. (u + n) * w = t /\ Cost(f) = (q + v) * w
        BY <3>4, <3>5, <3>6 DEF Cost
      <4>3. (q + v) * w = -((u + n) * w)
        BY <3>8
      <4>4. q * a + v * px = -(a * u + px * n)
        BY <4>1
      <4> QED
        BY <2>1, <3>2, <4>2, <4>3, <4>4
    <3> QED
      BY <3>1, <3>7, <3>8
  <2> QED
    BY <2>4, <2>5
<1>14. CASE q * v < 0
  <2>1. (q > 0 /\ v < 0 /\ v = -n) \/ (q < 0 /\ v > 0 /\ v = n)
    <3>1. \A x, y \in Int : x * y < 0 => (x > 0 /\ y < 0) \/ (x < 0 /\ y > 0)
      OBVIOUS
    <3> QED
      BY <1>2, <1>14, <3>1
  <2>2. n > 0 /\ u > 0
    BY <1>3, <2>1
  <2>3. CASE n <= u
    <3>1. c = n /\ c > 0
      BY <1>10, <1>12, <1>14, <2>2, <2>3
    <3>2. r = -(v * (px - a))
      <4>1. CASE q > 0
        <5>1. v = -n /\ r = n * (px - a)
          BY <1>9, <2>1, <3>1, <4>1
        <5> QED
          BY <5>1
      <4>2. CASE q < 0
        <5>1. v = n /\ r = n * (a - px)
          BY <1>9, <2>1, <3>1, <4>2
        <5> QED
          BY <5>1
      <4> QED
        BY <2>1, <4>1, <4>2
    <3>3. Cost(f) = (q + v) * a
      <4>1. CASE q + v = 0
        BY <1>7, <4>1
      <4>2. CASE q + v # 0
        <5>1. f.qty = q + v /\ f.avg = a
          BY <1>6, <2>3, <3>1, <4>2
        <5> QED
          BY <5>1 DEF Cost
      <4> QED
        BY <4>1, <4>2
    <3> QED
      BY <3>2, <3>3
  <2>4. CASE n > u
    <3>1. c = u /\ c > 0
      BY <1>10, <1>12, <1>14, <2>2, <2>4
    <3>2. r = q * (px - a)
      <4>1. CASE q > 0
        <5>1. u = q /\ r = u * (px - a)
          BY <1>3, <1>9, <3>1, <4>1
        <5> QED
          BY <5>1
      <4>2. CASE q < 0
        <5>1. u = -q /\ r = u * (a - px)
          BY <1>3, <1>9, <3>1, <4>2
        <5> QED
          BY <5>1
      <4> QED
        BY <2>1, <4>1, <4>2
    <3>3. q + v # 0
      BY <1>3, <2>1, <2>4
    <3>4. f.qty = q + v /\ f.avg = px
      BY <1>6, <2>4, <3>1, <3>3
    <3> QED
      BY <3>2, <3>4 DEF Cost
  <2> QED
    BY <2>3, <2>4
<1> QED
  BY <1>13, <1>14

\* The cost of all that is held.
TotalCost == SumFunction([s \in Symbols |-> Cost(positions[s])])

\* The identity of the books, as long as no average price was rounded.
Balanced == whole => cash + TotalCost = InitialCash + realized - fees

\* A booked trade keeps the balance.
LEMMA BookedBalance ==
  ASSUME Typed, Balanced, NEW c \in Clients, NEW s \in Symbols, NEW side \in Sides,
         NEW n \in Quantities, NEW px \in Nat, NEW asked, Booked(c, s, side, n, px, asked)
  PROVE  Balanced'
<1> SUFFICES ASSUME whole' PROVE cash' + TotalCost' = InitialCash + realized' - fees'
  BY DEF Balanced
<1>1. /\ positions \in [Symbols -> Entry] /\ positions[s] \in Entry /\ n \in Nat
      /\ cash \in Int /\ realized \in Int /\ fees \in Nat
  BY AmountAssumption DEF Typed, TypeOK, Entry
<1>2. whole /\ AverageIsWhole(positions[s], side, n, px)
  BY DEF Booked, Typed, TypeOK
<1>3. PICK q \in Entry : q = Filled(positions[s], side, n, px)
  BY <1>1, FilledTyped
<1>4. PICK r \in Int, v \in Int : r = Realised(positions[s], side, n, px) /\ v = Signed(side, n)
  BY <1>1, FilledTyped
<1>5. Cost(q) = Cost(positions[s]) + v * px + r
  BY <1>1, <1>2, <1>3, <1>4, FilledCost
<1>6. positions' = [positions EXCEPT ![s] = q]
  BY <1>3 DEF Booked
<1>7. PICK f, g : /\ f = [x \in Symbols |-> Cost(positions[x])]
                  /\ g = [x \in Symbols |-> Cost(positions'[x])]
  OBVIOUS
<1>8. /\ DOMAIN f = Symbols /\ DOMAIN g = Symbols
      /\ \A x \in Symbols : f[x] = Cost(positions[x]) /\ g[x] = Cost(positions'[x])
  BY <1>7
<1>9. \A x \in Symbols : f[x] \in Int /\ g[x] \in Int
  <2>1. \A e \in Entry : Cost(e) \in Int
    BY DEF Cost, Entry
  <2>2. \A x \in Symbols : positions[x] \in Entry /\ positions'[x] \in Entry
    BY <1>1, <1>6
  <2> QED
    BY <1>8, <2>1, <2>2
<1>10. /\ \A x \in Symbols \ {s} : g[x] = f[x]
       /\ f[s] = Cost(positions[s]) /\ g[s] = Cost(q)
  BY <1>1, <1>6, <1>8
<1>11. /\ SumFunctionOnSet(f, Symbols) \in Int
       /\ SumFunctionOnSet(g, Symbols) = SumFunctionOnSet(f, Symbols) + (g[s] - f[s])
  <2>1. PICK S : S = Symbols
    OBVIOUS
  <2>2. IsFiniteSet(S) /\ s \in S /\ \A y \in S : f[y] \in Int /\ g[y] \in Int
    BY <1>9, <2>1, MarketAssumption
  <2>3. \A y \in S \ {s} : g[y] = f[y]
    BY <1>10, <2>1
  <2>4. PICK d \in Int : d = g[s] - f[s] /\ g[s] = f[s] + d
    BY <1>9
  <2>5. SumFunctionOnSet(g, S) = SumFunctionOnSet(f, S) + d
    BY <2>2, <2>3, <2>4, SumChange
  <2>6. SumFunctionOnSet(f, S) \in Int
    BY <2>2, SumRecursion
  <2> QED
    BY <2>1, <2>4, <2>5, <2>6
<1>12. TotalCost = SumFunctionOnSet(f, Symbols) /\ TotalCost' = SumFunctionOnSet(g, Symbols)
  BY <1>7, <1>8 DEF TotalCost, SumFunction
<1>13. PICK d \in Int, e \in Int : d = v * px /\ e = n * Fee
  BY <1>1, AmountAssumption
<1>14. cash' = cash - d - e /\ realized' = realized + r /\ fees' = fees + e
  BY <1>4, <1>13 DEF Booked
<1>15. g[s] - f[s] = d + r
  BY <1>5, <1>9, <1>10, <1>13
<1>16. cash + TotalCost = InitialCash + realized - fees
  BY <1>2 DEF Balanced
<1> QED
  BY <1>1, <1>11, <1>12, <1>14, <1>15, <1>16, AmountAssumption

\* What trades nothing keeps the balance.
LEMMA BalanceKept ==
  ASSUME Balanced, UNCHANGED <<cash, realized, fees, whole>>, NEW S, S = Symbols,
         \A s \in S : positions'[s].qty = positions[s].qty /\ positions'[s].avg = positions[s].avg
  PROVE  Balanced'
<1>1. [s \in Symbols |-> Cost(positions[s])]' = [s \in Symbols |-> Cost(positions[s])]
  BY DEF Cost
<1> QED
  BY <1>1 DEF Balanced, TotalCost

\* Every step keeps the balance.
LEMMA NextBalanced ==
  ASSUME Typed, Balanced, [Next]_vars
  PROVE  Balanced'
<1>1. ASSUME UNCHANGED <<cash, realized, fees, whole, positions>> PROVE Balanced'
  BY <1>1, BalanceKept
<1>2. ASSUME NEW c \in Clients, NEW s \in Symbols, NEW side \in Sides, NEW n \in Quantities,
             NEW px \in AgentPrices, TradeAtPrice(c, s, side, n, px)
      PROVE  Balanced'
  BY <1>2, BookedBalance, AmountAssumption DEF TradeAtPrice
<1>3. ASSUME NEW c \in Clients, PriceArrives(c) PROVE Balanced'
  <2>1. pending[c] \in Waits /\ pending[c].stage = "price"
    BY <1>3 DEF Typed, PriceArrives
  <2>2. /\ pending[c].symbol \in Symbols /\ pending[c].side \in Sides
        /\ pending[c].qty \in Quantities /\ pending[c].date \in Dates
    BY <2>1 DEF Waits, Idle
  <2>3. Price[pending[c].symbol][pending[c].date] \in Nat
    BY <2>2, MarketAssumption
  <2> QED
    BY <1>3, <2>2, <2>3, BookedBalance DEF PriceArrives
<1>4. ASSUME NEW c \in Clients, MarksArrive(c) PROVE Balanced'
  <2>1. UNCHANGED <<cash, realized, fees, whole>>
    BY <1>4 DEF MarksArrive
  <2>2. positions \in [Symbols -> Entry]
    BY DEF Typed, TypeOK, Entry
  <2>3. \A s \in Symbols : positions'[s].qty = positions[s].qty /\ positions'[s].avg = positions[s].avg
    BY <1>4, <2>2 DEF MarksArrive, Entry
  <2> QED
    BY <2>1, <2>3, BalanceKept
<1>5. CASE EndDay \/ CloseAccount \/ \E d \in Dates : NextDay(d)
  BY <1>1, <1>5 DEF EndDay, CloseAccount, NextDay
<1>6. ASSUME NEW c \in Clients, NEW s \in Symbols, NEW side \in Sides, NEW n \in Quantities,
             AskPrice(c, s, side, n)
      PROVE  Balanced'
  BY <1>1, <1>6 DEF AskPrice
<1>7. ASSUME NEW c \in Clients, TradeRefused(c) \/ AskStatus(c) PROVE Balanced'
  BY <1>1, <1>7 DEF TradeRefused, AskStatus
<1>8. CASE UNCHANGED vars
  BY <1>1, <1>8 DEF vars
<1> QED
  BY <1>2, <1>3, <1>4, <1>5, <1>6, <1>7, <1>8 DEF Next

\* Cash and the cost of what is held are the initial cash and the realised
\* profit less fees, however positions are added to, reduced, turned around and
\* marked, for any prices, quantities and fees.
THEOREM TheBooksBalance == Spec => []BooksBalance
<1>1. Init => Typed
  BY MarketAssumption, AmountAssumption DEF Init, Typed, TypeOK, NoPosition, Waits, Idle
<1>2. Init => Balanced
  <2> SUFFICES ASSUME Init PROVE Balanced
    OBVIOUS
  <2>1. PICK f : f = [s \in Symbols |-> Cost(positions[s])]
    OBVIOUS
  <2>2. DOMAIN f = Symbols /\ TotalCost = SumFunctionOnSet(f, Symbols)
    BY <2>1 DEF TotalCost, SumFunction
  <2>3. \A s \in Symbols : f[s] = 0
    BY <2>1 DEF Init, NoPosition, Cost
  <2>4. SumFunctionOnSet(f, Symbols) = 0
    BY <2>3, MarketAssumption, SumZero
  <2> QED
    BY <2>2, <2>4, AmountAssumption DEF Init, Balanced
<1>3. Typed /\ Balanced /\ [Next]_vars => Typed' /\ Balanced'
  BY NextTyped, NextBalanced
<1>4. Balanced => BooksBalance
  BY DEF Balanced, TotalCost, Cost, BooksBalance
<1> QED
  BY <1>1, <1>2, <1>3, <1>4, PTL DEF Spec

-----------------------------------------------------------------------------
(* The account implements the day gate.                                    *)

GateOf == CASE status = "ACTIVE" -> "OPEN"
            [] status = "FROZEN" -> "SHUT"
            [] status = "CLOSED" -> "CLOSED"
Blotter == [k \in 1..day |-> TradesOf(k)]

\* The blotter has a set of known ids for every day so far.
LEMMA BlotterFacts ==
  ASSUME Inv
  PROVE  /\ Blotter \in Seq(SUBSET (1..tradeSeq)) /\ Len(Blotter) = day
         /\ \A k \in 1..day : Blotter[k] = TradesOf(k)
<1>1. /\ day \in Nat \ {0} /\ Len(history) \in Nat /\ DOMAIN history = 1..Len(history)
  BY ClosedFacts DEF Inv, GateTypes
<1>2. ASSUME NEW k \in 1..day PROVE TradesOf(k) \subseteq 1..tradeSeq
  <2>1. k <= Len(history) => Ids(history[k].trades) \subseteq 1..tradeSeq
    BY <1>1 DEF Inv, IdsOK
  <2>2. Ids(today) \subseteq 1..tradeSeq
    BY DEF Inv, IdsOK
  <2> QED
    BY <2>1, <2>2 DEF TradesOf
<1>3. Blotter \in [1..day -> SUBSET (1..tradeSeq)]
  BY <1>2 DEF Blotter
<1>4. Blotter \in Seq(SUBSET (1..tradeSeq)) /\ Len(Blotter) = day
  BY <1>1, <1>3
<1> QED
  BY <1>4 DEF Blotter

\* Appending an empty set, as a function.
LEMMA AppendIs ==
  ASSUME NEW S, NEW q \in Seq(SUBSET S)
  PROVE  Append(q, {}) = [k \in 1..(Len(q) + 1) |-> IF k = Len(q) + 1 THEN {} ELSE q[k]]
<1>1. Append(q, {}) \in Seq(SUBSET S) /\ Len(Append(q, {})) = Len(q) + 1 /\ Len(q) \in Nat
  OBVIOUS
<1>2. Append(q, {}) = [k \in 1..(Len(q) + 1) |-> Append(q, {})[k]]
  <2>1. \A p \in Seq(SUBSET S) : p \in [1..Len(p) -> SUBSET S]
    OBVIOUS
  <2>2. Append(q, {}) \in [1..(Len(q) + 1) -> SUBSET S]
    BY <1>1, <2>1
  <2>3. \A D, T : \A f \in [D -> T] : f = [k \in D |-> f[k]]
    OBVIOUS
  <2> QED
    BY <2>2, <2>3
<1>3. \A k \in 1..(Len(q) + 1) : Append(q, {})[k] = IF k = Len(q) + 1 THEN {} ELSE q[k]
  OBVIOUS
<1> QED
  BY <1>2, <1>3

\* A new account is a gate with an empty first day.
LEMMA GateInit == Init => Gate!Init
<1> SUFFICES ASSUME Init PROVE Gate!Init
  OBVIOUS
<1>1. GateOf = "OPEN"
  BY DEF Init, GateOf
<1>2. TradesOf(1) = {}
  BY DEF Init, TradesOf, Ids
<1>3. Blotter = <<{}>>
  <2>1. Blotter = [k \in {1} |-> {}]
    <3>1. 1..day = {1}
      BY DEF Init
    <3> QED
      BY <1>2, <3>1 DEF Blotter
  <2>2. <<{}>> = [k \in {1} |-> {}]
    <3> DEFINE q == <<{}>>
    <3>1. q \in Seq({{}}) /\ Len(q) = 1 /\ q[1] = {}
      OBVIOUS
    <3>2. q \in [1..1 -> {{}}]
      BY <3>1
    <3>3. 1..1 = {1}
      OBVIOUS
    <3> HIDE DEF q
    <3>4. q = [k \in {1} |-> {}]
      BY <3>1, <3>2, <3>3
    <3> QED
      BY <3>4 DEF q
  <2> QED
    BY <2>1, <2>2
<1> QED
  BY <1>1, <1>3 DEF Gate!Init, GateOf, Blotter

\* Steps that book no trade and leave the days alone are stutters of the gate.
LEMMA GateStutter ==
  ASSUME UNCHANGED <<status, day, tradeSeq, today, history>>
  PROVE  UNCHANGED <<GateOf, Blotter>>
BY DEF GateOf, Blotter, TradesOf, Ids

\* A booked trade joins the open day.
LEMMA GateTrade ==
  ASSUME Inv, NEW c, NEW s, NEW side, NEW n, NEW px, NEW asked, Booked(c, s, side, n, px, asked)
  PROVE  Gate!Next
<1>1. PICK e : e.id = tradeSeq + 1 /\ today' = Append(today, e)
  <2> DEFINE e == [id |-> tradeSeq + 1, day |-> day, date |-> date, asked |-> asked,
                   realized |-> Realised(positions[s], side, n, px), fees |-> n * Fee]
  <2>1. today' = Append(today, e) /\ e.id = tradeSeq + 1
    BY DEF Booked
  <2> QED
    BY <2>1
<1>2. /\ status = "ACTIVE" /\ tradeSeq < MaxTrades
      /\ UNCHANGED <<status, day, history>>
  BY DEF Booked, MayTrade
<1>3. PICK t : t = tradeSeq + 1
  OBVIOUS
<1>4. t \in 1..MaxTrades /\ t \notin 1..tradeSeq
  BY <1>2, <1>3, AmountAssumption DEF Inv, GateTypes
<1>5. day \in Nat \ {0} /\ Len(history) = day - 1
  BY <1>2 DEF Inv, GateTypes, HistoryIsContiguous
<1>6. Ids(today') = Ids(today) \cup {t}
  BY <1>1, <1>3, IdsAppend DEF Inv, GateTypes
<1>7. /\ Blotter \in Seq(SUBSET (1..tradeSeq)) /\ Len(Blotter) = day
      /\ \A k \in 1..day : Blotter[k] = TradesOf(k)
  BY BlotterFacts
<1>8. \A d \in 1..day : t \notin Blotter[d]
  BY <1>4, <1>7
<1>9. Blotter' = [Blotter EXCEPT ![day] = @ \cup {t}]
  <2>1. Blotter' = [k \in 1..day |-> TradesOf(k)']
    BY <1>2 DEF Blotter
  <2>2. ASSUME NEW k \in 1..day
        PROVE  TradesOf(k)' = IF k = day THEN TradesOf(k) \cup {t} ELSE TradesOf(k)
    <3>1. TradesOf(k)' = (IF k <= Len(history) THEN Ids(history[k].trades) ELSE {}) \cup
                         (IF k = day THEN Ids(today') ELSE {})
      BY <1>2 DEF TradesOf, Ids
    <3> QED
      BY <1>6, <3>1 DEF TradesOf
  <2> QED
    BY <1>5, <2>1, <2>2 DEF Blotter
<1>10. GateOf = "OPEN" /\ UNCHANGED GateOf
  BY <1>2 DEF GateOf
<1>11. Gate!Trade
  <2>1. Gate!Today = day
    BY <1>7 DEF Gate!Today, Blotter
  <2> QED
    BY <1>4, <1>8, <1>9, <1>10, <2>1 DEF Gate!Trade, GateOf, Blotter
<1> QED
  BY <1>11 DEF Gate!Next

\* Putting the current day in the history leaves the blotter as it is.
LEMMA EndKeepsBlotter ==
  ASSUME Inv, history' = Closed, UNCHANGED <<day, today>>
  PROVE  UNCHANGED Blotter
<1>1. /\ day \in Nat \ {0} /\ Len(history) \in Nat /\ DOMAIN history = 1..Len(history)
      /\ Len(history) <= day
  BY ClosedFacts DEF Inv, GateTypes, HistoryIsContiguous
<1>2. ASSUME NEW k \in 1..day PROVE TradesOf(k)' = TradesOf(k)
  <2>1. TradesOf(k)' = Ids(Closed[k].trades) \cup (IF k = day THEN Ids(today) ELSE {})
    BY ClosedFacts DEF TradesOf, Ids
  <2>2. CASE k \in DOMAIN history
    BY <1>1, <2>1, <2>2, ClosedFacts DEF TradesOf
  <2>3. CASE k = day /\ k \notin DOMAIN history
    BY <1>1, <2>1, <2>3, ClosedFacts DEF TradesOf
  <2> QED
    BY <2>2, <2>3, ClosedFacts
<1> QED
  BY <1>2 DEF Blotter

\* The next day gives the blotter an empty set.
LEMMA GateNextDay ==
  ASSUME Inv, NEW d \in Dates, NextDay(d)
  PROVE  Gate!Next
<1>1. /\ day \in Nat \ {0} /\ Len(history) \in Nat /\ DOMAIN history = 1..Len(history)
      /\ Len(history) <= day
  BY ClosedFacts DEF Inv, GateTypes, HistoryIsContiguous
<1>2. /\ history' = Closed /\ day' = day + 1 /\ today' = <<>> /\ status' = "ACTIVE"
      /\ status # "CLOSED"
  BY DEF NextDay
<1>3. Ids(<<>>) = {}
  BY DEF Ids
<1>4. ASSUME NEW k \in 1..(day + 1)
      PROVE  TradesOf(k)' = IF k = day + 1 THEN {} ELSE TradesOf(k)
  <2>1. TradesOf(k)' = IF k <= day THEN Ids(Closed[k].trades) ELSE {}
    <3>1. TradesOf(k)' = (IF k <= Len(Closed) THEN Ids(Closed[k].trades) ELSE {}) \cup
                         (IF k = day + 1 THEN Ids(<<>>) ELSE {})
      BY <1>2 DEF TradesOf, Ids
    <3> QED
      BY <1>3, <3>1, ClosedFacts
  <2>2. CASE k = day + 1
    BY <1>1, <2>1, <2>2
  <2>3. CASE k \in DOMAIN history /\ k # day
    BY <1>1, <2>1, <2>3, ClosedFacts DEF TradesOf
  <2>4. CASE k = day
    <3>1. Closed[day].trades = today
      BY ClosedFacts
    <3>2. day \in DOMAIN history => Closed[day] = history[day]
      BY ClosedFacts
    <3> QED
      BY <1>1, <2>1, <2>4, <3>1, <3>2 DEF TradesOf
  <2> QED
    BY <1>1, <2>2, <2>3, <2>4, ClosedFacts
<1>5. Blotter \in Seq(SUBSET (1..tradeSeq)) /\ Len(Blotter) = day
  BY BlotterFacts
<1>6. Blotter' = Append(Blotter, {})
  <2>1. Blotter' = [k \in 1..(day + 1) |-> TradesOf(k)']
    BY <1>2 DEF Blotter
  <2>2. Append(Blotter, {}) = [k \in 1..(day + 1) |-> IF k = day + 1 THEN {} ELSE Blotter[k]]
    BY <1>5, AppendIs
  <2>3. \A k \in 1..(day + 1) : k = day + 1 \/ Blotter[k] = TradesOf(k)
    BY <1>1 DEF Blotter
  <2> QED
    BY <1>4, <2>1, <2>2, <2>3
<1>7. GateOf # "CLOSED" /\ GateOf' = "OPEN"
  BY <1>2 DEF Inv, GateTypes, GateOf
<1>8. Gate!NextDay
  BY <1>6, <1>7 DEF Gate!NextDay, GateOf, Blotter
<1> QED
  BY <1>8 DEF Gate!Next

\* Every step of the account is a step of the gate or leaves it alone.
LEMMA GateNext == Inv /\ [Next]_vars => Gate!Next \/ UNCHANGED <<GateOf, Blotter>>
<1> SUFFICES ASSUME Inv, [Next]_vars PROVE Gate!Next \/ UNCHANGED <<GateOf, Blotter>>
  OBVIOUS
<1>1. ASSUME NEW c \in Clients, NEW s \in Symbols, NEW side \in Sides, NEW n \in Quantities,
             NEW px \in AgentPrices, TradeAtPrice(c, s, side, n, px)
      PROVE  Gate!Next
  BY <1>1, GateTrade DEF TradeAtPrice
<1>2. ASSUME NEW c \in Clients, NEW s \in Symbols, NEW side \in Sides, NEW n \in Quantities,
             AskPrice(c, s, side, n)
      PROVE  UNCHANGED <<GateOf, Blotter>>
  BY <1>2, GateStutter DEF AskPrice
<1>3. ASSUME NEW c \in Clients, PriceArrives(c) PROVE Gate!Next
  BY <1>3, GateTrade DEF PriceArrives
<1>4. ASSUME NEW c \in Clients, TradeRefused(c) \/ AskStatus(c) \/ MarksArrive(c)
      PROVE  UNCHANGED <<GateOf, Blotter>>
  BY <1>4, GateStutter DEF TradeRefused, AskStatus, MarksArrive
<1>5. CASE EndDay
  <2>1. UNCHANGED Blotter /\ GateOf = "OPEN" /\ GateOf' = "SHUT"
    BY <1>5, EndKeepsBlotter DEF EndDay, GateOf
  <2>2. Gate!EndDay
    BY <2>1 DEF Gate!EndDay, GateOf, Blotter
  <2> QED
    BY <2>2 DEF Gate!Next
<1>6. ASSUME NEW d \in Dates, NextDay(d) PROVE Gate!Next
  BY <1>6, GateNextDay
<1>7. CASE CloseAccount
  <2>1. UNCHANGED Blotter /\ GateOf' = "CLOSED"
    BY <1>7, EndKeepsBlotter DEF CloseAccount, GateOf
  <2>2. Gate!CloseAccount
    BY <2>1 DEF Gate!CloseAccount, GateOf, Blotter
  <2> QED
    BY <2>2 DEF Gate!Next
<1>8. CASE UNCHANGED vars
  BY <1>8, GateStutter DEF vars
<1> QED
  BY <1>1, <1>2, <1>3, <1>4, <1>5, <1>6, <1>7, <1>8 DEF Next

\* The account implements the day gate: a day that has ended takes no trade,
\* also when the price a trade waits for arrives after the day it was asked on.
THEOREM AccountKeepsDayGate == Spec => KeepsDayGate
<1>1. Init => Gate!Init
  BY GateInit
<1>2. Inv /\ [Next]_vars => Gate!Next \/ UNCHANGED <<GateOf, Blotter>>
  BY GateNext
<1> QED
  BY <1>1, <1>2, AccountInvariant, PTL DEF Spec, KeepsDayGate, Gate!Spec, GateOf, Blotter
=============================================================================
