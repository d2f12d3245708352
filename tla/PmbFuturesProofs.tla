--------------------------- MODULE PmbFuturesProofs --------------------------
(***************************************************************************)
(* The futures margin call of PmbFutures for every market, every sequence  *)
(* of orders and every margin specification.                               *)
(***************************************************************************)
EXTENDS PmbFutures, FoldFacts, TLAPS

Contracts == {ContractAt[s][b] : s \in Symbols, b \in Bars} \cup {NoContract}

Position == [qty : Int, avg : Int, mark : Int, basis : Int,
             contract : Contracts, settled : Int]

Account == [cash : Int, realized : Int, fees : Nat, pos : [Symbols -> Position],
            status : {"NORMAL", "MARGIN_CALL", "LIQUIDATION"}, calls : Nat,
            whole : BOOLEAN]

\* Nothing is left of a flat position.
Tidy(a) == \A s \in Symbols : a.pos[s].qty = 0 => a.pos[s] = NoPosition

\* The contract of every open position is known.
Known(a) == \A s \in Symbols : a.pos[s].qty # 0 => a.pos[s].contract # NoContract

-----------------------------------------------------------------------------
(* Sums of an account.                                                     *)

\* What an account is worth and what it must hold are integers.
LEMMA MoneyIsInt ==
  ASSUME NEW a \in Account
  PROVE  Equity(a) \in Int /\ MaintenanceOf(a) \in Int /\ InitialOf(a) \in Int
<1> DEFINE worth == [s \in Symbols |-> LET p == a.pos[s] IN
                       p.qty * (p.mark - Or(p.basis, p.avg)) * Mult]
           size == [s \in Symbols |-> Abs(a.pos[s].qty)]
<1>1. \A s \in Symbols : a.pos[s] \in Position
  BY DEF Account
<1>2. \A s \in Symbols : worth[s] \in Int /\ size[s] \in Int
  <2> SUFFICES ASSUME NEW s \in Symbols PROVE worth[s] \in Int /\ size[s] \in Int
    OBVIOUS
  <2>1. /\ a.pos[s].qty \in Int /\ a.pos[s].mark \in Int
        /\ a.pos[s].basis \in Int /\ a.pos[s].avg \in Int
    BY <1>1 DEF Position
  <2>2. a.pos[s].mark - Or(a.pos[s].basis, a.pos[s].avg) \in Int
    BY <2>1 DEF Or
  <2>3. \A x, y, z \in Int : x * y * z \in Int
    OBVIOUS
  <2>4. Abs(a.pos[s].qty) \in Int
    BY <2>1 DEF Abs
  <2> QED
    BY <2>1, <2>2, <2>3, <2>4, SpecAssumption
<1>3. DOMAIN worth = Symbols /\ DOMAIN size = Symbols
  OBVIOUS
<1>4. Equity(a) = a.cash + SumFunction(worth) /\ Held(a) = SumFunction(size)
  BY DEF Equity, Held
<1> HIDE DEF worth, size
<1>5. SumFunction(worth) \in Int /\ SumFunction(size) \in Int
  BY <1>2, <1>3, MarketAssumption, SumRecursion DEF SumFunction
<1>6. a.cash \in Int
  BY DEF Account
<1>7. \A x, y \in Int : x * y \in Int /\ x + y \in Int
  OBVIOUS
<1> QED
  BY <1>4, <1>5, <1>6, <1>7, SpecAssumption DEF MaintenanceOf, InitialOf

\* They depend on cash and positions only.
LEMMA SameMoney ==
  ASSUME NEW a, NEW b, b.pos = a.pos, b.cash = a.cash
  PROVE  /\ Equity(b) = Equity(a) /\ MaintenanceOf(b) = MaintenanceOf(a)
         /\ InitialOf(b) = InitialOf(a) /\ Open(b) = Open(a)
  BY DEF Equity, MaintenanceOf, InitialOf, Held, Open

-----------------------------------------------------------------------------
(* Margin engine.                                                          *)

\* A check touches the state of the call only.  It ends a call when equity is
\* at the initial margin or no futures are left, and then counts from zero.
LEMMA CheckedFacts ==
  ASSUME NEW a \in Account
  PROVE  /\ Checked(a) \in Account
         /\ Checked(a).pos = a.pos /\ Checked(a).cash = a.cash
         /\ Checked(a).status # "NORMAL" => Checked(a).calls = a.calls
         /\ Checked(a).calls \in {0, a.calls}
         /\ a.status # "NORMAL" /\ Checked(a).status = "NORMAL" =>
              /\ Checked(a).calls = 0
              /\ Open(a) = {} \/ Equity(a) >= InitialOf(a)
<1>1. Equity(a) \in Int /\ MaintenanceOf(a) \in Int /\ InitialOf(a) \in Int
  BY MoneyIsInt
<1>2. \A st \in {"NORMAL", "MARGIN_CALL", "LIQUIDATION"}, n \in Nat :
        LET c == [a EXCEPT !.status = st, !.calls = n] IN
        /\ c \in Account /\ c.pos = a.pos /\ c.cash = a.cash
        /\ c.status = st /\ c.calls = n
  BY DEF Account
<1>3. \A st \in {"NORMAL", "MARGIN_CALL", "LIQUIDATION"} :
        LET c == [a EXCEPT !.status = st] IN
        /\ c \in Account /\ c.pos = a.pos /\ c.cash = a.cash
        /\ c.status = st /\ c.calls = a.calls
  BY DEF Account
<1>4. a.status \in {"NORMAL", "MARGIN_CALL", "LIQUIDATION"} /\ a.calls \in Nat
  BY DEF Account
<1> DEFINE still == IF a.status = "LIQUIDATION" THEN a.status ELSE "MARGIN_CALL"
           called == [a EXCEPT !.status = still]
           met == [a EXCEPT !.status = "NORMAL", !.calls = 0]
<1>5. /\ called \in Account /\ called.pos = a.pos /\ called.cash = a.cash
      /\ called.status = still /\ called.calls = a.calls /\ still # "NORMAL"
  BY <1>3, <1>4
<1>6. /\ met \in Account /\ met.pos = a.pos /\ met.cash = a.cash
      /\ met.status = "NORMAL" /\ met.calls = 0
  BY <1>2, <1>4
<1>7. \/ Checked(a) = called
      \/ Checked(a) = a
      \/ Checked(a) = met /\ (a.status # "NORMAL" => Open(a) = {} \/ Equity(a) >= InitialOf(a))
  BY <1>1 DEF Checked
<1> HIDE DEF still, called, met
<1> QED
  BY <1>4, <1>5, <1>6, <1>7

\* A second check finds what the first one found.
LEMMA CheckedAgain ==
  ASSUME NEW a \in Account, NEW b \in Account,
         b.pos = a.pos, b.cash = a.cash, b.status = Checked(a).status
  PROVE  Checked(b).status = Checked(a).status
<1>1. /\ Equity(b) = Equity(a) /\ MaintenanceOf(b) = MaintenanceOf(a)
      /\ InitialOf(b) = InitialOf(a) /\ Open(b) = Open(a)
  BY SameMoney
<1>2. Equity(a) \in Int /\ MaintenanceOf(a) \in Int /\ InitialOf(a) \in Int
  BY MoneyIsInt
<1> QED
  BY <1>1, <1>2 DEF Checked, Account

\* A settlement counts one more for an open call.
LEMMA CountedFacts ==
  ASSUME NEW a \in Account
  PROVE  /\ Counted(a) \in Account
         /\ Counted(a).pos = a.pos /\ Counted(a).cash = a.cash
         /\ Counted(a).status = a.status
         /\ a.status # "NORMAL" /\ Open(a) # {} => Counted(a).calls = a.calls + 1
         /\ a.status = "NORMAL" \/ Open(a) = {} => Counted(a).calls = 0
  BY DEF Counted, Account

-----------------------------------------------------------------------------
(* Ledger: the steps of a bar that trade nothing.                          *)

\* Prices are integers.
LEMMA PricesAreInt == \A x \in Prices : x \in Int
<1>1. \A x \in Prices : x \in Nat
  BY MarketAssumption
<1> QED
  BY <1>1

\* Bars as the market brings them.
IsQuote(bars) ==
  /\ DOMAIN bars \subseteq Symbols
  /\ \A s \in DOMAIN bars : /\ bars[s].open \in Int /\ bars[s].close \in Int
                            /\ bars[s].contract \in Contracts \ {NoContract}

\* Account b is account a with other prices on its open positions.
Repriced(a, b) ==
  /\ b \in Account /\ b.status = a.status /\ b.calls = a.calls
  /\ \A s \in Symbols : /\ b.pos[s].qty = a.pos[s].qty
                        /\ a.pos[s].qty = 0 => b.pos[s] = a.pos[s]
                        /\ a.pos[s].contract # NoContract => b.pos[s].contract # NoContract

\* What other prices leave alone.
LEMMA RepricedFacts ==
  ASSUME NEW a, NEW b, Repriced(a, b)
  PROVE  /\ Open(b) = Open(a) /\ (Tidy(a) => Tidy(b)) /\ (Known(a) => Known(b))
  BY DEF Repriced, Open, Tidy, Known

\* Repricing twice is repricing.
LEMMA RepricedTwice ==
  ASSUME NEW a, NEW b, NEW c, Repriced(a, b), Repriced(b, c)
  PROVE  Repriced(a, c)
  BY DEF Repriced

\* New positions leave the rest of the account alone.
LEMMA WithPositions ==
  ASSUME NEW a \in Account, NEW pos \in [Symbols -> Position]
  PROVE  /\ [a EXCEPT !.pos = pos] \in Account
         /\ [a EXCEPT !.pos = pos].pos = pos
         /\ [a EXCEPT !.pos = pos].status = a.status
         /\ [a EXCEPT !.pos = pos].calls = a.calls
  BY DEF Account

\* A roll changes the prices and the contract of a position.
LEMMA RolledFacts ==
  ASSUME NEW a \in Account, NEW bars, IsQuote(bars)
  PROVE  Repriced(a, Rolled(a, bars))
<1> DEFINE shift(s) == bars[s].open - Or(a.pos[s].mark, a.pos[s].basis)
           moved(s) == [a.pos[s] EXCEPT !.avg = @ + shift(s), !.basis = @ + shift(s),
                          !.mark = bars[s].open, !.contract = bars[s].contract]
           pos == [s \in Symbols |-> IF s \in Rolls(a, bars) THEN moved(s) ELSE a.pos[s]]
<1>1. Rolled(a, bars) = [a EXCEPT !.pos = pos]
  BY DEF Rolled, Account
<1>2. \A s \in Symbols : a.pos[s] \in Position
  BY DEF Account
<1>3. ASSUME NEW s \in Rolls(a, bars)
      PROVE  /\ moved(s) \in Position /\ moved(s).qty = a.pos[s].qty
             /\ moved(s).contract # NoContract /\ a.pos[s].qty # 0
  <2>1. /\ s \in Symbols /\ s \in DOMAIN bars /\ a.pos[s].qty # 0
        /\ bars[s].open \in Int /\ bars[s].contract \in Contracts \ {NoContract}
    BY DEF Rolls, Open, IsQuote
  <2>2. shift(s) \in Int
    BY <1>2, <2>1 DEF Or, Position
  <2>3. /\ a.pos[s].avg + shift(s) \in Int /\ a.pos[s].basis + shift(s) \in Int
        /\ a.pos[s] \in Position
    BY <1>2, <2>1, <2>2 DEF Position
  <2>4. PICK v \in Int, w \in Int : /\ v = a.pos[s].avg + shift(s)
                                   /\ w = a.pos[s].basis + shift(s)
    BY <2>3
  <2>5. PICK o \in Int, c \in Contracts \ {NoContract} :
          o = bars[s].open /\ c = bars[s].contract
    BY <2>1
  <2>6. PICK p \in Position : p = a.pos[s]
    BY <2>3
  <2>7. moved(s) = [p EXCEPT !.avg = v, !.basis = w, !.mark = o, !.contract = c]
    BY <2>4, <2>5, <2>6
  <2> HIDE DEF moved
  <2>8. moved(s) \in Position /\ moved(s).qty = p.qty /\ moved(s).contract = c
    BY <2>7 DEF Position
  <2> QED
    BY <2>1, <2>6, <2>8, <2>5
<1> HIDE DEF moved
<1>4. pos \in [Symbols -> Position]
  BY <1>2, <1>3
<1>5. \A s \in Symbols : /\ pos[s].qty = a.pos[s].qty
                         /\ a.pos[s].qty = 0 => pos[s] = a.pos[s]
                         /\ a.pos[s].contract # NoContract => pos[s].contract # NoContract
  BY <1>3
<1> HIDE DEF pos
<1> DEFINE b == Rolled(a, bars)
<1>6. b \in Account /\ b.pos = pos /\ b.status = a.status /\ b.calls = a.calls
  BY <1>1, <1>4, WithPositions
<1> HIDE DEF b
<1>7. Repriced(a, b)
  BY <1>5, <1>6 DEF Repriced
<1> QED
  BY <1>7 DEF b

\* A mark changes the price of a position.
LEMMA MarkedFacts ==
  ASSUME NEW a \in Account, NEW bars, IsQuote(bars)
  PROVE  Repriced(a, Marked(a, bars))
<1> DEFINE pos == [s \in Symbols |->
             IF s \in Open(a) \cap DOMAIN bars
             THEN [a.pos[s] EXCEPT !.mark = bars[s].close] ELSE a.pos[s]]
<1>1. Marked(a, bars) = [a EXCEPT !.pos = pos]
  BY DEF Marked, Account
<1>2. \A s \in Symbols : a.pos[s] \in Position
  BY DEF Account
<1>3. pos \in [Symbols -> Position]
  BY <1>2 DEF IsQuote, Position
<1>4. \A s \in Symbols : /\ pos[s].qty = a.pos[s].qty
                         /\ a.pos[s].qty = 0 => pos[s] = a.pos[s]
                         /\ a.pos[s].contract # NoContract => pos[s].contract # NoContract
  BY <1>2 DEF Position, Open
<1> HIDE DEF pos
<1> DEFINE b == Marked(a, bars)
<1>6. b \in Account /\ b.pos = pos /\ b.status = a.status /\ b.calls = a.calls
  BY <1>1, <1>3, WithPositions
<1> HIDE DEF b
<1>7. Repriced(a, b)
  BY <1>4, <1>6 DEF Repriced
<1> QED
  BY <1>7 DEF b

\* Tagging tells the contract of the open positions that traded.
LEMMA TaggedFacts ==
  ASSUME NEW a \in Account, NEW bars, IsQuote(bars),
         \A s \in Symbols : a.pos[s].qty # 0 =>
           a.pos[s].contract # NoContract \/ s \in DOMAIN bars
  PROVE  Repriced(a, Tagged(a, bars)) /\ Known(Tagged(a, bars))
<1> DEFINE pos == [s \in Symbols |->
             IF s \in Open(a) \cap DOMAIN bars /\ a.pos[s].contract = NoContract
             THEN [a.pos[s] EXCEPT !.contract = bars[s].contract] ELSE a.pos[s]]
<1>1. Tagged(a, bars) = [a EXCEPT !.pos = pos]
  BY DEF Tagged, Account
<1>2. \A s \in Symbols : a.pos[s] \in Position
  BY DEF Account
<1>3. pos \in [Symbols -> Position]
  BY <1>2 DEF IsQuote, Position
<1>4. \A s \in Symbols : /\ pos[s].qty = a.pos[s].qty
                         /\ a.pos[s].qty = 0 => pos[s] = a.pos[s]
                         /\ a.pos[s].contract # NoContract => pos[s].contract # NoContract
                         /\ a.pos[s].qty # 0 => pos[s].contract # NoContract
  BY <1>2 DEF Position, Open, IsQuote
<1> HIDE DEF pos
<1> DEFINE b == Tagged(a, bars)
<1>6. b \in Account /\ b.pos = pos /\ b.status = a.status /\ b.calls = a.calls
  BY <1>1, <1>3, WithPositions
<1> HIDE DEF b
<1>7. Repriced(a, b) /\ Known(b)
  BY <1>4, <1>6 DEF Repriced, Known
<1> QED
  BY <1>7 DEF b

\* Variation margin moves cash and the prices of the positions settled.
LEMMA SettledFacts ==
  ASSUME NEW a \in Account, NEW settles \in [Open(a) -> Int], NEW date \in Int
  PROVE  Repriced(a, Settled(a, settles, date))
<1> DEFINE due == {s \in Open(a) : a.pos[s].settled # date}
           paid == [s \in due |-> LET p == a.pos[s] IN
                      p.qty * (settles[s] - p.basis) * Mult]
           pos == [s \in Symbols |->
             IF s \in due THEN [a.pos[s] EXCEPT !.basis = settles[s],
                                  !.mark = settles[s], !.settled = date]
                          ELSE a.pos[s]]
<1>1. Settled(a, settles, date) = [a EXCEPT !.cash = @ + SumFunction(paid), !.pos = pos]
  BY DEF Settled, Account
<1>2. \A s \in Symbols : a.pos[s] \in Position
  BY DEF Account
<1>3. pos \in [Symbols -> Position]
  BY <1>2 DEF Position, Open
<1>4. \A s \in Symbols : /\ pos[s].qty = a.pos[s].qty
                         /\ a.pos[s].qty = 0 => pos[s] = a.pos[s]
                         /\ a.pos[s].contract # NoContract => pos[s].contract # NoContract
  BY <1>2 DEF Position, Open
<1> HIDE DEF pos
<1>5. IsFiniteSet(due) /\ DOMAIN paid = due
  BY FS_Subset, MarketAssumption DEF Open
<1>6. \A s \in due : paid[s] \in Int
  <2> SUFFICES ASSUME NEW s \in due PROVE paid[s] \in Int
    OBVIOUS
  <2>1. a.pos[s].qty \in Int /\ a.pos[s].basis \in Int /\ settles[s] \in Int
    BY <1>2 DEF Open, Position
  <2>2. \A x, y, z, m \in Int : x * (y - z) * m \in Int
    OBVIOUS
  <2> QED
    BY <2>1, <2>2, SpecAssumption
<1> HIDE DEF due, paid
<1>7. SumFunction(paid) \in Int
  BY <1>5, <1>6, SumRecursion DEF SumFunction
<1>8. a.cash + SumFunction(paid) \in Int
  BY <1>7 DEF Account
<1>9. PICK cash \in Int : cash = a.cash + SumFunction(paid)
  BY <1>8
<1>10. PICK q \in [Symbols -> Position] : q = pos
  BY <1>3
<1> DEFINE b == Settled(a, settles, date)
<1>11. b = [a EXCEPT !.cash = cash, !.pos = q]
  BY <1>1, <1>9, <1>10
<1>12. b \in Account /\ b.pos = pos /\ b.status = a.status /\ b.calls = a.calls
  <2> HIDE DEF b
  <2> QED
    BY <1>10, <1>11 DEF Account
<1> HIDE DEF b
<1>13. Repriced(a, b)
  BY <1>4, <1>12 DEF Repriced
<1> QED
  BY <1>13 DEF b

-----------------------------------------------------------------------------
(* Ledger: a fill.                                                         *)

\* The position that a fill of q contracts at px makes of position p.
After(p, q, px) ==
  CASE p.qty = 0     -> [NoPosition EXCEPT !.qty = q, !.avg = px,
                           !.mark = px, !.basis = px]
    [] p.qty * q > 0 -> Added(p, q, px)
    [] p.qty * q < 0 -> Reduced(p, q, px)

\* Contracts of the same side add up to more.
LEMMA AddedPosition ==
  ASSUME NEW p \in Position, NEW q \in Int, NEW px \in Int, p.qty * q > 0
  PROVE  /\ Added(p, q, px) \in Position
         /\ Added(p, q, px).qty = p.qty + q /\ p.qty + q # 0
         /\ Added(p, q, px).contract = p.contract
<1>1. p.qty \in Int /\ p.avg \in Int /\ p.basis \in Int
  BY DEF Position
<1>2. p.qty # 0 /\ q # 0 /\ (p.qty > 0 <=> q > 0)
  <2>1. \A x, y \in Int : x * y > 0 => x # 0 /\ y # 0 /\ (x > 0 <=> y > 0)
    OBVIOUS
  <2> QED
    BY <1>1, <2>1
<1>3. /\ Abs(p.qty) \in Int /\ Abs(q) \in Int /\ Abs(p.qty) > 0 /\ Abs(q) > 0
      /\ p.qty + q # 0 /\ p.qty + q \in Int
  BY <1>1, <1>2 DEF Abs
<1>4. PICK n \in Int : n = Abs(p.qty) + Abs(q) /\ n > 0
  BY <1>3
<1>5. \A x, y, z, w \in Int : (x * y + z * w) \in Int
  OBVIOUS
<1>6. \A x \in Int : x \div n \in Int
  BY <1>4
<1>7. PICK v \in Int : v = (p.avg * Abs(p.qty) + px * Abs(q)) \div n
  BY <1>1, <1>3, <1>5, <1>6
<1>8. PICK w \in Int : w = (p.basis * Abs(p.qty) + px * Abs(q)) \div n
  BY <1>1, <1>3, <1>5, <1>6
<1>9. PICK m \in Int : m = p.qty + q
  BY <1>3
<1>10. Added(p, q, px) = [p EXCEPT !.qty = m, !.avg = v, !.basis = w]
  BY <1>4, <1>7, <1>8, <1>9 DEF Added
<1> QED
  BY <1>3, <1>9, <1>10 DEF Position

\* Contracts of the other side reduce, close or flip a position.
LEMMA ReducedPosition ==
  ASSUME NEW p \in Position, NEW q \in Int, NEW px \in Int
  PROVE  /\ Reduced(p, q, px) \in Position
         /\ Reduced(p, q, px).qty = p.qty + q
         /\ p.qty + q = 0 => Reduced(p, q, px) = NoPosition
         /\ p.qty + q # 0 => Reduced(p, q, px).contract = p.contract
<1>1. PICK m \in Int : m = p.qty + q
  BY DEF Position
<1>2. NoPosition \in Position /\ NoPosition.qty = 0
  BY DEF NoPosition, Position, Contracts
<1>3. CASE m = 0
  BY <1>1, <1>2, <1>3 DEF Reduced
<1>4. CASE m # 0 /\ Abs(q) > Abs(p.qty)
  <2>1. Reduced(p, q, px) = [p EXCEPT !.qty = m, !.avg = px, !.basis = px, !.settled = -1]
    BY <1>1, <1>4 DEF Reduced
  <2>2. PICK t \in Int : t = -1
    OBVIOUS
  <2>3. PICK h : h = [p EXCEPT !.qty = m, !.avg = px]
    OBVIOUS
  <2>4. h \in Position /\ h.qty = m /\ h.contract = p.contract
    BY <2>3 DEF Position
  <2>5. Reduced(p, q, px) = [h EXCEPT !.basis = px, !.settled = t]
    BY <2>1, <2>2, <2>3
  <2>6. /\ Reduced(p, q, px) \in Position /\ Reduced(p, q, px).qty = h.qty
        /\ Reduced(p, q, px).contract = h.contract
    BY <2>4, <2>5 DEF Position
  <2> QED
    BY <1>1, <1>4, <2>4, <2>6
<1>5. CASE m # 0 /\ ~ (Abs(q) > Abs(p.qty))
  <2>1. Reduced(p, q, px) = [p EXCEPT !.qty = m]
    BY <1>1, <1>5 DEF Reduced
  <2> QED
    BY <1>1, <1>5, <2>1 DEF Position
<1> QED
  BY <1>3, <1>4, <1>5

\* A fill adds its contracts, leaves nothing of what it closes, and keeps the
\* contract of what it does not open.
LEMMA AfterPosition ==
  ASSUME NEW p \in Position, NEW q \in Int, NEW px \in Int, q # 0 \/ p.qty = 0
  PROVE  /\ After(p, q, px) \in Position
         /\ After(p, q, px).qty = p.qty + q
         /\ q # 0 /\ p.qty + q = 0 => After(p, q, px) = NoPosition
         /\ p.qty # 0 /\ p.qty + q # 0 => After(p, q, px).contract = p.contract
<1>1. p.qty \in Int
  BY DEF Position
<1>2. CASE p.qty = 0
  <2>1. After(p, q, px) = [NoPosition EXCEPT !.qty = q, !.avg = px, !.mark = px, !.basis = px]
    BY <1>2 DEF After
  <2>2. After(p, q, px) = [qty |-> q, avg |-> px, mark |-> px, basis |-> px,
                           contract |-> NoContract, settled |-> -1]
    BY <2>1 DEF NoPosition
  <2>3. NoContract \in Contracts
    BY DEF Contracts
  <2>4. After(p, q, px) \in Position /\ After(p, q, px).qty = q
    BY <2>2, <2>3 DEF Position
  <2> QED
    BY <1>1, <1>2, <2>4
<1>3. CASE p.qty # 0
  <2>1. p.qty * q > 0 \/ p.qty * q < 0
    <3>1. \A x, y \in Int : x # 0 /\ y # 0 => x * y > 0 \/ x * y < 0
      OBVIOUS
    <3> QED
      BY <1>1, <1>3, <3>1
  <2>2. CASE p.qty * q > 0
    <3>1. ~ (p.qty * q < 0)
      <4>1. \A x, y \in Int : x * y > 0 => ~ (x * y < 0)
        OBVIOUS
      <4> QED
        BY <1>1, <2>2, <4>1
    <3>2. After(p, q, px) = Added(p, q, px)
      BY <1>3, <2>2, <3>1 DEF After
    <3> QED
      BY <2>2, <3>2, AddedPosition
  <2>3. CASE p.qty * q < 0
    <3>1. ~ (p.qty * q > 0)
      <4>1. \A x, y \in Int : x * y < 0 => ~ (x * y > 0)
        OBVIOUS
      <4> QED
        BY <1>1, <2>3, <4>1
    <3>2. After(p, q, px) = Reduced(p, q, px)
      BY <1>3, <2>3, <3>1 DEF After
    <3> QED
      BY <3>2, ReducedPosition
  <2> QED
    BY <2>1, <2>2, <2>3
<1> QED
  BY <1>2, <1>3

\* A fill touches cash, fees, profit and the position in its symbol.
LEMMA FilledFacts ==
  ASSUME NEW a \in Account, NEW s \in Symbols, NEW q \in Int, NEW px \in Int,
         q # 0 \/ a.pos[s].qty = 0
  PROVE  /\ Filled(a, s, q, px) \in Account
         /\ Filled(a, s, q, px).status = a.status
         /\ Filled(a, s, q, px).calls = a.calls
         /\ Filled(a, s, q, px).pos = [a.pos EXCEPT ![s] = After(a.pos[s], q, px)]
<1> DEFINE p == a.pos[s]
           closed == IF p.qty * q < 0 THEN Min({Abs(q), Abs(p.qty)}) ELSE 0
           dir == IF p.qty > 0 THEN 1 ELSE -1
<1>1. /\ p \in Position /\ p.qty \in Int /\ p.basis \in Int /\ p.avg \in Int
      /\ a.cash \in Int /\ a.fees \in Nat /\ a.realized \in Int
  BY DEF Account, Position
<1>2. Abs(q) \in Nat /\ Abs(p.qty) \in Nat
  BY <1>1 DEF Abs
<1>3. closed \in Int /\ dir \in Int
  <2>1. \A x, y \in Int : Min({x, y}) \in Int
    <3> SUFFICES ASSUME NEW x \in Int, NEW y \in Int PROVE Min({x, y}) \in Int
      OBVIOUS
    <3>1. \E m \in {x, y} : \A z \in {x, y} : m <= z
      OBVIOUS
    <3> QED
      BY <3>1 DEF Min
  <2> QED
    BY <1>2, <2>1
<1> HIDE DEF closed, dir
<1>4. PICK f \in Nat : f = a.fees + Abs(q) * Fee
  BY <1>1, <1>2, SpecAssumption
<1>5. PICK c \in Int : c = a.cash - Abs(q) * Fee + closed * (px - p.basis) * Mult * dir
  <2>1. \A g, h, i, j, k, l, m \in Int : g - h * i + j * (k - l) * Mult * m \in Int
    BY SpecAssumption
  <2> QED
    BY <1>1, <1>2, <1>3, <2>1, SpecAssumption
<1>6. PICK r \in Int : r = a.realized + closed * (px - p.avg) * Mult * dir
  <2>1. \A g, j, k, l, m \in Int : g + j * (k - l) * Mult * m \in Int
    BY SpecAssumption
  <2> QED
    BY <1>1, <1>3, <2>1
<1>7. PICK n \in Position : n = After(p, q, px)
  BY <1>1, AfterPosition
<1>16. PICK w \in BOOLEAN : w = (a.whole /\ AverageIsWhole(p, q, px))
  OBVIOUS
<1>8. Filled(a, s, q, px) =
        [a EXCEPT !.whole = w, !.fees = f, !.cash = c, !.realized = r, !.pos[s] = n]
  BY <1>4, <1>5, <1>6, <1>7, <1>16 DEF Filled, After, closed, dir
<1>9. PICK b : b = [a EXCEPT !.whole = w, !.fees = f, !.cash = c]
  OBVIOUS
<1>10. b \in Account /\ b.status = a.status /\ b.calls = a.calls /\ b.pos = a.pos
  BY <1>9 DEF Account
<1>11. PICK pos \in [Symbols -> Position] : pos = [a.pos EXCEPT ![s] = n]
  BY <1>7 DEF Account
<1>12. Filled(a, s, q, px) = [b EXCEPT !.realized = r, !.pos = pos]
  BY <1>8, <1>9, <1>10, <1>11
<1>13. /\ Filled(a, s, q, px) \in Account /\ Filled(a, s, q, px).pos = pos
       /\ Filled(a, s, q, px).status = b.status /\ Filled(a, s, q, px).calls = b.calls
  BY <1>10, <1>12 DEF Account
<1> QED
  BY <1>7, <1>10, <1>11, <1>13

-----------------------------------------------------------------------------
(* The orders of a bar.                                                    *)

\* Account c is account b after trades at the bar bars: in a call without
\* futures nothing is opened, and what is opened has a bar.
Follows(b, c, bars) ==
  /\ c \in Account /\ c.status = b.status /\ c.calls = b.calls
  /\ Tidy(b) => Tidy(c)
  /\ b.status # "NORMAL" /\ Open(b) = {} => Open(c) = {}
  /\ \A s \in Symbols : c.pos[s].qty # 0 =>
       \/ b.pos[s].qty # 0 /\ c.pos[s].contract = b.pos[s].contract
       \/ s \in DOMAIN bars

\* Trading twice is trading.
LEMMA FollowsTwice ==
  ASSUME NEW a, NEW b, NEW c, NEW bars, Follows(a, b, bars), Follows(b, c, bars)
  PROVE  Follows(a, c, bars)
  BY DEF Follows

\* What becomes of account b with order o at a bar.
One(b, o, bars) ==
  IF o.symbol \in DOMAIN bars THEN Executed(b, o, bars[o.symbol].open) ELSE b

\* One order is executed or not.
LEMMA OneFacts ==
  ASSUME NEW b \in Account, NEW bars, IsQuote(bars), NEW o \in Orders
  PROVE  Follows(b, One(b, o, bars), bars)
<1>1. CASE One(b, o, bars) = b
  BY <1>1 DEF Follows
<1>2. CASE One(b, o, bars) # b
  <2> DEFINE s == o.symbol
             q == o.qty
             px == bars[s].open
             c == One(b, o, bars)
  <2>1. s \in Symbols /\ s \in DOMAIN bars /\ q \in Int /\ q # 0 /\ px \in Int
    BY <1>2, SpecAssumption DEF Orders, IsQuote, One
  <2>2. c = Filled(b, s, q, px) /\ ~ (IsOpening(b, s, q) /\ b.status # "NORMAL")
    BY <1>2, <2>1 DEF One, Executed
  <2>3. PICK p \in Position : p = b.pos[s]
    BY <2>1 DEF Account
  <2> HIDE DEF s, q, px, c
  <2>4. /\ c \in Account /\ c.status = b.status /\ c.calls = b.calls
        /\ c.pos = [b.pos EXCEPT ![s] = After(p, q, px)]
    BY <2>1, <2>2, <2>3, FilledFacts
  <2>5. /\ After(p, q, px).qty = p.qty + q
        /\ p.qty + q = 0 => After(p, q, px) = NoPosition
        /\ p.qty # 0 /\ p.qty + q # 0 => After(p, q, px).contract = p.contract
    BY <2>1, AfterPosition
  <2>6. /\ c.pos[s] = After(p, q, px)
        /\ \A r \in Symbols \ {s} : c.pos[r] = b.pos[r]
    BY <2>1, <2>4 DEF Account
  <2>7. Tidy(b) => Tidy(c)
    BY <2>5, <2>6 DEF Tidy
  <2>8. ~ (b.status # "NORMAL" /\ Open(b) = {})
    <3>1. \A x \in Int : 0 * x >= 0
      OBVIOUS
    <3> QED
      BY <2>1, <2>2, <3>1 DEF Open, IsOpening
  <2>9. \A r \in Symbols : c.pos[r].qty # 0 =>
          \/ b.pos[r].qty # 0 /\ c.pos[r].contract = b.pos[r].contract
          \/ r \in DOMAIN bars
    BY <2>1, <2>6
  <2>10. Follows(b, c, bars)
    BY <2>4, <2>7, <2>8, <2>9 DEF Follows
  <2> QED
    BY <2>10 DEF c
<1> QED
  BY <1>1, <1>2

\* The orders of a bar are executed one after the other.
LEMMA MatchedSteps ==
  ASSUME NEW a \in Account, NEW bars, IsQuote(bars), NEW n \in Nat,
         NEW orders \in [1..n -> Orders]
  PROVE  \E v : /\ v[0] = a /\ v[n] = Matched(a, orders, bars)
                /\ \A k \in 1..n : v[k] = One(v[k - 1], orders[k], bars)
<1> DEFINE R(it) == it = [s \in SUBSET (1..n) |->
                       IF s = {} THEN a ELSE One(it[s \ {Max(s)}], orders[Max(s)], bars)]
           step == [p \in Account \X (1..n) |-> One(p[1], orders[p[2]], bars)]
           ch == LastOf(n)
<1>1. DOMAIN orders = 1..n
  OBVIOUS
<1>2. Matched(a, orders, bars) = (CHOOSE it : R(it))[1..n]
  BY <1>1 DEF Matched, FoldLeft, MapThenFoldSet, One
<1>3. step \in [Account \X (1..n) -> Account]
  BY OneFacts DEF Follows
<1>4. IsFiniteSet(1..n) /\ IsChoice(ch, 1..n)
  BY FS_Interval, LastOfChoice
<1>5. \A s \in (SUBSET (1..n)) \ {{}} : ch[s] = Max(s) /\ Max(s) \in 1..n
  BY MaxOfIndices DEF LastOf
<1> HIDE DEF ch
<1>6. PICK it \in [SUBSET (1..n) -> Account] : IsRecursion(it, 1..n, a, step, ch)
  <2> HIDE DEF step
  <2> QED
    BY <1>3, <1>4, SubsetRecursion
<1>7. R(it)
  <2>1. ASSUME NEW s \in SUBSET (1..n)
        PROVE  it[s] = IF s = {} THEN a ELSE One(it[s \ {Max(s)}], orders[Max(s)], bars)
    <3>1. CASE s = {}
      BY <1>6, <3>1 DEF IsRecursion
    <3>2. CASE s # {}
      <4>1. it[s] = step[<<it[s \ {Max(s)}], Max(s)>>]
        BY <1>5, <1>6, <3>2 DEF IsRecursion
      <4>2. it[s \ {Max(s)}] \in Account /\ Max(s) \in 1..n
        BY <1>5, <1>6, <3>2
      <4> QED
        BY <3>2, <4>1, <4>2
    <3> QED
      BY <3>1, <3>2
  <2> QED
    BY <1>6, <2>1
<1>8. PICK jt : R(jt) /\ jt = CHOOSE i : R(i)
  BY <1>7
<1> DEFINE v == [k \in 0..n |-> jt[1..k]]
<1>9. v[0] = a /\ v[n] = jt[1..n]
  <2>1. 1..0 = {} /\ {} \in SUBSET (1..n) /\ 0 \in 0..n /\ n \in 0..n
    OBVIOUS
  <2>2. jt[{}] = a
    BY <1>8, <2>1
  <2>3. v[0] = jt[1..0] /\ v[n] = jt[1..n]
    BY <2>1
  <2> QED
    BY <2>1, <2>2, <2>3
<1>10. ASSUME NEW k \in 1..n PROVE v[k] = One(v[k - 1], orders[k], bars)
  <2>1. 1..k \in SUBSET (1..n) /\ 1..k # {} /\ Max(1..k) = k /\ (1..k) \ {k} = 1..(k - 1)
    BY LastOfFirst
  <2>2. jt[1..k] = One(jt[1..(k - 1)], orders[k], bars)
    BY <1>8, <2>1
  <2>3. k \in 0..n /\ k - 1 \in 0..n
    OBVIOUS
  <2> QED
    BY <2>2, <2>3
<1>11. v[n] = Matched(a, orders, bars)
  BY <1>2, <1>8, <1>9
<1> HIDE DEF v, R
<1> QED
  BY <1>9, <1>10, <1>11

\* All orders of a bar are trades.
LEMMA MatchedFacts ==
  ASSUME NEW a \in Account, NEW bars, IsQuote(bars), NEW orders \in SeqOf(Orders, MaxOrders)
  PROVE  Follows(a, Matched(a, orders, bars), bars)
<1>1. PICK n \in Nat : orders \in [1..n -> Orders]
  BY SpecAssumption DEF SeqOf
<1>2. PICK v : /\ v[0] = a /\ v[n] = Matched(a, orders, bars)
               /\ \A k \in 1..n : v[k] = One(v[k - 1], orders[k], bars)
  BY <1>1, MatchedSteps
<1> DEFINE Good == {k \in 0..n : Follows(a, v[k], bars)}
<1>3. 0 \in Good
  BY <1>2 DEF Follows
<1>4. ASSUME NEW k \in 1..n, k - 1 \in Good PROVE k \in Good
  <2>1. v[k - 1] \in Account /\ orders[k] \in Orders
    BY <1>1, <1>4 DEF Follows
  <2>2. Follows(v[k - 1], v[k], bars)
    BY <1>2, <2>1, OneFacts
  <2>3. Follows(a, v[k], bars)
    BY <1>4, <2>2, FollowsTwice
  <2> QED
    BY <2>3
<1>5. Good = 0..n
  <2> HIDE DEF Good
  <2>1. Good \in SUBSET (0..n)
    BY DEF Good
  <2> QED
    BY <1>3, <1>4, <2>1, IndexInduction
<1> QED
  BY <1>2, <1>5

-----------------------------------------------------------------------------
(* Liquidation.                                                            *)

\* What is left of account b when it closes its position in s.
Close(b, s, settles) == Filled(b, s, -b.pos[s].qty, settles[s])

\* Closing a position of an account leaves nothing of it.
LEMMA CloseFacts ==
  ASSUME NEW b \in Account, NEW s \in Symbols, NEW settles, settles[s] \in Int
  PROVE  /\ Close(b, s, settles) \in Account
         /\ Close(b, s, settles).status = b.status /\ Close(b, s, settles).calls = b.calls
         /\ b.pos[s].qty # 0 => Close(b, s, settles).pos[s] = NoPosition
         /\ \A r \in Symbols \ {s} : Close(b, s, settles).pos[r] = b.pos[r]
<1>1. PICK p \in Position : p = b.pos[s]
  BY DEF Account
<1>2. PICK q \in Int : q = -b.pos[s].qty
  BY <1>1 DEF Position
<1>3. q + p.qty = 0 /\ p.qty + q = 0 /\ p.qty \in Int /\ (q # 0 <=> p.qty # 0)
  BY <1>1, <1>2 DEF Position
<1>4. PICK x \in Int : x = settles[s]
  OBVIOUS
<1> DEFINE c == Close(b, s, settles)
<1>5. c = Filled(b, s, q, x)
  BY <1>2, <1>4 DEF Close
<1>6. q # 0 \/ b.pos[s].qty = 0
  BY <1>1, <1>3
<1> HIDE DEF c
<1>7. /\ c \in Account /\ c.status = b.status /\ c.calls = b.calls
      /\ c.pos = [b.pos EXCEPT ![s] = After(p, q, x)]
  <2>1. /\ Filled(b, s, q, x) \in Account
        /\ Filled(b, s, q, x).status = b.status /\ Filled(b, s, q, x).calls = b.calls
        /\ Filled(b, s, q, x).pos = [b.pos EXCEPT ![s] = After(b.pos[s], q, x)]
    BY <1>6, FilledFacts
  <2> QED
    BY <1>1, <1>5, <2>1
<1>8. p.qty # 0 => After(p, q, x) = NoPosition
  BY <1>3, AfterPosition
<1>9. c.pos[s] = After(p, q, x) /\ \A r \in Symbols \ {s} : c.pos[r] = b.pos[r]
  BY <1>7 DEF Account
<1>10. /\ c \in Account /\ c.status = b.status /\ c.calls = b.calls
       /\ b.pos[s].qty # 0 => c.pos[s] = NoPosition
       /\ \A r \in Symbols \ {s} : c.pos[r] = b.pos[r]
  BY <1>1, <1>7, <1>8, <1>9
<1> QED
  BY <1>10 DEF c

\* The open positions are closed one after the other, each of them once.
LEMMA ClosedSteps ==
  ASSUME NEW a \in Account, NEW settles, \A s \in Open(a) : settles[s] \in Int
  PROVE  \E n \in Nat : \E syms \in [1..n -> Open(a)] : \E v :
           /\ \A i, j \in 1..n : syms[i] = syms[j] => i = j
           /\ \A s \in Open(a) : \E i \in 1..n : syms[i] = s
           /\ v[0] = [a EXCEPT !.status = "LIQUIDATION"]
           /\ Liquidated(a, settles) = Checked(v[n])
           /\ \A k \in 1..n : v[k] = Close(v[k - 1], syms[k], settles)
<1> DEFINE n == Cardinality(Open(a))
           syms == SetToSeq(Open(a))
           base == [a EXCEPT !.status = "LIQUIDATION"]
<1>1. IsFiniteSet(Open(a)) /\ n \in Nat
  BY MarketAssumption, FS_Subset, FS_CardinalityType DEF Open
<1>2. /\ syms \in [1..n -> Open(a)]
      /\ \A i, j \in 1..n : syms[i] = syms[j] => i = j
  <2>1. \E f \in [1..n -> Open(a)] : IsInjective(f)
    <3>1. ExistsBijection(1..n, Open(a))
      BY <1>1, FS_CardinalityType
    <3> QED
      BY <3>1 DEF ExistsBijection, Bijection, Injection, IsInjective
  <2>2. syms \in [1..n -> Open(a)] /\ IsInjective(syms)
    BY <2>1 DEF SetToSeq
  <2> QED
    BY <2>2 DEF IsInjective
<1>3. \A s \in Open(a) : \E i \in 1..n : syms[i] = s
  <2> HIDE DEF n, syms
  <2>1. syms \in Injection(1..n, Open(a))
    BY <1>2 DEF Injection, IsInjective
  <2>2. IsFiniteSet(1..n) /\ Cardinality(1..n) = Cardinality(Open(a))
    BY <1>1, FS_Interval DEF n
  <2>3. syms \in Surjection(1..n, Open(a))
    BY <1>1, <2>1, <2>2, FS_Injection
  <2> QED
    BY <2>3 DEF Surjection
<1>4. base \in Account
  BY DEF Account
<1> DEFINE R(it) == it = [s \in SUBSET (1..n) |->
                       IF s = {} THEN base ELSE Close(it[s \ {Max(s)}], syms[Max(s)], settles)]
           step == [p \in Account \X (1..n) |-> Close(p[1], syms[p[2]], settles)]
           ch == LastOf(n)
<1>5. DOMAIN syms = 1..n
  BY <1>2
<1>6. Liquidated(a, settles) = Checked((CHOOSE it : R(it))[1..n])
  BY <1>5 DEF Liquidated, FoldLeft, MapThenFoldSet, Close
<1> HIDE DEF n, syms, base
<1>7. step \in [Account \X (1..n) -> Account]
  <2> SUFFICES ASSUME NEW b \in Account, NEW k \in 1..n
               PROVE  Close(b, syms[k], settles) \in Account
    OBVIOUS
  <2>1. syms[k] \in Open(a) /\ syms[k] \in Symbols
    BY <1>2 DEF Open
  <2> QED
    BY <2>1, CloseFacts
<1>8. IsFiniteSet(1..n) /\ IsChoice(ch, 1..n)
  BY <1>1, FS_Interval, LastOfChoice
<1>9. \A s \in (SUBSET (1..n)) \ {{}} : ch[s] = Max(s) /\ Max(s) \in 1..n
  BY <1>1, MaxOfIndices DEF LastOf
<1> HIDE DEF ch
<1>10. PICK it \in [SUBSET (1..n) -> Account] : IsRecursion(it, 1..n, base, step, ch)
  <2> HIDE DEF step
  <2> QED
    BY <1>4, <1>7, <1>8, SubsetRecursion
<1>11. R(it)
  <2>1. ASSUME NEW s \in SUBSET (1..n)
        PROVE  it[s] = IF s = {} THEN base ELSE Close(it[s \ {Max(s)}], syms[Max(s)], settles)
    <3>1. CASE s = {}
      BY <1>10, <3>1 DEF IsRecursion
    <3>2. CASE s # {}
      <4>1. it[s] = step[<<it[s \ {Max(s)}], Max(s)>>]
        BY <1>9, <1>10, <3>2 DEF IsRecursion
      <4>2. it[s \ {Max(s)}] \in Account /\ Max(s) \in 1..n
        BY <1>9, <1>10, <3>2
      <4> QED
        BY <3>2, <4>1, <4>2
    <3> QED
      BY <3>1, <3>2
  <2> QED
    BY <1>10, <2>1
<1>12. PICK jt : R(jt) /\ jt = CHOOSE i : R(i)
  BY <1>11
<1> DEFINE v == [k \in 0..n |-> jt[1..k]]
<1>13. v[0] = base /\ v[n] = jt[1..n]
  <2>1. 1..0 = {} /\ {} \in SUBSET (1..n) /\ 0 \in 0..n /\ n \in 0..n
    BY <1>1
  <2>2. jt[{}] = base
    BY <1>12, <2>1
  <2>3. v[0] = jt[1..0] /\ v[n] = jt[1..n]
    BY <2>1
  <2> QED
    BY <2>1, <2>2, <2>3
<1>14. ASSUME NEW k \in 1..n PROVE v[k] = Close(v[k - 1], syms[k], settles)
  <2>1. 1..k \in SUBSET (1..n) /\ 1..k # {} /\ Max(1..k) = k /\ (1..k) \ {k} = 1..(k - 1)
    BY <1>1, LastOfFirst
  <2>2. jt[1..k] = Close(jt[1..(k - 1)], syms[k], settles)
    BY <1>12, <2>1
  <2>3. k \in 0..n /\ k - 1 \in 0..n
    BY <1>1
  <2> QED
    BY <2>2, <2>3
<1>15. Checked(v[n]) = Liquidated(a, settles)
  BY <1>6, <1>12, <1>13
<1> HIDE DEF v, R
<1> QED
  BY <1>1, <1>2, <1>3, <1>13, <1>14, <1>15 DEF base

\* A liquidation leaves no futures, and no trace of them.
LEMMA LiquidatedFacts ==
  ASSUME NEW a \in Account, Tidy(a), NEW settles, \A s \in Open(a) : settles[s] \in Int
  PROVE  \E f \in Account : /\ Liquidated(a, settles) = Checked(f)
                            /\ f.status = "LIQUIDATION" /\ f.calls = a.calls
                            /\ \A s \in Symbols : f.pos[s] = NoPosition
<1>1. PICK n \in Nat : \E syms \in [1..n -> Open(a)] : \E v :
        /\ \A i, j \in 1..n : syms[i] = syms[j] => i = j
        /\ \A s \in Open(a) : \E i \in 1..n : syms[i] = s
        /\ v[0] = [a EXCEPT !.status = "LIQUIDATION"]
        /\ Liquidated(a, settles) = Checked(v[n])
        /\ \A k \in 1..n : v[k] = Close(v[k - 1], syms[k], settles)
  BY ClosedSteps
<1>2. PICK syms \in [1..n -> Open(a)] : \E v :
        /\ \A i, j \in 1..n : syms[i] = syms[j] => i = j
        /\ \A s \in Open(a) : \E i \in 1..n : syms[i] = s
        /\ v[0] = [a EXCEPT !.status = "LIQUIDATION"]
        /\ Liquidated(a, settles) = Checked(v[n])
        /\ \A k \in 1..n : v[k] = Close(v[k - 1], syms[k], settles)
  BY <1>1
<1>3. PICK v :
        /\ \A i, j \in 1..n : syms[i] = syms[j] => i = j
        /\ \A s \in Open(a) : \E i \in 1..n : syms[i] = s
        /\ v[0] = [a EXCEPT !.status = "LIQUIDATION"]
        /\ Liquidated(a, settles) = Checked(v[n])
        /\ \A k \in 1..n : v[k] = Close(v[k - 1], syms[k], settles)
  BY <1>2
<1> DEFINE Closed(k) == {syms[i] : i \in 1..k}
           Good == {k \in 0..n :
             /\ v[k] \in Account /\ v[k].status = "LIQUIDATION" /\ v[k].calls = a.calls
             /\ \A s \in Symbols :
                  v[k].pos[s] = IF s \in Closed(k) THEN NoPosition ELSE a.pos[s]}
<1>4. 0 \in Good
  <2>1. v[0] \in Account /\ v[0].status = "LIQUIDATION" /\ v[0].calls = a.calls /\ v[0].pos = a.pos
    <3>1. v[0] = [a EXCEPT !.status = "LIQUIDATION"]
      BY <1>3
    <3> QED
      BY <3>1 DEF Account
  <2>2. Closed(0) = {}
    OBVIOUS
  <2> QED
    BY <2>1, <2>2
<1>5. ASSUME NEW k \in 1..n, k - 1 \in Good PROVE k \in Good
  <2>1. PICK s \in Open(a) : s = syms[k] /\ s \in Symbols /\ a.pos[s].qty # 0
    BY <1>3 DEF Open
  <2>2. s \notin Closed(k - 1) /\ Closed(k) = Closed(k - 1) \cup {s}
    <3>1. \A i \in 1..(k - 1) : i \in 1..n /\ i # k
      OBVIOUS
    <3>2. 1..k = 1..(k - 1) \cup {k}
      OBVIOUS
    <3> QED
      BY <1>3, <2>1, <3>1, <3>2
  <2> HIDE DEF Closed
  <2>3. PICK b \in Account : b = v[k - 1]
    BY <1>5
  <2>4. PICK c : c = v[k]
    OBVIOUS
  <2>5. /\ c \in Account /\ c.status = b.status /\ c.calls = b.calls
        /\ b.pos[s].qty # 0 => c.pos[s] = NoPosition
        /\ \A r \in Symbols \ {s} : c.pos[r] = b.pos[r]
    BY <1>3, <2>1, <2>3, <2>4, CloseFacts
  <2>6. b.pos[s] = a.pos[s]
    BY <1>5, <2>1, <2>2, <2>3
  <2>7. \A r \in Symbols : c.pos[r] = IF r \in Closed(k) THEN NoPosition ELSE a.pos[r]
    BY <1>5, <2>1, <2>2, <2>3, <2>5, <2>6
  <2> QED
    BY <1>5, <2>3, <2>4, <2>5, <2>7
<1>6. Good = 0..n
  <2> HIDE DEF Good
  <2>1. Good \in SUBSET (0..n)
    BY DEF Good
  <2> QED
    BY <1>4, <1>5, <2>1, IndexInduction
<1>7. n \in Good
  BY <1>6
<1>8. \A s \in Symbols : v[n].pos[s] = NoPosition
  <2>1. \A s \in Open(a) : s \in Closed(n)
    BY <1>3
  <2> QED
    BY <1>7, <2>1 DEF Tidy, Open
<1> QED
  BY <1>3, <1>7, <1>8

-----------------------------------------------------------------------------
(* One bar.                                                                *)

\* What the trades of a bar leave alone: the count of the call, and an account
\* in a call that holds no futures.
LEMMA TradedFacts ==
  ASSUME NEW a \in Account, Tidy(a), Known(a), NEW bars, IsQuote(bars),
         NEW orders \in SeqOf(Orders, MaxOrders)
  PROVE  /\ Traded(a, bars, orders) \in Account
         /\ Traded(a, bars, orders).status = a.status
         /\ Traded(a, bars, orders).calls = a.calls
         /\ Tidy(Traded(a, bars, orders)) /\ Known(Traded(a, bars, orders))
         /\ a.status # "NORMAL" /\ Open(a) = {} => Open(Traded(a, bars, orders)) = {}
<1>1. PICK b : b = Rolled(a, bars)
  OBVIOUS
<1>2. PICK c : c = Marked(b, bars)
  OBVIOUS
<1>3. PICK d : d = Matched(c, orders, bars)
  OBVIOUS
<1>4. PICK e : e = Marked(d, bars)
  OBVIOUS
<1>5. PICK f : f = Tagged(e, bars)
  OBVIOUS
<1>6. Traded(a, bars, orders) = f
  BY <1>1, <1>2, <1>3, <1>4, <1>5 DEF Traded
<1>7. Repriced(a, b) /\ b \in Account
  BY <1>1, RolledFacts DEF Repriced
<1>8. Repriced(b, c) /\ c \in Account
  BY <1>2, <1>7, MarkedFacts DEF Repriced
<1>9. Follows(c, d, bars) /\ d \in Account
  BY <1>3, <1>8, MatchedFacts DEF Follows
<1>10. Repriced(d, e) /\ e \in Account
  BY <1>4, <1>9, MarkedFacts DEF Repriced
<1>11. Repriced(a, c) /\ Open(c) = Open(a) /\ Tidy(c) /\ Known(c)
  BY <1>7, <1>8, RepricedTwice, RepricedFacts
<1>12. \A s \in Symbols : e.pos[s].qty # 0 => e.pos[s].contract # NoContract \/ s \in DOMAIN bars
  BY <1>9, <1>10, <1>11 DEF Follows, Repriced, Known
<1>13. Repriced(e, f) /\ Known(f) /\ f \in Account
  BY <1>5, <1>10, <1>12, TaggedFacts DEF Repriced
<1>14. Repriced(d, f) /\ Open(f) = Open(d) /\ (Tidy(d) => Tidy(f))
  BY <1>10, <1>13, RepricedTwice, RepricedFacts
<1>15. f.status = a.status /\ f.calls = a.calls /\ c.status = a.status
  BY <1>9, <1>11, <1>14 DEF Follows, Repriced
<1>16. Tidy(d) /\ (c.status # "NORMAL" /\ Open(c) = {} => Open(d) = {})
  BY <1>9, <1>11 DEF Follows
<1> QED
  BY <1>6, <1>11, <1>13, <1>14, <1>15, <1>16

\* The end of a CME session: account t is what the settlement makes of m.
SettledOnce(m, t) ==
  /\ t \in Account /\ Tidy(t) /\ Known(t)
  /\ Checked(t).status = t.status
  /\ t.status = "NORMAL" => t.calls = 0
  /\ t.status # "NORMAL" => t.calls = m.calls + 1
  /\ CallLimit > 0 /\ Open(t) # {} => t.calls <= CallLimit
  /\ Open(t) = {} => m.calls >= CallLimit
  /\ m.status # "NORMAL" /\ t.status = "NORMAL" =>
       Open(t) = {} \/ Equity(t) >= InitialOf(t)

\* A settlement counts an open call once more, ends a call that is met, and
\* liquidates when the call has been open for long enough, and only then.
LEMMA SettlementFacts ==
  ASSUME NEW m \in Account, Tidy(m), Known(m), Open(m) # {},
         NEW settles \in [Open(m) -> Int], NEW date \in Int
  PROVE  SettledOnce(m, AfterSettlement(m, settles, date))
<1>1. PICK n : n = Settled(m, settles, date)
  OBVIOUS
<1>2. PICK k : k = Checked(n)
  OBVIOUS
<1>3. PICK c : c = Counted(k)
  OBVIOUS
<1>4. PICK t : t = AfterSettlement(m, settles, date)
  OBVIOUS
<1>5. t = IF Overdue(c) /\ c.status # "NORMAL" /\ Open(c) # {}
          THEN Liquidated(c, settles) ELSE c
  BY <1>1, <1>2, <1>3, <1>4 DEF AfterSettlement
<1>6. Repriced(m, n) /\ n \in Account
  BY <1>1, SettledFacts DEF Repriced
<1>7. Open(n) = Open(m) /\ Tidy(n) /\ Known(n) /\ n.status = m.status /\ n.calls = m.calls
  BY <1>6, RepricedFacts DEF Repriced
<1>8. /\ k \in Account /\ k.pos = n.pos /\ k.cash = n.cash
      /\ k.status # "NORMAL" => k.calls = n.calls
      /\ n.status # "NORMAL" /\ k.status = "NORMAL" =>
           Open(n) = {} \/ Equity(n) >= InitialOf(n)
  BY <1>2, <1>6, CheckedFacts
<1>9. Open(k) = Open(n)
  BY <1>8, SameMoney
<1>10. /\ c \in Account /\ c.pos = k.pos /\ c.cash = k.cash /\ c.status = k.status
       /\ c.status # "NORMAL" => c.calls = k.calls + 1
       /\ c.status = "NORMAL" => c.calls = 0
  BY <1>3, <1>7, <1>8, <1>9, CountedFacts
<1>11. /\ Open(c) = Open(m) /\ Equity(c) = Equity(n) /\ InitialOf(c) = InitialOf(n)
       /\ Tidy(c) /\ Known(c)
  BY <1>7, <1>8, <1>10, SameMoney DEF Tidy, Known
<1>12. c.status # "NORMAL" => c.calls = m.calls + 1
  BY <1>7, <1>8, <1>10
<1>13. m.calls \in Nat /\ c.calls \in Nat /\ CallLimit \in Nat
  BY <1>10, SpecAssumption DEF Account
<1>14. CASE ~ (Overdue(c) /\ c.status # "NORMAL" /\ Open(c) # {})
  <2>1. t = c
    BY <1>5, <1>14
  <2>2. Checked(c).status = c.status
    BY <1>2, <1>6, <1>8, <1>10, CheckedAgain
  <2>3. CallLimit > 0 => c.calls <= CallLimit
    BY <1>10, <1>11, <1>13, <1>14 DEF Overdue
  <2>4. m.status # "NORMAL" /\ c.status = "NORMAL" => Equity(c) >= InitialOf(c)
    BY <1>7, <1>8, <1>10, <1>11
  <2> QED
    BY <1>4, <1>10, <1>11, <1>12, <2>1, <2>2, <2>3, <2>4 DEF SettledOnce
<1>15. CASE Overdue(c) /\ c.status # "NORMAL" /\ Open(c) # {}
  <2>1. PICK f \in Account : /\ Liquidated(c, settles) = Checked(f)
                             /\ f.status = "LIQUIDATION" /\ f.calls = c.calls
                             /\ \A s \in Symbols : f.pos[s] = NoPosition
    BY <1>10, <1>11, LiquidatedFacts
  <2>2. t = Checked(f)
    BY <1>5, <1>15, <2>1
  <2>3. /\ t \in Account /\ t.pos = f.pos /\ t.cash = f.cash
        /\ t.status # "NORMAL" => t.calls = f.calls
        /\ t.status = "NORMAL" => t.calls = 0
    BY <2>1, <2>2, CheckedFacts
  <2>4. Checked(t).status = t.status
    BY <2>1, <2>2, <2>3, CheckedAgain
  <2>5. Open(t) = {} /\ Tidy(t) /\ Known(t)
    BY <2>1, <2>3 DEF Open, Tidy, Known, NoPosition
  <2>6. m.calls >= CallLimit
    BY <1>12, <1>13, <1>15 DEF Overdue
  <2>7. t.status # "NORMAL" => t.calls = m.calls + 1
    BY <1>12, <1>15, <2>1, <2>3
  <2> QED
    BY <1>4, <2>3, <2>4, <2>5, <2>6, <2>7 DEF SettledOnce
<1> QED
  BY <1>14, <1>15

-----------------------------------------------------------------------------
(* The invariant.                                                          *)

\* The margin engine counts what the history of the call counts, an account in
\* order counts nothing, and no count is past the limit while futures are held.
CallInv ==
  /\ acct \in Account /\ Tidy(acct) /\ Known(acct)
  /\ unmet = acct.calls
  /\ acct.status = "NORMAL" => acct.calls = 0
  /\ CallLimit > 0 /\ Open(acct) # {} => acct.calls <= CallLimit

IInv == idx \in -1..LastBar /\ market \in [Symbols -> Prices] /\ CallInv

\* What a bar makes of the margin call.
CallStep ==
  /\ forced' => unmet >= CallLimit
  /\ acct.status # "NORMAL" /\ acct'.status = "NORMAL" =>
       Open(acct') = {} \/ Equity(acct') >= InitialOf(acct')

\* The end of a bar: what Tick leaves to Finish, for the bar's trades m.
LEMMA FinishFacts ==
  ASSUME IInv, NEW m \in Account, Tidy(m), Known(m),
         m.status = acct.status, m.calls = acct.calls,
         acct.status # "NORMAL" /\ Open(acct) = {} => Open(m) = {},
         NEW b \in Bars, NEW bars, \A s \in DOMAIN bars : bars[s].close \in Prices,
         NEW settles, EndsSession(b) => settles \in [Open(m) -> Prices],
         Finish(m, b, bars, settles)
  PROVE  CallInv' /\ CallStep /\ market' \in [Symbols -> Prices]
<1>1. PICK st \in BOOLEAN : st = (Open(m) # {} /\ EndsSession(b))
  OBVIOUS
<1>2. PICK t : t = IF st THEN AfterSettlement(m, settles, SessionDate[b]) ELSE m
  OBVIOUS
<1>3. /\ acct' = Checked(t)
      /\ market' = [s \in Symbols |-> IF st /\ s \in Open(m) THEN settles[s] ELSE At(s, bars)]
      /\ unmet' = IF acct'.status = "NORMAL" THEN 0 ELSE IF st THEN unmet + 1 ELSE unmet
      /\ forced' = (st /\ Open(t) = {})
  BY <1>1, <1>2 DEF Finish
<1>4. /\ market \in [Symbols -> Prices] /\ acct \in Account /\ unmet = acct.calls
      /\ acct.status = "NORMAL" => acct.calls = 0
      /\ CallLimit > 0 /\ Open(acct) # {} => acct.calls <= CallLimit
      /\ acct.calls \in Nat
  BY DEF IInv, CallInv, Account
<1>5. market' \in [Symbols -> Prices]
  BY <1>1, <1>3, <1>4 DEF At
<1>6. PICK c : c = acct'
  OBVIOUS
<1>7. CASE st
  <2>1. t = AfterSettlement(m, settles, SessionDate[b])
    BY <1>2, <1>7
  <2>2. settles \in [Open(m) -> Int] /\ SessionDate[b] \in Int /\ Open(m) # {}
    <3>1. \A x \in Prices : x \in Int
      BY PricesAreInt
    <3>2. Open(m) # {} /\ EndsSession(b)
      BY <1>1, <1>7
    <3>3. settles \in [Open(m) -> Prices]
      BY <3>2
    <3>4. SessionDate[b] \in Int
      BY SessionAssumption
    <3> QED
      BY <3>1, <3>2, <3>3, <3>4
  <2>3. SettledOnce(m, t)
    BY <2>1, <2>2, SettlementFacts
  <2>4. /\ c \in Account /\ c.pos = t.pos /\ c.cash = t.cash /\ c.status = t.status
        /\ c.calls \in {0, t.calls} /\ (c.status # "NORMAL" => c.calls = t.calls)
    BY <1>3, <1>6, <2>3, CheckedFacts DEF SettledOnce
  <2>5. Open(c) = Open(t) /\ Equity(c) = Equity(t) /\ InitialOf(c) = InitialOf(t)
    BY <2>4, SameMoney
  <2>6. Tidy(c) /\ Known(c)
    BY <2>3, <2>4 DEF SettledOnce, Tidy, Known
  <2>7. c.status = "NORMAL" => c.calls = 0
    BY <2>3, <2>4 DEF SettledOnce
  <2>8. unmet' = c.calls
    BY <1>3, <1>4, <1>6, <1>7, <2>3, <2>4, <2>7 DEF SettledOnce
  <2>9. CallLimit > 0 /\ Open(c) # {} => c.calls <= CallLimit
    BY <2>3, <2>4, <2>5, SpecAssumption DEF SettledOnce
  <2>10. CallInv'
    BY <1>6, <2>4, <2>6, <2>7, <2>8, <2>9 DEF CallInv, Tidy, Known, Open
  <2>11. Open(t) = {} => unmet >= CallLimit
    BY <1>4, <2>3 DEF SettledOnce
  <2>12. acct.status # "NORMAL" /\ c.status = "NORMAL" => Open(c) = {} \/ Equity(c) >= InitialOf(c)
    BY <2>3, <2>4, <2>5 DEF SettledOnce
  <2>13. CallStep
    BY <1>3, <1>6, <2>11, <2>12 DEF CallStep
  <2> QED
    BY <1>5, <2>10, <2>13
<1>8. CASE ~ st
  <2>1. t = m
    BY <1>2, <1>8
  <2>2. /\ c \in Account /\ c.pos = m.pos /\ c.cash = m.cash
        /\ c.calls \in {0, m.calls} /\ (c.status # "NORMAL" => c.calls = m.calls)
        /\ m.status # "NORMAL" /\ c.status = "NORMAL" =>
             c.calls = 0 /\ (Open(m) = {} \/ Equity(m) >= InitialOf(m))
    BY <1>3, <1>6, <2>1, CheckedFacts
  <2>3. Open(c) = Open(m) /\ Equity(c) = Equity(m) /\ InitialOf(c) = InitialOf(m)
    BY <2>2, SameMoney
  <2>4. Tidy(c) /\ Known(c)
    BY <2>2 DEF Tidy, Known
  <2>5. c.status = "NORMAL" => c.calls = 0
    BY <1>4, <2>2
  <2>6. unmet' = c.calls
    BY <1>3, <1>4, <1>6, <1>8, <2>2, <2>5
  <2>7. CallLimit > 0 /\ Open(c) # {} => c.calls <= CallLimit
    BY <1>4, <2>2, <2>3, SpecAssumption
  <2>8. CallInv'
    BY <1>6, <2>2, <2>4, <2>5, <2>6, <2>7 DEF CallInv, Tidy, Known, Open
  <2>9. CallStep
    BY <1>3, <1>6, <1>8, <2>2, <2>3 DEF CallStep
  <2> QED
    BY <1>5, <2>8, <2>9
<1> QED
  BY <1>7, <1>8

\* Bar b of the market, its orders, and the prices at which it is settled.
IsBar(b, bars, orders, settles) ==
  /\ b \in Bars /\ b = idx + 1 /\ idx' = b
  /\ IsQuote(bars) /\ \A s \in DOMAIN bars : bars[s].open \in Prices /\ bars[s].close \in Prices
  /\ orders \in SeqOf(Orders, MaxOrders)
  /\ EndsSession(b) => settles \in [Open(Traded(acct, bars, orders)) -> Prices]
  /\ Finish(Traded(acct, bars, orders), b, bars, settles)

\* A tick processes such a bar.
LEMMA TickBar ==
  ASSUME IInv, Tick
  PROVE  \E b, bars, orders, settles : IsBar(b, bars, orders, settles)
<1>1. PICK b : b = idx + 1
  OBVIOUS
<1>2. b \in Bars /\ idx' = b
  BY <1>1, SessionAssumption DEF IInv, Tick, Bars
<1>3. PICK present \in SUBSET Symbols, orders \in SeqOf(Orders, MaxOrders) :
        \E px \in [present -> MarketBar] :
          LET bars == [s \in present |-> [open |-> px[s].open, close |-> px[s].close,
                                          contract |-> ContractAt[s][idx + 1]]]
              m == Traded(acct, bars, orders)
          IN  IF EndsSession(idx + 1)
              THEN \E settles \in [Open(m) -> Prices] : Finish(m, idx + 1, bars, settles)
              ELSE Finish(m, idx + 1, bars, market)
  BY DEF Tick
<1>4. PICK px \in [present -> MarketBar] :
          LET bars == [s \in present |-> [open |-> px[s].open, close |-> px[s].close,
                                          contract |-> ContractAt[s][idx + 1]]]
              m == Traded(acct, bars, orders)
          IN  IF EndsSession(idx + 1)
              THEN \E settles \in [Open(m) -> Prices] : Finish(m, idx + 1, bars, settles)
              ELSE Finish(m, idx + 1, bars, market)
  BY <1>3
<1>5. PICK bars : bars = [s \in present |-> [open |-> px[s].open, close |-> px[s].close,
                                             contract |-> ContractAt[s][idx + 1]]]
  OBVIOUS
<1>6. PICK m : m = Traded(acct, bars, orders)
  OBVIOUS
<1>7. IF EndsSession(b)
      THEN \E settles \in [Open(m) -> Prices] : Finish(m, b, bars, settles)
      ELSE Finish(m, b, bars, market)
  BY <1>1, <1>4, <1>5, <1>6
<1>8. IsQuote(bars) /\ \A s \in DOMAIN bars : bars[s].open \in Prices /\ bars[s].close \in Prices
  <2>1. DOMAIN bars = present
    BY <1>5
  <2>2. ASSUME NEW s \in present
        PROVE  /\ bars[s].open \in Prices /\ bars[s].close \in Prices
               /\ bars[s].contract \in Contracts \ {NoContract}
    <3>1. px[s].open \in Prices /\ px[s].close \in Prices
      BY DEF MarketBar
    <3>2. ContractAt[s][b] \in Contracts \ {NoContract}
      BY <1>2, MarketAssumption DEF Contracts
    <3> QED
      BY <1>1, <1>5, <3>1, <3>2
  <2>3. present \subseteq Symbols
    OBVIOUS
  <2>4. \A x \in Prices : x \in Int
    BY PricesAreInt
  <2> QED
    BY <2>1, <2>2, <2>3, <2>4 DEF IsQuote
<1>9. PICK settles : /\ EndsSession(b) => settles \in [Open(m) -> Prices]
                     /\ Finish(m, b, bars, settles)
  BY <1>7
<1>10. IsBar(b, bars, orders, settles)
  BY <1>1, <1>2, <1>6, <1>8, <1>9 DEF IsBar
<1> QED
  BY <1>10

\* Every bar keeps the invariant.
LEMMA TickFacts ==
  ASSUME IInv, Tick
  PROVE  IInv' /\ CallStep
<1>1. PICK b, bars, orders, settles : IsBar(b, bars, orders, settles)
  BY TickBar
<1>2. PICK m : m = Traded(acct, bars, orders)
  OBVIOUS
<1>3. /\ b \in Bars /\ idx' = b /\ IsQuote(bars)
      /\ \A s \in DOMAIN bars : bars[s].close \in Prices
      /\ orders \in SeqOf(Orders, MaxOrders)
      /\ EndsSession(b) => settles \in [Open(m) -> Prices]
      /\ Finish(m, b, bars, settles)
  BY <1>1, <1>2 DEF IsBar
<1>4. acct \in Account /\ Tidy(acct) /\ Known(acct)
  BY DEF IInv, CallInv
<1>5. /\ m \in Account /\ m.status = acct.status /\ m.calls = acct.calls
      /\ Tidy(m) /\ Known(m)
      /\ acct.status # "NORMAL" /\ Open(acct) = {} => Open(m) = {}
  BY <1>2, <1>3, <1>4, TradedFacts
<1>6. CallInv' /\ CallStep /\ market' \in [Symbols -> Prices]
  BY <1>3, <1>5, FinishFacts
<1>7. idx' \in -1..LastBar
  BY <1>3, SessionAssumption DEF Bars
<1> QED
  BY <1>6, <1>7 DEF IInv

\* The invariant holds of every behaviour.
THEOREM Invariance == Spec => []IInv
<1>1. Init => IInv
  <2> SUFFICES ASSUME Init PROVE IInv
    OBVIOUS
  <2>1. NoPosition \in Position /\ NoPosition.qty = 0
    BY DEF NoPosition, Position, Contracts
  <2>2. /\ acct = [cash |-> InitialCash, realized |-> 0, fees |-> 0,
                   pos |-> [s \in Symbols |-> NoPosition], status |-> "NORMAL", calls |-> 0,
                   whole |-> TRUE]
        /\ idx = -1 /\ market \in [Symbols -> Prices] /\ unmet = 0
    BY DEF Init
  <2>3. acct \in Account
    BY <2>1, <2>2, SpecAssumption DEF Account
  <2>4. Tidy(acct) /\ Known(acct) /\ Open(acct) = {}
    BY <2>1, <2>2 DEF Tidy, Known, Open
  <2>5. LastBar \in Nat
    BY SessionAssumption
  <2>6. idx \in -1..LastBar
    BY <2>2, <2>5
  <2>7. acct.calls = 0 /\ acct.status = "NORMAL"
    BY <2>2
  <2> QED
    BY <2>2, <2>3, <2>4, <2>6, <2>7 DEF IInv, CallInv
<1>2. IInv /\ [Next]_vars => IInv'
  <2>1. IInv /\ UNCHANGED vars => IInv'
    BY DEF vars, IInv, CallInv, Tidy, Known, Open
  <2> QED
    BY <2>1, TickFacts DEF Next
<1> QED
  BY <1>1, <1>2, PTL DEF Spec

\* Every variable holds a value of its kind, nothing is left of a flat position
\* and the contract of every open one is known.
THEOREM FuturesTyped == Spec => []TypeOK
<1>1. IInv => TypeOK
  BY DEF IInv, CallInv, Account, Position, Contracts, Tidy, Known, Open, TypeOK
<1> QED
  BY <1>1, Invariance, PTL

\* No account holds futures through one settlement more than a call may last.
THEOREM CallsEnd == Spec => []CallsEndInTime
<1>1. IInv => CallsEndInTime
  BY DEF IInv, CallInv, CallsEndInTime
<1> QED
  BY <1>1, Invariance, PTL

\* Nothing is liquidated before its call has lasted that long.
THEOREM LiquidationsWait == Spec => LiquidationsAreDue
<1>1. IInv /\ [Next]_vars => [forced' => unmet >= CallLimit]_vars
  BY TickFacts DEF Next, CallStep
<1> QED
  BY <1>1, Invariance, PTL DEF Spec, LiquidationsAreDue

\* A call ends at the initial margin, not at the maintenance margin.
THEOREM CallsAreMet == Spec => CallsMetAtInitial
<1>1. IInv /\ [Next]_vars =>
        [acct.status # "NORMAL" /\ acct'.status = "NORMAL" =>
           Open(acct') = {} \/ Equity(acct') >= InitialOf(acct')]_vars
  BY TickFacts DEF Next, CallStep
<1> QED
  BY <1>1, Invariance, PTL DEF Spec, CallsMetAtInitial

-----------------------------------------------------------------------------
(* Money: what a fill moves.                                               *)

\* What the positions fetch at the prices x, what they stand at since the last
\* settlement, and what they cost.
QtyAt(a, x) == SumFunctionOnSet([s \in Symbols |-> a.pos[s].qty * x[s]], Symbols)
Basis(a) == SumFunctionOnSet([s \in Symbols |-> a.pos[s].qty * a.pos[s].basis], Symbols)
Cost(a) == SumFunctionOnSet([s \in Symbols |-> a.pos[s].qty * a.pos[s].avg], Symbols)

\* Cash, had no fees been paid, and the open trade equity at the prices x.
Worth(a, x) == a.cash + a.fees + (QtyAt(a, x) - Basis(a)) * Mult

\* What cash would be without fees, realised profit and variation margin.
Paper(a) == a.cash + a.fees - a.realized - (Basis(a) - Cost(a)) * Mult

\* Prices for all symbols.
IsPrices(x) == \A s \in Symbols : x[s] \in Int

\* What the contracts that a fill of q closes of position p count.
Taken(p, q) ==
  (IF p.qty * q < 0 THEN Min({Abs(q), Abs(p.qty)}) ELSE 0) * (IF p.qty > 0 THEN 1 ELSE -1)

\* They are those of the fill, up to the position.
LEMMA TakenIs ==
  ASSUME NEW p \in Position, NEW q \in Int
  PROVE  /\ Taken(p, q) \in Int
         /\ ~ (p.qty * q < 0) => Taken(p, q) = 0
         /\ p.qty * q < 0 => Taken(p, q) = IF Abs(q) > Abs(p.qty) THEN p.qty ELSE -q
<1>1. PICK n \in Int : n = p.qty
  BY DEF Position
<1>2. CASE ~ (n * q < 0)
  <2>1. Taken(p, q) = 0 * (IF n > 0 THEN 1 ELSE -1)
    BY <1>1, <1>2 DEF Taken
  <2> QED
    BY <1>1, <1>2, <2>1
<1>3. CASE n * q < 0
  <2>1. (n > 0 /\ q < 0) \/ (n < 0 /\ q > 0)
    <3>1. \A x, y \in Int : x * y < 0 => (x > 0 /\ y < 0) \/ (x < 0 /\ y > 0)
      OBVIOUS
    <3> QED
      BY <1>3, <3>1
  <2>2. PICK u \in Nat, v \in Nat :
          /\ u = Abs(n) /\ v = Abs(q)
          /\ n > 0 => u = n /\ v = -q
          /\ n < 0 => u = -n /\ v = q
    BY <2>1 DEF Abs
  <2>3. PICK m \in Nat : m = IF v <= u THEN v ELSE u
    OBVIOUS
  <2>4. Min({v, u}) = m
    <3>1. m \in {v, u} /\ \A y \in {v, u} : m <= y
      BY <2>3
    <3>2. \A y \in {v, u} : (\A z \in {v, u} : y <= z) => y = m
      BY <3>1
    <3>3. Min({v, u}) \in {v, u} /\ \A y \in {v, u} : Min({v, u}) <= y
      BY <3>1 DEF Min
    <3> QED
      BY <3>2, <3>3
  <2>5. Taken(p, q) = m * (IF n > 0 THEN 1 ELSE -1)
    BY <1>1, <1>3, <2>2, <2>4 DEF Taken
  <2>6. CASE n > 0
    <3>1. Taken(p, q) = m
      BY <2>5, <2>6
    <3> QED
      BY <1>1, <1>3, <2>2, <2>3, <2>6, <3>1
  <2>7. CASE n < 0
    <3>1. Taken(p, q) = -m
      BY <2>5, <2>7
    <3> QED
      BY <1>1, <1>3, <2>2, <2>3, <2>7, <3>1
  <2> QED
    BY <2>1, <2>6, <2>7
<1> QED
  BY <1>2, <1>3

\* A whole average of two quantities of the same side has their cost.
LEMMA WholeAverage ==
  ASSUME NEW n \in Int, NEW q \in Int, n * q > 0, NEW y \in Int, NEW px \in Int,
         NEW t \in Int, NEW m \in Int, t = y * Abs(n) + px * Abs(q), m = Abs(n) + Abs(q),
         t % m = 0
  PROVE  (n + q) * (t \div m) = n * y + q * px
<1>1. (n > 0 /\ q > 0) \/ (n < 0 /\ q < 0)
  <2>1. \A x, z \in Int : x * z > 0 => (x > 0 /\ z > 0) \/ (x < 0 /\ z < 0)
    OBVIOUS
  <2> QED
    BY <2>1
<1>2. PICK u \in Nat, v \in Nat :
        /\ u = Abs(n) /\ v = Abs(q) /\ u > 0
        /\ n > 0 => u = n /\ v = q
        /\ n < 0 => u = -n /\ v = -q
  BY <1>1 DEF Abs
<1>3. t = y * u + px * v /\ m = u + v /\ m > 0
  <2>1. \A i, j \in Nat : i > 0 => i + j > 0
    OBVIOUS
  <2>2. m = u + v
    BY <1>2
  <2> QED
    BY <1>2, <2>1, <2>2
<1>5. PICK w \in Int : w = t \div m
  BY <1>3
<1>6. m * w = t
  BY <1>3, <1>5
<1>7. (n + q) * w = n * y + q * px
  <2>1. CASE n > 0
    <3>1. n + q = m /\ n * y + q * px = t
      BY <1>2, <1>3, <2>1
    <3> QED
      BY <1>6, <3>1
  <2>2. CASE n < 0
    <3>1. n + q = -m
      BY <1>2, <1>3, <2>2
    <3>2. n = -u /\ q = -v
      BY <1>2, <2>2
    <3>3. n * y + q * px = -t
      BY <1>3, <3>2
    <3>4. (-m) * w = -(m * w)
      OBVIOUS
    <3> QED
      BY <1>6, <3>1, <3>3, <3>4
  <2> QED
    BY <1>1, <2>1, <2>2
<1> QED
  BY <1>2, <1>3, <1>5, <1>7

\* Selling at px what cost i leaves nothing but the profit.
LEMMA BackToFlat ==
  ASSUME NEW n \in Int, NEW i \in Int, NEW px \in Int
  PROVE  n * i + (-n) * px + n * (px - i) = 0
<1>1. n * (px - i) = n * px - n * i
  OBVIOUS
<1>2. (-n) * px = -(n * px)
  OBVIOUS
<1> QED
  BY <1>1, <1>2

\* What a fill makes of the cost of a position, at the trade and since the last
\* settlement: the price of the fill is added, the profit of what it closes kept.
LEMMA AfterCosts ==
  ASSUME NEW p \in Position, NEW q \in Int, NEW px \in Int, q # 0 \/ p.qty = 0,
         AverageIsWhole(p, q, px), NEW k \in Int, k = Taken(p, q)
  PROVE  /\ After(p, q, px).qty * After(p, q, px).basis
              = p.qty * p.basis + q * px + k * (px - p.basis)
         /\ After(p, q, px).qty * After(p, q, px).avg
              = p.qty * p.avg + q * px + k * (px - p.avg)
<1>1. PICK n \in Int, y \in Int, z \in Int : n = p.qty /\ y = p.basis /\ z = p.avg
  BY DEF Position
<1>2. PICK r : r = After(p, q, px)
  OBVIOUS
<1>3. /\ ~ (n * q < 0) => k = 0
      /\ n * q < 0 => k = IF Abs(q) > Abs(n) THEN n ELSE -q
  BY <1>1, TakenIs
<1> SUFFICES /\ r.qty * r.basis = n * y + q * px + k * (px - y)
             /\ r.qty * r.avg = n * z + q * px + k * (px - z)
  BY <1>1, <1>2
<1>4. CASE n = 0
  <2>1. r = [NoPosition EXCEPT !.qty = q, !.avg = px, !.mark = px, !.basis = px]
    BY <1>1, <1>2, <1>4 DEF After
  <2>2. r.qty = q /\ r.avg = px /\ r.basis = px
    BY <2>1 DEF NoPosition
  <2>3. k = 0
    BY <1>3, <1>4
  <2> QED
    BY <1>4, <2>2, <2>3
<1>5. CASE n * q > 0
  <2>1. ~ (n * q < 0) /\ n # 0 /\ k = 0
    BY <1>3, <1>5
  <2>2. r = Added(p, q, px)
    BY <1>1, <1>2, <1>5, <2>1 DEF After
  <2>3. PICK v \in Int, w \in Int :
          /\ v = (z * Abs(n) + px * Abs(q)) \div (Abs(n) + Abs(q))
          /\ w = (y * Abs(n) + px * Abs(q)) \div (Abs(n) + Abs(q))
    <3>1. Abs(n) \in Nat /\ Abs(q) \in Nat /\ Abs(n) > 0
      BY <2>1 DEF Abs
    <3>2. \A i, j \in Int, u, m \in Nat : u > 0 => (i * u + j * m) \div (u + m) \in Int
      OBVIOUS
    <3> QED
      BY <3>1, <3>2
  <2>4. r = [p EXCEPT !.qty = @ + q, !.avg = v, !.basis = w]
    BY <1>1, <2>2, <2>3 DEF Added
  <2>5. r.qty = n + q /\ r.avg = v /\ r.basis = w
    BY <1>1, <2>4 DEF Position
  <2>6. PICK m \in Int, t \in Int, u \in Int :
          /\ m = Abs(n) + Abs(q)
          /\ t = z * Abs(n) + px * Abs(q) /\ u = y * Abs(n) + px * Abs(q)
    <3>1. Abs(n) \in Int /\ Abs(q) \in Int
      BY DEF Abs
    <3> QED
      BY <3>1
  <2>7. t % m = 0 /\ u % m = 0
    BY <1>1, <1>5, <2>6 DEF AverageIsWhole
  <2>8. (n + q) * v = n * z + q * px
    <3>1. (n + q) * (t \div m) = n * z + q * px
      BY <1>5, <2>6, <2>7, WholeAverage
    <3> QED
      BY <2>3, <2>6, <3>1
  <2>10. (n + q) * w = n * y + q * px
    <3>1. (n + q) * (u \div m) = n * y + q * px
      BY <1>5, <2>6, <2>7, WholeAverage
    <3> QED
      BY <2>3, <2>6, <3>1
  <2>9. k * (px - y) = 0 /\ k * (px - z) = 0
    BY <2>1
  <2> QED
    BY <2>5, <2>8, <2>9, <2>10
<1>6. CASE n * q < 0
  <2>1. n # 0 /\ ~ (n * q > 0) /\ (k = IF Abs(q) > Abs(n) THEN n ELSE -q)
    BY <1>3, <1>6
  <2>2. r = Reduced(p, q, px)
    BY <1>1, <1>2, <1>6, <2>1 DEF After
  <2>3. CASE n + q = 0
    <3>1. r.qty = 0 /\ r.avg = 0 /\ r.basis = 0
      BY <1>1, <2>2, <2>3 DEF Reduced, NoPosition
    <3>2. q = -n /\ Abs(q) = Abs(n) /\ Abs(n) \in Int
      BY <2>3 DEF Abs
    <3>3. k = n
      BY <2>1, <3>2
    <3> QED
      <4>1. /\ n * y + (-n) * px + n * (px - y) = 0
            /\ n * z + (-n) * px + n * (px - z) = 0
        BY BackToFlat
      <4>2. q * px = (-n) * px /\ k * (px - y) = n * (px - y) /\ k * (px - z) = n * (px - z)
        BY <3>2, <3>3
      <4>3. r.qty * r.basis = 0 /\ r.qty * r.avg = 0
        BY <3>1
      <4> QED
        BY <4>1, <4>2, <4>3
  <2>4. CASE n + q # 0 /\ Abs(q) > Abs(n)
    <3>1. r = [p EXCEPT !.qty = @ + q, !.avg = px, !.basis = px, !.settled = -1]
      BY <1>1, <2>2, <2>4 DEF Reduced
    <3>2. r.qty = n + q /\ r.avg = px /\ r.basis = px
      BY <1>1, <3>1 DEF Position
    <3>3. k = n
      BY <2>1, <2>4
    <3> QED
      BY <3>2, <3>3
  <2>5. CASE n + q # 0 /\ ~ (Abs(q) > Abs(n))
    <3>1. r = [p EXCEPT !.qty = @ + q]
      BY <1>1, <2>2, <2>5 DEF Reduced
    <3>2. r.qty = n + q /\ r.avg = z /\ r.basis = y
      BY <1>1, <3>1 DEF Position
    <3>3. k = -q
      BY <2>1, <2>5
    <3> QED
      BY <3>2, <3>3
  <2> QED
    BY <2>3, <2>4, <2>5
<1>7. n # 0 => n * q > 0 \/ n * q < 0
  <2>1. \A i, j \in Int : i # 0 /\ j # 0 => i * j > 0 \/ i * j < 0
    OBVIOUS
  <2> QED
    BY <1>1, <2>1
<1> QED
  BY <1>4, <1>5, <1>6, <1>7

\* The same for named values.
LEMMA AfterSums ==
  ASSUME NEW p \in Position, NEW q \in Int, NEW px \in Int, q # 0 \/ p.qty = 0,
         AverageIsWhole(p, q, px), NEW k \in Int, k = Taken(p, q),
         NEW y \in Int, y = p.basis, NEW z \in Int, z = p.avg,
         NEW i \in Int, i = k * (px - y), NEW j \in Int, j = k * (px - z),
         NEW n, n = After(p, q, px)
  PROVE  /\ n.qty = p.qty + q
         /\ n.qty * n.basis = p.qty * y + q * px + i
         /\ n.qty * n.avg = p.qty * z + q * px + j
<1>1. n.qty = p.qty + q
  BY AfterPosition
<1>2. /\ After(p, q, px).qty * After(p, q, px).basis
            = p.qty * p.basis + q * px + k * (px - p.basis)
      /\ After(p, q, px).qty * After(p, q, px).avg
            = p.qty * p.avg + q * px + k * (px - p.avg)
  BY AfterCosts
<1> QED
  BY <1>1, <1>2

\* Accounts have such sums.
LEMMA MoneySums ==
  ASSUME NEW a \in Account, NEW x, IsPrices(x)
  PROVE  /\ QtyAt(a, x) \in Int /\ Basis(a) \in Int /\ Cost(a) \in Int
         /\ a.cash \in Int /\ a.fees \in Int /\ a.realized \in Int
<1>1. PICK f, g, h : /\ f = [s \in Symbols |-> a.pos[s].qty * x[s]]
                     /\ g = [s \in Symbols |-> a.pos[s].qty * a.pos[s].basis]
                     /\ h = [s \in Symbols |-> a.pos[s].qty * a.pos[s].avg]
  OBVIOUS
<1>2. \A s \in Symbols : /\ a.pos[s].qty \in Int /\ x[s] \in Int
                         /\ a.pos[s].basis \in Int /\ a.pos[s].avg \in Int
  BY DEF Account, Position, IsPrices
<1>3. \A i, j \in Int : i * j \in Int
  OBVIOUS
<1>4. \A s \in Symbols : f[s] \in Int
  BY <1>1, <1>2, <1>3
<1>5. \A s \in Symbols : g[s] \in Int
  BY <1>1, <1>2, <1>3
<1>6. \A s \in Symbols : h[s] \in Int
  BY <1>1, <1>2, <1>3
<1>7. IsFiniteSet(Symbols)
  BY MarketAssumption
<1>8. SumFunctionOnSet(f, Symbols) \in Int
  BY <1>4, <1>7, SumRecursion
<1>9. SumFunctionOnSet(g, Symbols) \in Int
  BY <1>5, <1>7, SumRecursion
<1>10. SumFunctionOnSet(h, Symbols) \in Int
  BY <1>6, <1>7, SumRecursion
<1>11. a.cash \in Int /\ a.fees \in Int /\ a.realized \in Int
  BY DEF Account
<1> QED
  BY <1>1, <1>8, <1>9, <1>10, <1>11 DEF QtyAt, Basis, Cost

\* They change by what changes at one symbol.
LEMMA MoneyAt ==
  ASSUME NEW a \in Account, NEW b \in Account, NEW x, IsPrices(x), NEW s \in Symbols,
         \A r \in Symbols \ {s} : b.pos[r] = a.pos[r],
         NEW i \in Int, b.pos[s].qty * x[s] = a.pos[s].qty * x[s] + i,
         NEW j \in Int, b.pos[s].qty * b.pos[s].basis = a.pos[s].qty * a.pos[s].basis + j,
         NEW k \in Int, b.pos[s].qty * b.pos[s].avg = a.pos[s].qty * a.pos[s].avg + k
  PROVE  /\ QtyAt(b, x) = QtyAt(a, x) + i
         /\ Basis(b) = Basis(a) + j
         /\ Cost(b) = Cost(a) + k
<1> DEFINE F(c) == [r \in Symbols |-> c.pos[r].qty * x[r]]
           G(c) == [r \in Symbols |-> c.pos[r].qty * c.pos[r].basis]
           H(c) == [r \in Symbols |-> c.pos[r].qty * c.pos[r].avg]
<1>1. ASSUME NEW c \in Account, NEW r \in Symbols
      PROVE  F(c)[r] \in Int /\ G(c)[r] \in Int /\ H(c)[r] \in Int
  <2>1. /\ c.pos[r].qty \in Int /\ x[r] \in Int
        /\ c.pos[r].basis \in Int /\ c.pos[r].avg \in Int
    BY DEF Account, Position, IsPrices
  <2>2. \A m, n \in Int : m * n \in Int
    OBVIOUS
  <2> QED
    BY <2>1, <2>2
<1>2. \A r \in Symbols \ {s} : F(b)[r] = F(a)[r] /\ G(b)[r] = G(a)[r] /\ H(b)[r] = H(a)[r]
  OBVIOUS
<1>3. F(b)[s] = F(a)[s] + i /\ G(b)[s] = G(a)[s] + j /\ H(b)[s] = H(a)[s] + k
  OBVIOUS
<1>4. QtyAt(a, x) = SumFunctionOnSet(F(a), Symbols) /\ QtyAt(b, x) = SumFunctionOnSet(F(b), Symbols)
  BY DEF QtyAt
<1>5. Basis(a) = SumFunctionOnSet(G(a), Symbols) /\ Basis(b) = SumFunctionOnSet(G(b), Symbols)
  BY DEF Basis
<1>6. Cost(a) = SumFunctionOnSet(H(a), Symbols) /\ Cost(b) = SumFunctionOnSet(H(b), Symbols)
  BY DEF Cost
<1> HIDE DEF F, G, H
<1>7. IsFiniteSet(Symbols)
  BY MarketAssumption
<1>8. SumFunctionOnSet(F(b), Symbols) = SumFunctionOnSet(F(a), Symbols) + i
  <2>1. PICK f, g : f = F(a) /\ g = F(b)
    OBVIOUS
  <2>2. /\ \A r \in Symbols : f[r] \in Int /\ g[r] \in Int
        /\ \A r \in Symbols \ {s} : g[r] = f[r]
        /\ g[s] = f[s] + i
    BY <1>1, <1>2, <1>3, <2>1
  <2> QED
    BY <1>7, <2>1, <2>2, SumChange
<1>9. SumFunctionOnSet(G(b), Symbols) = SumFunctionOnSet(G(a), Symbols) + j
  <2>1. PICK f, g : f = G(a) /\ g = G(b)
    OBVIOUS
  <2>2. /\ \A r \in Symbols : f[r] \in Int /\ g[r] \in Int
        /\ \A r \in Symbols \ {s} : g[r] = f[r]
        /\ g[s] = f[s] + j
    BY <1>1, <1>2, <1>3, <2>1
  <2> QED
    BY <1>7, <2>1, <2>2, SumChange
<1>10. SumFunctionOnSet(H(b), Symbols) = SumFunctionOnSet(H(a), Symbols) + k
  <2>1. PICK f, g : f = H(a) /\ g = H(b)
    OBVIOUS
  <2>2. /\ \A r \in Symbols : f[r] \in Int /\ g[r] \in Int
        /\ \A r \in Symbols \ {s} : g[r] = f[r]
        /\ g[s] = f[s] + k
    BY <1>1, <1>2, <1>3, <2>1
  <2> QED
    BY <1>7, <2>1, <2>2, SumChange
<1> QED
  BY <1>4, <1>5, <1>6, <1>8, <1>9, <1>10

\* A fill at the price at which an account is valued changes neither its worth
\* nor what its cash would be without it.
LEMMA FilledMoney ==
  ASSUME NEW a \in Account, NEW s \in Symbols, NEW q \in Int, NEW px \in Int,
         q # 0 \/ a.pos[s].qty = 0, NEW x, IsPrices(x), x[s] = px,
         Filled(a, s, q, px).whole
  PROVE  /\ a.whole
         /\ Worth(Filled(a, s, q, px), x) = Worth(a, x)
         /\ Paper(Filled(a, s, q, px)) = Paper(a)
<1>1. PICK b \in Account : /\ b = Filled(a, s, q, px)
                           /\ b.pos = [a.pos EXCEPT ![s] = After(a.pos[s], q, px)]
  BY FilledFacts
<1>2. PICK p \in Position : p = a.pos[s]
  BY DEF Account
<1>3. PICK n : n = After(p, q, px)
  OBVIOUS
<1>4. PICK c \in Int, d \in Int :
        /\ c = IF p.qty * q < 0 THEN Min({Abs(q), Abs(p.qty)}) ELSE 0
        /\ d = IF p.qty > 0 THEN 1 ELSE -1
  <2>1. \A i, j \in Int : Min({i, j}) \in Int
    <3> SUFFICES ASSUME NEW i \in Int, NEW j \in Int PROVE Min({i, j}) \in Int
      OBVIOUS
    <3>1. \E m \in {i, j} : \A z \in {i, j} : m <= z
      OBVIOUS
    <3> QED
      BY <3>1 DEF Min
  <2>2. Abs(q) \in Int /\ Abs(p.qty) \in Int
    BY DEF Abs, Position
  <2> QED
    BY <2>1, <2>2
<1>5. PICK k \in Int : k = Taken(p, q) /\ k = c * d
  BY <1>4 DEF Taken
<1>6. PICK y \in Int, z \in Int, f \in Int : y = p.basis /\ z = p.avg /\ f = Abs(q) * Fee
  <2>1. Abs(q) \in Int /\ Fee \in Int
    BY SpecAssumption DEF Abs
  <2> QED
    BY <2>1 DEF Position
<1>7. PICK i \in Int, j \in Int : i = k * (px - y) /\ j = k * (px - z)
  OBVIOUS
<1>8. /\ b.cash = a.cash - f + i * Mult
      /\ b.fees = a.fees + f
      /\ b.realized = a.realized + j * Mult
      /\ a.whole /\ AverageIsWhole(p, q, px)
  <2>1. /\ b.cash = a.cash - f + c * (px - y) * Mult * d
        /\ b.fees = a.fees + f
        /\ b.realized = a.realized + c * (px - z) * Mult * d
        /\ b.whole = (a.whole /\ AverageIsWhole(p, q, px))
    <3>1. b = [a EXCEPT !.whole = @ /\ AverageIsWhole(p, q, px),
                        !.fees = @ + f,
                        !.cash = @ - f + c * (px - y) * Mult * d,
                        !.realized = @ + c * (px - z) * Mult * d,
                        !.pos[s] = n]
      BY <1>1, <1>2, <1>3, <1>4, <1>6 DEF Filled, After
    <3>2. b.cash = a.cash - f + c * (px - y) * Mult * d
      BY <3>1 DEF Account
    <3>3. b.fees = a.fees + f /\ b.realized = a.realized + c * (px - z) * Mult * d
      BY <3>1 DEF Account
    <3>4. b.whole = (a.whole /\ AverageIsWhole(p, q, px))
      BY <3>1 DEF Account
    <3> QED
      BY <3>2, <3>3, <3>4
  <2>2. \A u, v, w, m \in Int : u * v * m * w = (u * w) * v * m
    OBVIOUS
  <2>3. Mult \in Int
    BY SpecAssumption
  <2>4. /\ c * (px - y) * Mult * d = (c * d) * (px - y) * Mult
        /\ c * (px - z) * Mult * d = (c * d) * (px - z) * Mult
    <3>1. px - y \in Int /\ px - z \in Int
      OBVIOUS
    <3> QED
      BY <2>2, <2>3, <3>1
  <2> QED
    BY <1>1, <1>5, <1>7, <2>1, <2>4
<1>9. /\ n.qty = p.qty + q
      /\ n.qty * n.basis = p.qty * y + q * px + i
      /\ n.qty * n.avg = p.qty * z + q * px + j
  <2>1. q # 0 \/ p.qty = 0
    BY <1>2
  <2> QED
    <3>1. k = Taken(p, q) /\ y = p.basis /\ z = p.avg
      BY <1>5, <1>6
    <3>2. AverageIsWhole(p, q, px)
      BY <1>8
    <3> QED
      BY <1>3, <1>7, <2>1, <3>1, <3>2, AfterSums
<1>10. PICK w \in Int : w = q * px
  OBVIOUS
<1>11. b.pos[s] = n /\ \A r \in Symbols \ {s} : b.pos[r] = a.pos[r]
  BY <1>1, <1>2, <1>3 DEF Account
<1>12. n.qty * px = p.qty * px + w
  <2>1. p.qty \in Int
    BY DEF Position
  <2> QED
    BY <1>9, <1>10, <2>1
<1>13. PICK o \in Int, l \in Int : o = w + i /\ l = w + j
  OBVIOUS
<1>14. /\ b.pos[s].qty * x[s] = a.pos[s].qty * x[s] + w
       /\ b.pos[s].qty * b.pos[s].basis = a.pos[s].qty * a.pos[s].basis + o
       /\ b.pos[s].qty * b.pos[s].avg = a.pos[s].qty * a.pos[s].avg + l
  <2>1. p.qty * y \in Int /\ p.qty * z \in Int
    BY DEF Position
  <2>2. n.qty * n.basis = p.qty * y + o /\ n.qty * n.avg = p.qty * z + l
    BY <1>9, <1>10, <1>13, <2>1
  <2> QED
    BY <1>2, <1>6, <1>11, <1>12, <2>2
<1>15. QtyAt(b, x) = QtyAt(a, x) + w /\ Basis(b) = Basis(a) + o /\ Cost(b) = Cost(a) + l
  BY <1>11, <1>14, MoneyAt
<1>16. /\ QtyAt(a, x) \in Int /\ Basis(a) \in Int /\ Cost(a) \in Int
       /\ a.cash \in Int /\ a.fees \in Int /\ a.realized \in Int /\ Mult \in Int
  BY MoneySums, SpecAssumption
<1>17. PICK qa \in Int, ba \in Int, ca \in Int :
         qa = QtyAt(a, x) /\ ba = Basis(a) /\ ca = Cost(a)
  BY <1>16
<1>18. \A u, v \in Int : (u - v) * Mult = u * Mult - v * Mult /\ u * Mult \in Int
  BY <1>16
<1>19. Worth(b, x) = Worth(a, x)
  <2>1. PICK e \in Int : e = qa - ba
    OBVIOUS
  <2>2. QtyAt(b, x) - Basis(b) = e - i
    BY <1>13, <1>15, <1>17, <2>1
  <2>3. Worth(b, x) = b.cash + b.fees + (e - i) * Mult /\ Worth(a, x) = a.cash + a.fees + e * Mult
    BY <1>17, <2>1, <2>2 DEF Worth
  <2>4. PICK E \in Int : E = e * Mult
    BY <1>18
  <2>5. PICK I \in Int : I = i * Mult
    BY <1>18
  <2>6. PICK G \in Int : G = (e - i) * Mult /\ G = E - I
    BY <1>18, <2>4, <2>5
  <2>7. b.cash = a.cash - f + I /\ b.fees = a.fees + f
    BY <1>8, <2>5
  <2>8. Worth(b, x) = b.cash + b.fees + G /\ Worth(a, x) = a.cash + a.fees + E
    BY <2>3, <2>4, <2>6
  <2> QED
    BY <1>16, <2>6, <2>7, <2>8
<1>20. Paper(b) = Paper(a)
  <2>1. PICK e \in Int, g \in Int : e = ba - ca /\ g = e - (j - i)
    OBVIOUS
  <2>2. Basis(b) - Cost(b) = g
    BY <1>13, <1>15, <1>17, <2>1
  <2>3. /\ Paper(b) = b.cash + b.fees - b.realized - g * Mult
        /\ Paper(a) = a.cash + a.fees - a.realized - e * Mult
    BY <1>17, <2>1, <2>2 DEF Paper
  <2>4. PICK E \in Int, I \in Int, J \in Int : E = e * Mult /\ I = i * Mult /\ J = j * Mult
    BY <1>18
  <2>5. g * Mult = E - (J - I)
    <3>1. (j - i) * Mult = J - I
      BY <1>18, <2>4
    <3>2. g * Mult = e * Mult - (j - i) * Mult
      BY <1>18, <2>1
    <3> QED
      BY <2>4, <3>1, <3>2
  <2>6. b.cash = a.cash - f + I /\ b.fees = a.fees + f /\ b.realized = a.realized + J
    BY <1>8, <2>4
  <2>7. PICK G \in Int : G = g * Mult /\ G = E - (J - I)
    BY <2>5
  <2>8. /\ Paper(b) = b.cash + b.fees - b.realized - G
        /\ Paper(a) = a.cash + a.fees - a.realized - E
    BY <2>3, <2>4, <2>7
  <2> QED
    BY <1>16, <2>6, <2>7, <2>8
<1> QED
  BY <1>1, <1>8, <1>19, <1>20

\* A fill leaves the date of the last settlement, or there is none any more.
LEMMA AfterSettled ==
  ASSUME NEW p \in Position, NEW q \in Int, NEW px \in Int, q # 0 \/ p.qty = 0
  PROVE  After(p, q, px).settled \in {p.settled, -1}
<1>1. PICK n \in Int : n = p.qty
  BY DEF Position
<1>2. CASE n = 0
  <2>1. After(p, q, px) = [NoPosition EXCEPT !.qty = q, !.avg = px, !.mark = px, !.basis = px]
    BY <1>1, <1>2 DEF After
  <2> QED
    BY <2>1 DEF NoPosition
<1>3. CASE n * q > 0
  <2>1. n # 0 /\ ~ (n * q < 0)
    BY <1>3
  <2>2. After(p, q, px) = Added(p, q, px)
    BY <1>1, <1>3, <2>1 DEF After
  <2> QED
    BY <2>2 DEF Added, Position
<1>4. CASE n * q < 0
  <2>1. n # 0 /\ ~ (n * q > 0)
    BY <1>4
  <2>2. After(p, q, px) = Reduced(p, q, px)
    BY <1>1, <1>4, <2>1 DEF After
  <2> QED
    BY <2>2 DEF Reduced, Position, NoPosition
<1>5. n # 0 => n * q > 0 \/ n * q < 0
  <2>1. \A i, j \in Int : i # 0 /\ j # 0 => i * j > 0 \/ i * j < 0
    OBVIOUS
  <2> QED
    BY <1>1, <2>1
<1> QED
  BY <1>2, <1>3, <1>4, <1>5

-----------------------------------------------------------------------------
(* Money: what the steps of a bar move.                                    *)

\* Account b has the books of a: only marks, contracts and the call differ.
SameBooks(a, b) ==
  /\ b \in Account /\ b.whole = a.whole
  /\ b.cash = a.cash /\ b.fees = a.fees /\ b.realized = a.realized
  /\ \A s \in Symbols :
       /\ b.pos[s].qty = a.pos[s].qty /\ b.pos[s].settled = a.pos[s].settled
       /\ b.pos[s].basis = a.pos[s].basis /\ b.pos[s].avg = a.pos[s].avg

\* From a to b no money came or went, at the prices x, and nothing was settled.
Kept(a, b, x) ==
  /\ b \in Account
  /\ b.whole => a.whole /\ Worth(b, x) = Worth(a, x) /\ Paper(b) = Paper(a)
  /\ \A s \in Symbols : b.pos[s].settled \in {a.pos[s].settled, -1}

\* The same books are worth the same.
LEMMA SameBooksKept ==
  ASSUME NEW a \in Account, NEW b, SameBooks(a, b), NEW x
  PROVE  Kept(a, b, x)
<1>1. QtyAt(b, x) = QtyAt(a, x) /\ Basis(b) = Basis(a) /\ Cost(b) = Cost(a)
  BY DEF SameBooks, QtyAt, Basis, Cost
<1> QED
  BY <1>1 DEF SameBooks, Kept, Worth, Paper

\* Twice the same books.
LEMMA SameBooksTwice ==
  ASSUME NEW a, NEW b, NEW c, SameBooks(a, b), SameBooks(b, c)
  PROVE  SameBooks(a, c)
  BY DEF SameBooks

\* No money twice is no money.
LEMMA KeptTwice ==
  ASSUME NEW a, NEW b, NEW c, NEW x, Kept(a, b, x), Kept(b, c, x)
  PROVE  Kept(a, c, x)
  BY DEF Kept

\* A fill brings no money at its own price.
LEMMA FilledKept ==
  ASSUME NEW a \in Account, NEW s \in Symbols, NEW q \in Int, NEW px \in Int,
         q # 0 \/ a.pos[s].qty = 0, NEW x, IsPrices(x), x[s] = px
  PROVE  Kept(a, Filled(a, s, q, px), x)
<1>1. PICK b \in Account : /\ b = Filled(a, s, q, px)
                           /\ b.pos = [a.pos EXCEPT ![s] = After(a.pos[s], q, px)]
  BY FilledFacts
<1>2. b.whole => a.whole /\ Worth(b, x) = Worth(a, x) /\ Paper(b) = Paper(a)
  BY <1>1, FilledMoney
<1>3. ASSUME NEW r \in Symbols PROVE b.pos[r].settled \in {a.pos[r].settled, -1}
  <2>1. CASE r # s
    BY <1>1, <2>1 DEF Account
  <2>2. CASE r = s
    <3>1. b.pos[s] = After(a.pos[s], q, px) /\ a.pos[s] \in Position
      BY <1>1 DEF Account
    <3> QED
      BY <2>2, <3>1, AfterSettled
  <2> QED
    BY <2>1, <2>2
<1>4. Kept(a, b, x)
  BY <1>2, <1>3 DEF Kept
<1> QED
  BY <1>1, <1>4

\* A mark leaves the books alone.
LEMMA MarkedBooks ==
  ASSUME NEW a \in Account, NEW bars, IsQuote(bars)
  PROVE  /\ SameBooks(a, Marked(a, bars))
         /\ \A s \in Symbols : Marked(a, bars).pos[s].mark =
              IF s \in Open(a) \cap DOMAIN bars THEN bars[s].close ELSE a.pos[s].mark
<1>1. PICK pos : pos = [s \in Symbols |->
             IF s \in Open(a) \cap DOMAIN bars
             THEN [a.pos[s] EXCEPT !.mark = bars[s].close] ELSE a.pos[s]]
  OBVIOUS
<1>2. PICK b : b = Marked(a, bars)
  OBVIOUS
<1>3. b = [a EXCEPT !.pos = pos]
  BY <1>1, <1>2 DEF Marked, Account
<1>4. b \in Account
  BY <1>2, MarkedFacts DEF Repriced
<1>5. /\ b.whole = a.whole /\ b.cash = a.cash /\ b.fees = a.fees
      /\ b.realized = a.realized /\ b.pos = pos
  BY <1>3 DEF Account
<1>6. \A s \in Symbols : a.pos[s] \in Position
  BY DEF Account
<1>7. \A s \in Symbols :
        /\ pos[s].qty = a.pos[s].qty /\ pos[s].settled = a.pos[s].settled
        /\ pos[s].basis = a.pos[s].basis /\ pos[s].avg = a.pos[s].avg
        /\ pos[s].mark = IF s \in Open(a) \cap DOMAIN bars THEN bars[s].close ELSE a.pos[s].mark
  BY <1>1, <1>6 DEF Position
<1>8. SameBooks(a, b)
  BY <1>4, <1>5, <1>7 DEF SameBooks
<1> QED
  BY <1>2, <1>5, <1>7, <1>8

\* So does a tag.
LEMMA TaggedBooks ==
  ASSUME NEW a \in Account, NEW bars, Tagged(a, bars) \in Account
  PROVE  /\ SameBooks(a, Tagged(a, bars))
         /\ \A s \in Symbols : Tagged(a, bars).pos[s].mark = a.pos[s].mark
<1>1. PICK pos : pos = [s \in Symbols |->
             IF s \in Open(a) \cap DOMAIN bars /\ a.pos[s].contract = NoContract
             THEN [a.pos[s] EXCEPT !.contract = bars[s].contract] ELSE a.pos[s]]
  OBVIOUS
<1>2. PICK b : b = Tagged(a, bars)
  OBVIOUS
<1>3. b = [a EXCEPT !.pos = pos]
  BY <1>1, <1>2 DEF Tagged, Account
<1>5. /\ b.whole = a.whole /\ b.cash = a.cash /\ b.fees = a.fees
      /\ b.realized = a.realized /\ b.pos = pos
  BY <1>3 DEF Account
<1>6. \A s \in Symbols : a.pos[s] \in Position
  BY DEF Account
<1>7. \A s \in Symbols :
        /\ pos[s].qty = a.pos[s].qty /\ pos[s].settled = a.pos[s].settled
        /\ pos[s].basis = a.pos[s].basis /\ pos[s].avg = a.pos[s].avg
        /\ pos[s].mark = a.pos[s].mark
  BY <1>1, <1>6 DEF Position
<1>8. SameBooks(a, b)
  BY <1>2, <1>5, <1>7 DEF SameBooks
<1> QED
  BY <1>2, <1>5, <1>7, <1>8

\* So do a check of the margin and the count of a settlement.
LEMMA CheckedBooks ==
  ASSUME NEW a \in Account
  PROVE  /\ SameBooks(a, Checked(a)) /\ Checked(a).pos = a.pos
         /\ SameBooks(a, Counted(a)) /\ Counted(a).pos = a.pos
<1>1. Checked(a) \in Account /\ Checked(a).pos = a.pos /\ Checked(a).cash = a.cash
  BY CheckedFacts
<1>2. Counted(a) \in Account /\ Counted(a).pos = a.pos /\ Counted(a).cash = a.cash
  BY CountedFacts
<1>3. /\ Checked(a).whole = a.whole /\ Checked(a).fees = a.fees
      /\ Checked(a).realized = a.realized
  BY DEF Checked, Account
<1>4. /\ Counted(a).whole = a.whole /\ Counted(a).fees = a.fees
      /\ Counted(a).realized = a.realized
  BY DEF Counted, Account
<1> QED
  BY <1>1, <1>2, <1>3, <1>4 DEF SameBooks

\* What the positions fetch changes symbol by symbol.
LEMMA QtyMoves ==
  ASSUME NEW a \in Account, NEW b \in Account, NEW y, IsPrices(y), NEW x, IsPrices(x), NEW d,
         \A s \in Symbols : d[s] \in Int /\ b.pos[s].qty * x[s] = a.pos[s].qty * y[s] + d[s]
  PROVE  QtyAt(b, x) = QtyAt(a, y) + SumFunctionOnSet(d, Symbols)
<1>1. PICK f : f = [s \in Symbols |-> a.pos[s].qty * y[s]]
  OBVIOUS
<1>2. PICK g : g = [s \in Symbols |-> b.pos[s].qty * x[s]]
  OBVIOUS
<1>3. ASSUME NEW s \in Symbols PROVE f[s] \in Int
  <2>1. a.pos[s].qty \in Int /\ y[s] \in Int
    BY DEF Account, Position, IsPrices
  <2>2. \A m, n \in Int : m * n \in Int
    OBVIOUS
  <2> QED
    BY <1>1, <2>1, <2>2
<1>4. \A s \in Symbols : f[s] \in Int /\ d[s] \in Int /\ g[s] = f[s] + d[s]
  BY <1>1, <1>2, <1>3
<1>5. SumFunctionOnSet(g, Symbols) = SumFunctionOnSet(f, Symbols) + SumFunctionOnSet(d, Symbols)
  BY <1>4, MarketAssumption, SumPlus
<1> QED
  BY <1>1, <1>2, <1>5 DEF QtyAt

\* So does what they stand at.
LEMMA BasisMoves ==
  ASSUME NEW a \in Account, NEW b \in Account, NEW d,
         \A s \in Symbols : d[s] \in Int /\ b.pos[s].qty * b.pos[s].basis = a.pos[s].qty * a.pos[s].basis + d[s]
  PROVE  Basis(b) = Basis(a) + SumFunctionOnSet(d, Symbols)
<1>1. PICK f : f = [s \in Symbols |-> a.pos[s].qty * a.pos[s].basis]
  OBVIOUS
<1>2. PICK g : g = [s \in Symbols |-> b.pos[s].qty * b.pos[s].basis]
  OBVIOUS
<1>3. ASSUME NEW s \in Symbols PROVE f[s] \in Int
  <2>1. a.pos[s].qty \in Int /\ a.pos[s].basis \in Int
    BY DEF Account, Position
  <2>2. \A m, n \in Int : m * n \in Int
    OBVIOUS
  <2> QED
    BY <1>1, <2>1, <2>2
<1>4. \A s \in Symbols : f[s] \in Int /\ d[s] \in Int /\ g[s] = f[s] + d[s]
  BY <1>1, <1>2, <1>3
<1>5. SumFunctionOnSet(g, Symbols) = SumFunctionOnSet(f, Symbols) + SumFunctionOnSet(d, Symbols)
  BY <1>4, MarketAssumption, SumPlus
<1> QED
  BY <1>1, <1>2, <1>5 DEF Basis

\* So does what they cost.
LEMMA CostMoves ==
  ASSUME NEW a \in Account, NEW b \in Account, NEW d,
         \A s \in Symbols : d[s] \in Int /\ b.pos[s].qty * b.pos[s].avg = a.pos[s].qty * a.pos[s].avg + d[s]
  PROVE  Cost(b) = Cost(a) + SumFunctionOnSet(d, Symbols)
<1>1. PICK f : f = [s \in Symbols |-> a.pos[s].qty * a.pos[s].avg]
  OBVIOUS
<1>2. PICK g : g = [s \in Symbols |-> b.pos[s].qty * b.pos[s].avg]
  OBVIOUS
<1>3. ASSUME NEW s \in Symbols PROVE f[s] \in Int
  <2>1. a.pos[s].qty \in Int /\ a.pos[s].avg \in Int
    BY DEF Account, Position
  <2>2. \A m, n \in Int : m * n \in Int
    OBVIOUS
  <2> QED
    BY <1>1, <2>1, <2>2
<1>4. \A s \in Symbols : f[s] \in Int /\ d[s] \in Int /\ g[s] = f[s] + d[s]
  BY <1>1, <1>2, <1>3
<1>5. SumFunctionOnSet(g, Symbols) = SumFunctionOnSet(f, Symbols) + SumFunctionOnSet(d, Symbols)
  BY <1>4, MarketAssumption, SumPlus
<1> QED
  BY <1>1, <1>2, <1>5 DEF Cost

\* At other prices an account is worth what its positions gain.
LEMMA Revalued ==
  ASSUME NEW a \in Account, NEW y, IsPrices(y), NEW x, IsPrices(x), NEW d,
         \A s \in Symbols : d[s] = a.pos[s].qty * (x[s] - y[s])
  PROVE  /\ SumFunctionOnSet(d, Symbols) \in Int /\ Worth(a, y) \in Int
         /\ Worth(a, x) = Worth(a, y) + SumFunctionOnSet(d, Symbols) * Mult
<1>1. ASSUME NEW s \in Symbols
      PROVE  d[s] \in Int /\ a.pos[s].qty * x[s] = a.pos[s].qty * y[s] + d[s]
  <2>1. PICK q \in Int, u \in Int, v \in Int : q = a.pos[s].qty /\ u = x[s] /\ v = y[s]
    BY DEF Account, Position, IsPrices
  <2>2. q * (u - v) \in Int /\ q * u = q * v + q * (u - v)
    OBVIOUS
  <2> QED
    BY <2>1, <2>2
<1>2. QtyAt(a, x) = QtyAt(a, y) + SumFunctionOnSet(d, Symbols)
  BY <1>1, QtyMoves
<1>3. SumFunctionOnSet(d, Symbols) \in Int
  BY <1>1, MarketAssumption, SumRecursion
<1>4. PICK u \in Int, v \in Int, m \in Int, n \in Int :
        u = QtyAt(a, y) /\ v = Basis(a) /\ m = a.cash + a.fees /\ n = SumFunctionOnSet(d, Symbols)
  BY <1>3, MoneySums
<1>5. Worth(a, y) = m + (u - v) * Mult /\ Worth(a, x) = m + ((u + n) - v) * Mult
  BY <1>2, <1>4 DEF Worth
<1>6. Mult \in Int
  BY SpecAssumption
<1>7. ((u + n) - v) * Mult = (u - v) * Mult + n * Mult /\ (u - v) * Mult \in Int /\ n * Mult \in Int
  BY <1>6
<1>8. PICK e \in Int, f \in Int : e = (u - v) * Mult /\ f = n * Mult
  BY <1>7
<1>9. Worth(a, y) = m + e /\ Worth(a, x) = m + (e + f)
  BY <1>5, <1>7, <1>8
<1> QED
  BY <1>3, <1>4, <1>8, <1>9

\* A roll moves the basis and the average price with the price: no money moves.
LEMMA RolledMoney ==
  ASSUME NEW a \in Account, NEW bars, IsQuote(bars), NEW y, IsPrices(y),
         \A s \in Open(a) : a.pos[s].mark = y[s] /\ y[s] # 0,
         NEW x, IsPrices(x),
         \A s \in Symbols : x[s] = IF s \in Rolls(a, bars) THEN bars[s].open ELSE y[s],
         NEW b, b = Rolled(a, bars)
  PROVE  /\ b.whole = a.whole /\ Worth(b, x) = Worth(a, y) /\ Paper(b) = Paper(a)
         /\ \A s \in Symbols : /\ b.pos[s].qty = a.pos[s].qty
                               /\ b.pos[s].settled = a.pos[s].settled
                               /\ s \notin DOMAIN bars => b.pos[s] = a.pos[s]
<1> DEFINE shift(s) == bars[s].open - Or(a.pos[s].mark, a.pos[s].basis)
           moved(s) == [a.pos[s] EXCEPT !.avg = @ + shift(s), !.basis = @ + shift(s),
                          !.mark = bars[s].open, !.contract = bars[s].contract]
<1>1. PICK pos : pos = [s \in Symbols |-> IF s \in Rolls(a, bars) THEN moved(s) ELSE a.pos[s]]
  OBVIOUS
<1>2. b = [a EXCEPT !.pos = pos]
  BY <1>1 DEF Rolled, Account
<1>3. b \in Account
  BY RolledFacts DEF Repriced
<1>4. /\ b.whole = a.whole /\ b.cash = a.cash /\ b.fees = a.fees
      /\ b.realized = a.realized /\ b.pos = pos
  BY <1>2 DEF Account
<1>5. PICK d : d = [s \in Symbols |-> IF s \in Rolls(a, bars)
                                      THEN a.pos[s].qty * (x[s] - y[s]) ELSE 0]
  OBVIOUS
<1>6. ASSUME NEW s \in Symbols
      PROVE  /\ d[s] \in Int /\ b.pos[s].qty * x[s] = a.pos[s].qty * y[s] + d[s]
             /\ b.pos[s].qty * b.pos[s].basis = a.pos[s].qty * a.pos[s].basis + d[s]
             /\ b.pos[s].qty * b.pos[s].avg = a.pos[s].qty * a.pos[s].avg + d[s]
             /\ b.pos[s].qty = a.pos[s].qty /\ b.pos[s].settled = a.pos[s].settled
             /\ s \notin DOMAIN bars => b.pos[s] = a.pos[s]
  <2>1. PICK p \in Position : p = a.pos[s]
    BY DEF Account
  <2>2. PICK q \in Int, e \in Int, g \in Int, u \in Int, v \in Int :
          q = p.qty /\ e = p.basis /\ g = p.avg /\ u = x[s] /\ v = y[s]
    BY DEF Position, IsPrices
  <2>3. CASE s \in Rolls(a, bars)
    <3>1. s \in Open(a) /\ s \in DOMAIN bars /\ u = bars[s].open
      BY <2>2, <2>3 DEF Rolls
    <3>2. Or(p.mark, p.basis) = v
      BY <2>1, <2>2, <3>1 DEF Or
    <3>3. PICK h \in Int : h = u - v
      OBVIOUS
    <3>4. pos[s] = [p EXCEPT !.avg = @ + h, !.basis = @ + h,
                             !.mark = u, !.contract = bars[s].contract]
      BY <1>1, <2>1, <2>3, <3>1, <3>2, <3>3
    <3>5. /\ pos[s].qty = q /\ pos[s].settled = p.settled
          /\ pos[s].basis = e + h /\ pos[s].avg = g + h
      BY <2>2, <3>4 DEF Position
    <3>6. d[s] = q * h
      BY <1>5, <2>1, <2>2, <2>3, <3>3
    <3>7. /\ q * h \in Int /\ q * u = q * v + q * h
          /\ q * (e + h) = q * e + q * h /\ q * (g + h) = q * g + q * h
      <4>1. \A k, l, m \in Int : k * l \in Int /\ k * (l + m) = k * l + k * m
        OBVIOUS
      <4>2. u = v + h
        BY <3>3
      <4> QED
        BY <4>1, <4>2
    <3> QED
      BY <1>4, <2>1, <2>2, <3>1, <3>5, <3>6, <3>7
  <2>4. CASE s \notin Rolls(a, bars)
    <3>1. pos[s] = p /\ d[s] = 0 /\ u = v
      BY <1>1, <1>5, <2>1, <2>2, <2>4
    <3>2. q * v = q * v + 0 /\ q * e = q * e + 0 /\ q * g = q * g + 0
      OBVIOUS
    <3> QED
      BY <1>4, <2>1, <2>2, <3>1, <3>2
  <2> QED
    BY <2>3, <2>4
<1> HIDE DEF shift, moved
<1>7. /\ QtyAt(b, x) = QtyAt(a, y) + SumFunctionOnSet(d, Symbols)
      /\ Basis(b) = Basis(a) + SumFunctionOnSet(d, Symbols)
      /\ Cost(b) = Cost(a) + SumFunctionOnSet(d, Symbols)
  <2>1. QtyAt(b, x) = QtyAt(a, y) + SumFunctionOnSet(d, Symbols)
    BY <1>3, <1>6, QtyMoves
  <2>2. Basis(b) = Basis(a) + SumFunctionOnSet(d, Symbols)
    BY <1>3, <1>6, BasisMoves
  <2>3. Cost(b) = Cost(a) + SumFunctionOnSet(d, Symbols)
    BY <1>3, <1>6, CostMoves
  <2> QED
    BY <2>1, <2>2, <2>3
<1>8. PICK n \in Int : n = SumFunctionOnSet(d, Symbols)
  BY <1>6, MarketAssumption, SumRecursion
<1>9. PICK u \in Int, v \in Int, w \in Int : u = QtyAt(a, y) /\ v = Basis(a) /\ w = Cost(a)
  BY MoneySums
<1>10. (u + n) - (v + n) = u - v /\ (v + n) - (w + n) = v - w
  OBVIOUS
<1>11. QtyAt(b, x) - Basis(b) = QtyAt(a, y) - Basis(a) /\ Basis(b) - Cost(b) = Basis(a) - Cost(a)
  BY <1>7, <1>8, <1>9, <1>10
<1>12. Worth(b, x) = Worth(a, y) /\ Paper(b) = Paper(a)
  BY <1>4, <1>11 DEF Worth, Paper
<1> QED
  BY <1>4, <1>6, <1>12

\* Variation margin pays into cash what it takes off the open trade equity.
LEMMA SettledMoney ==
  ASSUME NEW a \in Account, NEW settles \in [Open(a) -> Int], NEW date \in Int,
         NEW x, IsPrices(x), NEW b, b = Settled(a, settles, date)
  PROVE  /\ b \in Account /\ b.whole = a.whole
         /\ Worth(b, x) = Worth(a, x) /\ Paper(b) = Paper(a)
         /\ \A s \in Symbols :
              /\ b.pos[s].settled \in {a.pos[s].settled, date}
              /\ s \in Open(a) /\ a.pos[s].settled # date => b.pos[s].mark = settles[s]
<1>1. PICK due \in SUBSET Symbols : due = {s \in Open(a) : a.pos[s].settled # date}
  BY DEF Open
<1>2. PICK paid : paid = [s \in due |-> LET p == a.pos[s] IN
                            p.qty * (settles[s] - p.basis) * Mult]
  OBVIOUS
<1>3. PICK pos : pos = [s \in Symbols |->
             IF s \in due THEN [a.pos[s] EXCEPT !.basis = settles[s],
                                  !.mark = settles[s], !.settled = date]
                          ELSE a.pos[s]]
  OBVIOUS
<1>4. b = [a EXCEPT !.cash = @ + SumFunction(paid), !.pos = pos]
  BY <1>1, <1>2, <1>3 DEF Settled, Account
<1>5. b \in Account
  BY SettledFacts DEF Repriced
<1>6. PICK d : d = [s \in Symbols |->
             IF s \in due THEN a.pos[s].qty * (settles[s] - a.pos[s].basis) ELSE 0]
  OBVIOUS
<1>7. ASSUME NEW s \in Symbols
      PROVE  /\ d[s] \in Int /\ (s \notin due => d[s] = 0)
             /\ s \in due => paid[s] = d[s] * Mult
             /\ pos[s].qty = a.pos[s].qty /\ pos[s].avg = a.pos[s].avg
             /\ pos[s].qty * pos[s].basis = a.pos[s].qty * a.pos[s].basis + d[s]
             /\ pos[s].settled \in {a.pos[s].settled, date}
             /\ s \in due => pos[s].mark = settles[s]
  <2>1. PICK p \in Position : p = a.pos[s]
    BY DEF Account
  <2>2. PICK q \in Int, e \in Int : q = p.qty /\ e = p.basis
    BY DEF Position
  <2>3. CASE s \in due
    <3>1. PICK u \in Int : u = settles[s]
      BY <1>1, <2>3
    <3>2. pos[s] = [p EXCEPT !.basis = u, !.mark = u, !.settled = date]
      BY <1>3, <2>1, <2>3, <3>1
    <3>3. /\ pos[s].qty = q /\ pos[s].basis = u /\ pos[s].avg = p.avg
          /\ pos[s].settled = date /\ pos[s].mark = u
      BY <2>2, <3>2 DEF Position
    <3>4. d[s] = q * (u - e) /\ paid[s] = q * (u - e) * Mult
      BY <1>2, <1>6, <2>1, <2>2, <2>3, <3>1
    <3>5. q * (u - e) \in Int /\ q * u = q * e + q * (u - e)
      OBVIOUS
    <3> QED
      BY <2>1, <2>2, <2>3, <3>1, <3>3, <3>4, <3>5
  <2>4. CASE s \notin due
    <3>1. pos[s] = p /\ d[s] = 0
      BY <1>3, <1>6, <2>1, <2>4
    <3>2. q * e = q * e + 0
      OBVIOUS
    <3> QED
      BY <2>1, <2>2, <2>4, <3>1, <3>2
  <2> QED
    BY <2>3, <2>4
<1>8. IsFiniteSet(Symbols) /\ IsFiniteSet(due) /\ DOMAIN paid = due /\ Mult \in Int
  BY <1>2, MarketAssumption, FS_Subset, SpecAssumption
<1>9. SumFunctionOnSet(d, Symbols) \in Int /\ SumFunctionOnSet(d, Symbols) = SumFunctionOnSet(d, due)
  <2>1. \A s \in Symbols : d[s] \in Int
    BY <1>7
  <2>2. \A s \in Symbols \ due : d[s] = 0
    BY <1>7
  <2>3. due \subseteq Symbols
    BY <1>2
  <2>4. SumFunctionOnSet(d, Symbols) = SumFunctionOnSet(d, due)
    BY <1>8, <2>1, <2>2, <2>3, SumPart
  <2>5. SumFunctionOnSet(d, Symbols) \in Int
    BY <1>8, <2>1, SumRecursion
  <2> QED
    BY <2>4, <2>5
<1>10. SumFunctionOnSet(paid, due) = SumFunctionOnSet(d, due) * Mult
  <2>1. \A s \in due : d[s] \in Int /\ paid[s] = d[s] * Mult
    BY <1>7
  <2> QED
    BY <1>8, <2>1, SumTimes
<1>11. PICK n \in Int, k \in Int : n = SumFunctionOnSet(d, Symbols) /\ k = n * Mult
  BY <1>8, <1>9
<1>12. /\ b.cash = a.cash + k /\ b.pos = pos /\ b.whole = a.whole
       /\ b.fees = a.fees /\ b.realized = a.realized
  <2>1. SumFunction(paid) = k
    BY <1>8, <1>9, <1>10, <1>11 DEF SumFunction
  <2>2. b = [a EXCEPT !.cash = @ + k, !.pos = pos]
    BY <1>4, <2>1
  <2> QED
    BY <2>2 DEF Account
<1>13. Basis(b) = Basis(a) + n
  <2>1. \A s \in Symbols :
          d[s] \in Int /\ b.pos[s].qty * b.pos[s].basis = a.pos[s].qty * a.pos[s].basis + d[s]
    BY <1>7, <1>12
  <2> QED
    BY <1>5, <1>11, <2>1, BasisMoves
<1>14. QtyAt(b, x) = QtyAt(a, x) /\ Cost(b) = Cost(a)
  BY <1>7, <1>12 DEF QtyAt, Cost
<1>15. PICK u \in Int, v \in Int, w \in Int :
         u = QtyAt(a, x) /\ v = Basis(a) /\ w = Cost(a)
  BY MoneySums
<1>16. \A i, j \in Int : (i + j) * Mult = i * Mult + j * Mult /\ i * Mult \in Int
  BY <1>8
<1>19. \A i, j \in Int : (i - j) * Mult = i * Mult - j * Mult
  BY <1>8
<1>20. a.cash \in Int /\ a.fees \in Int /\ a.realized \in Int
  BY DEF Account
<1>17. Worth(b, x) = Worth(a, x)
  <2>1. PICK e \in Int : e = u - v
    OBVIOUS
  <2>2. QtyAt(b, x) - Basis(b) = e - n
    BY <1>13, <1>14, <1>15, <2>1
  <2>3. Worth(b, x) = a.cash + k + a.fees + (e - n) * Mult /\ Worth(a, x) = a.cash + a.fees + e * Mult
    BY <1>12, <1>15, <2>1, <2>2 DEF Worth
  <2>4. PICK f \in Int : f = e * Mult
    BY <1>16
  <2>5. (e - n) * Mult = f - k
    BY <1>11, <1>19, <2>4
  <2>6. Worth(b, x) = a.cash + k + a.fees + (f - k) /\ Worth(a, x) = a.cash + a.fees + f
    BY <2>3, <2>4, <2>5
  <2> QED
    BY <1>20, <2>6
<1>18. Paper(b) = Paper(a)
  <2>1. PICK e \in Int : e = v - w
    OBVIOUS
  <2>2. Basis(b) - Cost(b) = e + n
    BY <1>13, <1>14, <1>15, <2>1
  <2>3. /\ Paper(b) = a.cash + k + a.fees - a.realized - (e + n) * Mult
        /\ Paper(a) = a.cash + a.fees - a.realized - e * Mult
    BY <1>12, <1>15, <2>1, <2>2 DEF Paper
  <2>4. PICK f \in Int : f = e * Mult
    BY <1>16
  <2>5. (e + n) * Mult = f + k
    BY <1>11, <1>16, <2>4
  <2>6. /\ Paper(b) = a.cash + k + a.fees - a.realized - (f + k)
        /\ Paper(a) = a.cash + a.fees - a.realized - f
    BY <2>3, <2>4, <2>5
  <2> QED
    BY <1>20, <2>6
<1> QED
  BY <1>1, <1>5, <1>7, <1>12, <1>17, <1>18

\* One order at the open brings no money at the prices of the open.
LEMMA OneMoney ==
  ASSUME NEW b \in Account, NEW bars, IsQuote(bars), NEW o \in Orders,
         NEW x, IsPrices(x), \A s \in DOMAIN bars : x[s] = bars[s].open
  PROVE  /\ Kept(b, One(b, o, bars), x)
         /\ \A s \in Symbols \ DOMAIN bars : One(b, o, bars).pos[s] = b.pos[s]
<1>1. CASE One(b, o, bars) = b
  BY <1>1, SameBooksKept DEF SameBooks
<1>2. CASE One(b, o, bars) # b
  <2>1. PICK s \in Symbols, q \in Int, px \in Int :
          s = o.symbol /\ q = o.qty /\ px = bars[s].open /\ s \in DOMAIN bars /\ q # 0
    BY <1>2, SpecAssumption DEF Orders, IsQuote, One
  <2>2. PICK c : c = One(b, o, bars)
    OBVIOUS
  <2>3. c = Filled(b, s, q, px)
    BY <1>2, <2>1, <2>2 DEF One, Executed
  <2>4. c.pos = [b.pos EXCEPT ![s] = After(b.pos[s], q, px)]
    BY <2>1, <2>3, FilledFacts
  <2>5. \A r \in Symbols \ DOMAIN bars : c.pos[r] = b.pos[r]
    BY <2>1, <2>4 DEF Account
  <2>6. Kept(b, c, x)
    BY <2>1, <2>3, FilledKept
  <2> QED
    BY <2>2, <2>5, <2>6
<1> QED
  BY <1>1, <1>2

\* Nor do all of them.
LEMMA MatchedMoney ==
  ASSUME NEW a \in Account, NEW bars, IsQuote(bars), NEW orders \in SeqOf(Orders, MaxOrders),
         NEW x, IsPrices(x), \A s \in DOMAIN bars : x[s] = bars[s].open
  PROVE  /\ Kept(a, Matched(a, orders, bars), x)
         /\ \A s \in Symbols \ DOMAIN bars : Matched(a, orders, bars).pos[s] = a.pos[s]
<1>1. PICK n \in Nat : orders \in [1..n -> Orders]
  BY SpecAssumption DEF SeqOf
<1>2. PICK v : /\ v[0] = a /\ v[n] = Matched(a, orders, bars)
               /\ \A k \in 1..n : v[k] = One(v[k - 1], orders[k], bars)
  BY <1>1, MatchedSteps
<1> DEFINE Good == {k \in 0..n : /\ Kept(a, v[k], x)
                                 /\ \A s \in Symbols \ DOMAIN bars : v[k].pos[s] = a.pos[s]}
<1>3. 0 \in Good
  <2>1. Kept(a, a, x)
    BY SameBooksKept DEF SameBooks
  <2> QED
    BY <1>2, <2>1
<1>4. ASSUME NEW k \in 1..n, k - 1 \in Good PROVE k \in Good
  <2>1. PICK b \in Account, o \in Orders : b = v[k - 1] /\ o = orders[k]
    BY <1>1, <1>4 DEF Kept
  <2>2. v[k] = One(b, o, bars)
    BY <1>2, <2>1
  <2>3. Kept(b, v[k], x) /\ \A s \in Symbols \ DOMAIN bars : v[k].pos[s] = b.pos[s]
    BY <2>2, OneMoney
  <2>4. Kept(a, v[k], x)
    BY <1>4, <2>1, <2>3, KeptTwice
  <2>5. \A s \in Symbols \ DOMAIN bars : v[k].pos[s] = a.pos[s]
    BY <1>4, <2>1, <2>3
  <2> QED
    BY <2>4, <2>5
<1>5. Good = 0..n
  <2> HIDE DEF Good
  <2>1. Good \in SUBSET (0..n)
    BY DEF Good
  <2> QED
    BY <1>3, <1>4, <2>1, IndexInduction
<1> QED
  BY <1>2, <1>5

\* Nor does a liquidation at the prices of the settlement.
LEMMA LiquidatedMoney ==
  ASSUME NEW a \in Account, NEW settles, \A s \in Open(a) : settles[s] \in Int,
         NEW x, IsPrices(x), \A s \in Open(a) : x[s] = settles[s]
  PROVE  Kept(a, Liquidated(a, settles), x)
<1>1. PICK n \in Nat : \E syms \in [1..n -> Open(a)] : \E v :
        /\ \A i, j \in 1..n : syms[i] = syms[j] => i = j
        /\ \A s \in Open(a) : \E i \in 1..n : syms[i] = s
        /\ v[0] = [a EXCEPT !.status = "LIQUIDATION"]
        /\ Liquidated(a, settles) = Checked(v[n])
        /\ \A k \in 1..n : v[k] = Close(v[k - 1], syms[k], settles)
  BY ClosedSteps
<1>8. PICK syms \in [1..n -> Open(a)] : \E v :
        /\ v[0] = [a EXCEPT !.status = "LIQUIDATION"]
        /\ Liquidated(a, settles) = Checked(v[n])
        /\ \A k \in 1..n : v[k] = Close(v[k - 1], syms[k], settles)
  BY <1>1
<1>2. PICK v : /\ v[0] = [a EXCEPT !.status = "LIQUIDATION"]
               /\ Liquidated(a, settles) = Checked(v[n])
               /\ \A k \in 1..n : v[k] = Close(v[k - 1], syms[k], settles)
  BY <1>8
<1> DEFINE Good == {k \in 0..n : Kept(a, v[k], x)}
<1>3. 0 \in Good
  <2>1. SameBooks(a, v[0])
    BY <1>2 DEF SameBooks, Account
  <2> QED
    BY <2>1, SameBooksKept
<1>4. ASSUME NEW k \in 1..n, k - 1 \in Good PROVE k \in Good
  <2>1. PICK b \in Account : b = v[k - 1]
    BY <1>4 DEF Kept
  <2>2. PICK s \in Symbols, px \in Int : s = syms[k] /\ px = settles[s] /\ x[s] = px
    BY DEF Open
  <2>3. PICK q \in Int : q = -b.pos[s].qty /\ (q # 0 \/ b.pos[s].qty = 0)
    <3>1. b.pos[s].qty \in Int
      BY DEF Account, Position
    <3> QED
      BY <3>1
  <2>4. v[k] = Filled(b, s, q, px)
    BY <1>2, <2>1, <2>2, <2>3 DEF Close
  <2>5. Kept(b, v[k], x)
    BY <2>2, <2>3, <2>4, FilledKept
  <2> QED
    BY <1>4, <2>1, <2>5, KeptTwice
<1>5. Good = 0..n
  <2> HIDE DEF Good
  <2>1. Good \in SUBSET (0..n)
    BY DEF Good
  <2> QED
    BY <1>3, <1>4, <2>1, IndexInduction
<1>6. Kept(a, v[n], x) /\ v[n] \in Account
  BY <1>5 DEF Kept
<1>7. Kept(v[n], Checked(v[n]), x)
  BY <1>6, CheckedBooks, SameBooksKept
<1> QED
  BY <1>2, <1>6, <1>7, KeptTwice

\* The end of a session leaves t of account m: no money came or went at the
\* prices x, to which the open positions are marked.
SettledAs(m, t, x, date) ==
  /\ t \in Account
  /\ t.whole => m.whole /\ Worth(t, x) = Worth(m, x) /\ Paper(t) = Paper(m)
  /\ \A s \in Symbols : t.pos[s].settled \in {m.pos[s].settled, date, -1}
  /\ \A s \in Open(t) : t.pos[s].mark = x[s]

\* What a settlement moves: it pays the variation margin, and what it liquidates
\* is closed at the prices of the settlement.
LEMMA SettlementMoney ==
  ASSUME NEW m \in Account, Tidy(m), NEW settles \in [Open(m) -> Int], NEW date \in Int,
         NEW x, IsPrices(x),
         \A s \in Open(m) : x[s] = settles[s] /\ m.pos[s].settled # date,
         NEW t, t = AfterSettlement(m, settles, date)
  PROVE  SettledAs(m, t, x, date)
<1>1. PICK n : n = Settled(m, settles, date)
  OBVIOUS
<1>2. PICK k : k = Checked(n)
  OBVIOUS
<1>3. PICK c : c = Counted(k)
  OBVIOUS
<1>4. t = IF Overdue(c) /\ c.status # "NORMAL" /\ Open(c) # {}
          THEN Liquidated(c, settles) ELSE c
  BY <1>1, <1>2, <1>3 DEF AfterSettlement
<1>5. /\ n \in Account /\ n.whole = m.whole
      /\ Worth(n, x) = Worth(m, x) /\ Paper(n) = Paper(m)
      /\ \A s \in Symbols :
           /\ n.pos[s].settled \in {m.pos[s].settled, date}
           /\ s \in Open(m) /\ m.pos[s].settled # date => n.pos[s].mark = settles[s]
  BY <1>1, SettledMoney
<1>6. Open(n) = Open(m) /\ Tidy(n)
  BY <1>1, SettledFacts, RepricedFacts
<1>7. SameBooks(n, k) /\ k.pos = n.pos /\ k \in Account
  BY <1>2, <1>5, CheckedBooks DEF SameBooks
<1>8. SameBooks(k, c) /\ c.pos = k.pos /\ c \in Account
  BY <1>3, <1>7, CheckedBooks DEF SameBooks
<1>9. Kept(n, c, x)
  BY <1>5, <1>7, <1>8, SameBooksTwice, SameBooksKept
<1>10. Open(c) = Open(m) /\ Tidy(c)
  BY <1>6, <1>7, <1>8 DEF Open, Tidy
<1>11. \A s \in Open(c) : settles[s] \in Int /\ x[s] = settles[s] /\ c.pos[s].mark = x[s]
  BY <1>5, <1>7, <1>8, <1>10 DEF Open
<1>12. Kept(n, t, x) /\ \A s \in Open(t) : t.pos[s].mark = x[s]
  <2>1. CASE t = c
    BY <1>9, <1>11, <2>1
  <2>2. CASE t = Liquidated(c, settles)
    <3>1. Kept(c, t, x)
      BY <1>8, <1>11, <2>2, LiquidatedMoney
    <3>2. PICK f \in Account : t = Checked(f) /\ \A s \in Symbols : f.pos[s] = NoPosition
      BY <1>8, <1>10, <1>11, <2>2, LiquidatedFacts
    <3>3. t.pos = f.pos
      BY <3>2, CheckedFacts
    <3>4. Open(t) = {}
      BY <3>2, <3>3 DEF Open, NoPosition
    <3> QED
      BY <1>9, <3>1, <3>4, KeptTwice
  <2> QED
    BY <1>4, <2>1, <2>2
<1> QED
  BY <1>5, <1>12 DEF Kept, SettledAs

\* What the contracts gained in a bar that left m of account a.
GainIs(g, a, m, bars, x, w, z) ==
  \A s \in Symbols :
    g[s] = a.pos[s].qty * (w[s] - x[s])
           + (IF s \in DOMAIN bars
              THEN (m.pos[s].qty - a.pos[s].qty) * (bars[s].close - bars[s].open) ELSE 0)
           + m.pos[s].qty * (z[s] - w[s])

\* The trades m of account a moved that gain and no other money, settled nothing,
\* and left the open positions marked to the prices w.
TradedAs(a, m, y, w, z, g) ==
  /\ m \in Account
  /\ SumFunctionOnSet(g, Symbols) \in Int
  /\ m.whole => /\ a.whole /\ Paper(m) = Paper(a)
                /\ Worth(m, z) = Worth(a, y) + SumFunctionOnSet(g, Symbols) * Mult
  /\ \A s \in Symbols : m.pos[s].settled \in {a.pos[s].settled, -1}
  /\ \A s \in Open(m) : m.pos[s].mark = w[s]

\* What the trades of a bar move.  Account a is valued at the prices y, with a
\* roll at x, its trades m at z; g is what the contracts gained.
LEMMA TradedMoney ==
  ASSUME NEW a \in Account, Tidy(a), Known(a), NEW bars, IsQuote(bars),
         NEW orders \in SeqOf(Orders, MaxOrders), NEW m, m = Traded(a, bars, orders),
         NEW y, IsPrices(y), \A s \in Open(a) : a.pos[s].mark = y[s] /\ y[s] # 0,
         NEW x, \A s \in Symbols : x[s] = IF s \in Rolls(a, bars) THEN bars[s].open ELSE y[s],
         NEW w, \A s \in Symbols : w[s] = IF s \in DOMAIN bars THEN bars[s].close ELSE y[s],
         NEW z, IsPrices(z), NEW g, GainIs(g, a, m, bars, x, w, z)
  PROVE  TradedAs(a, m, y, w, z, g)
<1>1. PICK b : b = Rolled(a, bars)
  OBVIOUS
<1>2. PICK c : c = Marked(b, bars)
  OBVIOUS
<1>3. PICK d : d = Matched(c, orders, bars)
  OBVIOUS
<1>4. PICK e : e = Marked(d, bars)
  OBVIOUS
<1>5. m = Tagged(e, bars)
  BY <1>1, <1>2, <1>3, <1>4 DEF Traded
<1>6. PICK o : o = [s \in Symbols |-> IF s \in DOMAIN bars THEN bars[s].open ELSE y[s]]
  OBVIOUS
<1>7. IsPrices(x) /\ IsPrices(w) /\ IsPrices(o)
  BY <1>6 DEF IsPrices, IsQuote, Rolls, Open
<1>8. m \in Account
  BY TradedFacts
<1>9. /\ b.whole = a.whole /\ Worth(b, x) = Worth(a, y) /\ Paper(b) = Paper(a)
      /\ \A s \in Symbols : /\ b.pos[s].qty = a.pos[s].qty
                            /\ b.pos[s].settled = a.pos[s].settled
                            /\ s \notin DOMAIN bars => b.pos[s] = a.pos[s]
  BY <1>1, <1>7, RolledMoney
<1>10. b \in Account
  BY <1>1, RolledFacts DEF Repriced
<1>11. /\ SameBooks(b, c) /\ c \in Account
       /\ \A s \in Symbols : c.pos[s].mark =
            IF s \in Open(b) \cap DOMAIN bars THEN bars[s].close ELSE b.pos[s].mark
  BY <1>2, <1>10, MarkedBooks DEF SameBooks
<1>12. /\ Kept(c, d, o) /\ d \in Account
       /\ \A s \in Symbols \ DOMAIN bars : d.pos[s] = c.pos[s]
  <2>1. \A s \in DOMAIN bars : o[s] = bars[s].open
    BY <1>6 DEF IsQuote
  <2> QED
    BY <1>3, <1>7, <1>11, <2>1, MatchedMoney DEF Kept
<1>13. /\ SameBooks(d, e) /\ e \in Account
       /\ \A s \in Symbols : e.pos[s].mark =
            IF s \in Open(d) \cap DOMAIN bars THEN bars[s].close ELSE d.pos[s].mark
  BY <1>4, <1>12, MarkedBooks DEF SameBooks
<1>14. SameBooks(e, m) /\ \A s \in Symbols : m.pos[s].mark = e.pos[s].mark
  BY <1>5, <1>8, <1>13, TaggedBooks
<1>15. SameBooks(d, m)
  BY <1>13, <1>14, SameBooksTwice
<1>16. Kept(b, c, x) /\ Kept(c, d, o) /\ Kept(d, m, o)
  BY <1>10, <1>11, <1>12, <1>15, SameBooksKept
<1>17. \A s \in Symbols : c.pos[s].qty = a.pos[s].qty /\ c.pos[s].settled = a.pos[s].settled
  BY <1>9, <1>11 DEF SameBooks
<1>18. \A s \in Symbols : m.pos[s].settled \in {a.pos[s].settled, -1}
  BY <1>15, <1>16, <1>17 DEF Kept, SameBooks
<1>19. ASSUME NEW s \in Open(m) PROVE m.pos[s].mark = w[s]
  <2>1. s \in Symbols /\ s \in Open(d)
    BY <1>15 DEF Open, SameBooks
  <2>2. CASE s \in DOMAIN bars
    BY <1>13, <1>14, <2>1, <2>2
  <2>3. CASE s \notin DOMAIN bars
    <3>1. m.pos[s].mark = d.pos[s].mark /\ d.pos[s] = c.pos[s]
      BY <1>12, <1>13, <1>14, <2>1, <2>3
    <3>2. c.pos[s].mark = a.pos[s].mark
      BY <1>9, <1>11, <2>1, <2>3
    <3>3. s \in Open(a)
      BY <1>17, <2>1, <3>1 DEF Open
    <3> QED
      BY <2>1, <2>3, <3>1, <3>2, <3>3
  <2> QED
    BY <2>2, <2>3
<1>20. PICK i : i = [s \in Symbols |-> c.pos[s].qty * (o[s] - x[s])]
  OBVIOUS
<1>21. PICK j : j = [s \in Symbols |-> m.pos[s].qty * (z[s] - o[s])]
  OBVIOUS
<1>22. /\ SumFunctionOnSet(i, Symbols) \in Int /\ Worth(c, x) \in Int
       /\ Worth(c, o) = Worth(c, x) + SumFunctionOnSet(i, Symbols) * Mult
  <2>1. \A s \in Symbols : i[s] = c.pos[s].qty * (o[s] - x[s])
    BY <1>20
  <2> QED
    BY <1>7, <1>11, <2>1, Revalued
<1>23. /\ SumFunctionOnSet(j, Symbols) \in Int /\ Worth(m, o) \in Int
       /\ Worth(m, z) = Worth(m, o) + SumFunctionOnSet(j, Symbols) * Mult
  <2>1. \A s \in Symbols : j[s] = m.pos[s].qty * (z[s] - o[s])
    BY <1>21
  <2>2. PICK n \in Account : n = m
    BY <1>8
  <2>3. /\ SumFunctionOnSet(j, Symbols) \in Int /\ Worth(n, o) \in Int
        /\ Worth(n, z) = Worth(n, o) + SumFunctionOnSet(j, Symbols) * Mult
    <3>1. \A s \in Symbols : j[s] = n.pos[s].qty * (z[s] - o[s])
      BY <2>1, <2>2
    <3>2. IsPrices(o) /\ IsPrices(z)
      BY <1>7
    <3> HIDE <2>2
    <3> QED
      BY <3>1, <3>2, Revalued
  <2> QED
    BY <2>2, <2>3
<1>24. ASSUME NEW s \in Symbols
       PROVE  i[s] \in Int /\ j[s] \in Int /\ g[s] = i[s] + j[s]
  <2>1. PICK n \in Int, q \in Int : n = a.pos[s].qty /\ q = m.pos[s].qty
    BY <1>8 DEF Account, Position
  <2>2. PICK X \in Int, O \in Int, W \in Int, Z \in Int :
          X = x[s] /\ O = o[s] /\ W = w[s] /\ Z = z[s]
    BY <1>7 DEF IsPrices
  <2>3. i[s] = n * (O - X) /\ j[s] = q * (Z - O)
    BY <1>17, <1>20, <1>21, <2>1, <2>2
  <2>4. i[s] \in Int /\ j[s] \in Int
    BY <2>3
  <2>5. CASE s \in DOMAIN bars
    <3>1. O = bars[s].open /\ W = bars[s].close
      BY <1>6, <2>2, <2>5
    <3>2. g[s] = n * (W - X) + (q - n) * (W - O) + q * (Z - W)
      BY <2>1, <2>2, <2>5, <3>1 DEF GainIs
    <3>3. n * (W - X) + (q - n) * (W - O) + q * (Z - W) = n * (O - X) + q * (Z - O)
      OBVIOUS
    <3> QED
      BY <2>3, <2>4, <3>2, <3>3
  <2>6. CASE s \notin DOMAIN bars
    <3>1. O = y[s] /\ W = y[s] /\ X = y[s]
      BY <1>6, <2>2, <2>6 DEF Rolls
    <3>2. g[s] = n * (W - X) + 0 + q * (Z - W)
      BY <2>1, <2>2, <2>6 DEF GainIs
    <3>3. X = O /\ W = O
      BY <3>1
    <3>4. n * (O - O) + 0 + q * (Z - O) = n * (O - O) + q * (Z - O)
      OBVIOUS
    <3> QED
      BY <2>3, <2>4, <3>2, <3>3, <3>4
  <2> QED
    BY <2>5, <2>6
<1>25. SumFunctionOnSet(g, Symbols) = SumFunctionOnSet(i, Symbols) + SumFunctionOnSet(j, Symbols)
  <2>1. PICK f : f = g
    OBVIOUS
  <2>2. \A s \in Symbols : i[s] \in Int /\ j[s] \in Int /\ f[s] = i[s] + j[s]
    BY <1>24, <2>1
  <2>3. IsFiniteSet(Symbols)
    BY MarketAssumption
  <2>4. SumFunctionOnSet(f, Symbols) = SumFunctionOnSet(i, Symbols) + SumFunctionOnSet(j, Symbols)
    BY <2>2, <2>3, SumPlus
  <2> QED
    BY <2>1, <2>4
<1>26. PICK I \in Int, J \in Int : I = SumFunctionOnSet(i, Symbols) /\ J = SumFunctionOnSet(j, Symbols)
  BY <1>22, <1>23
<1>27. m.whole => /\ a.whole /\ Paper(m) = Paper(a)
                  /\ Worth(m, o) = Worth(c, o) /\ Worth(c, x) = Worth(a, y)
  BY <1>9, <1>16 DEF Kept
<1>28. (I + J) * Mult = I * Mult + J * Mult /\ I * Mult \in Int /\ J * Mult \in Int
  <2>1. Mult \in Int
    BY SpecAssumption
  <2> QED
    BY <2>1
<1>29. PICK E \in Int, F \in Int : E = I * Mult /\ F = J * Mult
  BY <1>28
<1>30. SumFunctionOnSet(g, Symbols) \in Int /\ SumFunctionOnSet(g, Symbols) * Mult = E + F
  BY <1>25, <1>26, <1>28, <1>29
<1>31. Worth(c, o) = Worth(c, x) + E /\ Worth(m, z) = Worth(m, o) + F
  BY <1>22, <1>23, <1>26, <1>29
<1>32. m.whole => Worth(m, z) = Worth(a, y) + SumFunctionOnSet(g, Symbols) * Mult
  BY <1>22, <1>23, <1>27, <1>30, <1>31
<1> QED
  BY <1>8, <1>18, <1>19, <1>27, <1>30, <1>32 DEF TradedAs

-----------------------------------------------------------------------------
(* Money: the invariant.                                                   *)

\* Account a after bar i, whose positions have gained n in all at the market y:
\* every open position is marked to it and none was settled on a date to come;
\* what it is worth is the initial cash and that gain, and what cash would be
\* without fees, profits and variation margin is the initial cash.
Sound(a, y, i, n) ==
  /\ n \in Int
  /\ \A s \in Open(a) : a.pos[s].mark = y[s]
  /\ \A s \in Symbols, b \in Bars : i < b => a.pos[s].settled < SessionDate[b]
  /\ a.whole => Worth(a, y) = InitialCash + n /\ Paper(a) = InitialCash

MoneyInv == Sound(acct, market, idx, gain)

\* The date of a session that ends does not come back.
LEMMA SessionsGrow ==
  ASSUME NEW b \in Bars, EndsSession(b), NEW e \in Bars, b < e
  PROVE  SessionDate[b] < SessionDate[e]
<1>1. LastBar \in Nat /\ b \in Int /\ e \in Int /\ e <= LastBar /\ b >= 0
  BY SessionAssumption DEF Bars
<1>2. CASE Daily
  BY <1>2, SessionAssumption
<1>3. CASE ~ Daily
  <2>1. SessionDate[b + 1] # SessionDate[b]
    BY <1>3 DEF EndsSession
  <2>2. PICK c \in Bars : c = b + 1 /\ b < c /\ (c < e \/ c = e)
    BY <1>1 DEF Bars
  <2>3. SessionDate[b] <= SessionDate[c] /\ (c < e => SessionDate[c] <= SessionDate[e])
    BY <2>2, SessionAssumption
  <2>4. SessionDate[b] \in Int /\ SessionDate[c] \in Int /\ SessionDate[e] \in Int
    BY SessionAssumption
  <2> QED
    BY <2>1, <2>2, <2>3, <2>4
<1> QED
  BY <1>2, <1>3

\* Equity is worth, less the fees that were paid.
LEMMA EquityIsWorth ==
  ASSUME NEW a \in Account, NEW y, IsPrices(y),
         \A s \in Open(a) : a.pos[s].mark = y[s] /\ a.pos[s].basis # 0
  PROVE  Equity(a) = Worth(a, y) - a.fees
<1>1. PICK f, g, h : /\ f = [s \in Symbols |-> a.pos[s].qty * y[s]]
                     /\ g = [s \in Symbols |-> a.pos[s].qty * a.pos[s].basis]
                     /\ h = [s \in Symbols |-> f[s] - g[s]]
  OBVIOUS
<1>2. PICK w : w = [s \in Symbols |-> LET p == a.pos[s] IN
                      p.qty * (p.mark - Or(p.basis, p.avg)) * Mult]
  OBVIOUS
<1>3. Mult \in Int /\ IsFiniteSet(Symbols)
  BY SpecAssumption, MarketAssumption
<1>4. ASSUME NEW s \in Symbols
      PROVE  h[s] \in Int /\ g[s] \in Int /\ f[s] = h[s] + g[s] /\ w[s] = h[s] * Mult
  <2>1. PICK p \in Position : p = a.pos[s]
    BY DEF Account
  <2>2. PICK q \in Int, e \in Int, u \in Int, v \in Int, k \in Int :
          q = p.qty /\ e = p.basis /\ u = y[s] /\ v = p.avg /\ k = p.mark
    BY DEF Position, IsPrices
  <2>3. f[s] = q * u /\ g[s] = q * e /\ h[s] = q * u - q * e
    BY <1>1, <2>1, <2>2
  <2>4. w[s] = q * (k - Or(e, v)) * Mult
    BY <1>2, <2>1, <2>2
  <2>5. h[s] \in Int /\ g[s] \in Int /\ f[s] = h[s] + g[s]
    BY <2>3
  <2>6. CASE q = 0
    <3>1. h[s] = 0 /\ Or(e, v) \in Int
      BY <2>3, <2>6 DEF Or
    <3>2. \A i \in Int : 0 * i * Mult = 0 * Mult
      BY <1>3
    <3>3. k - Or(e, v) \in Int
      BY <3>1
    <3> QED
      BY <2>4, <2>5, <2>6, <3>1, <3>2, <3>3
  <2>7. CASE q # 0
    <3>1. k = u /\ e # 0
      BY <2>1, <2>2, <2>7 DEF Open
    <3>2. w[s] = q * (u - e) * Mult
      BY <2>4, <3>1 DEF Or
    <3>3. q * (u - e) = q * u - q * e
      OBVIOUS
    <3> QED
      BY <2>3, <2>5, <3>2, <3>3
  <2> QED
    BY <2>6, <2>7
<1>5. /\ SumFunctionOnSet(h, Symbols) \in Int /\ SumFunctionOnSet(g, Symbols) \in Int
      /\ SumFunctionOnSet(f, Symbols) = SumFunctionOnSet(h, Symbols) + SumFunctionOnSet(g, Symbols)
  <2>1. \A s \in Symbols : h[s] \in Int /\ g[s] \in Int /\ f[s] = h[s] + g[s]
    BY <1>4
  <2> QED
    BY <1>3, <2>1, SumPlus
<1>6. SumFunctionOnSet(w, Symbols) = SumFunctionOnSet(h, Symbols) * Mult
  <2>1. \A s \in Symbols : h[s] \in Int /\ w[s] = h[s] * Mult
    BY <1>4
  <2> QED
    BY <1>3, <2>1, SumTimes
<1>7. QtyAt(a, y) - Basis(a) = SumFunctionOnSet(h, Symbols)
  BY <1>1, <1>5 DEF QtyAt, Basis
<1>8. SumFunction(w) = SumFunctionOnSet(w, Symbols)
  <2>1. DOMAIN w = Symbols
    BY <1>2
  <2> QED
    BY <2>1 DEF SumFunction
<1>9. PICK n \in Int : n = SumFunctionOnSet(h, Symbols) * Mult
  BY <1>3, <1>5
<1>10. Equity(a) = a.cash + n /\ Worth(a, y) = a.cash + a.fees + n
  BY <1>2, <1>6, <1>7, <1>8, <1>9 DEF Equity, Worth
<1>11. a.cash \in Int /\ a.fees \in Int
  BY DEF Account
<1> QED
  BY <1>10, <1>11

\* What variation margin has paid so far of the open positions.
LEMMA VariationPaid ==
  ASSUME NEW a \in Account
  PROVE  /\ Basis(a) \in Int /\ Cost(a) \in Int
         /\ SumFunction([s \in Symbols |->
              a.pos[s].qty * (a.pos[s].basis - a.pos[s].avg) * Mult])
            = (Basis(a) - Cost(a)) * Mult
<1>1. PICK f, g, h : /\ f = [s \in Symbols |-> a.pos[s].qty * a.pos[s].basis]
                     /\ g = [s \in Symbols |-> a.pos[s].qty * a.pos[s].avg]
                     /\ h = [s \in Symbols |-> f[s] - g[s]]
  OBVIOUS
<1>2. PICK w : w = [s \in Symbols |-> a.pos[s].qty * (a.pos[s].basis - a.pos[s].avg) * Mult]
  OBVIOUS
<1>3. Mult \in Int /\ IsFiniteSet(Symbols)
  BY SpecAssumption, MarketAssumption
<1>4. ASSUME NEW s \in Symbols
      PROVE  /\ h[s] \in Int /\ g[s] \in Int /\ f[s] \in Int
             /\ f[s] = h[s] + g[s] /\ w[s] = h[s] * Mult
  <2>1. PICK q \in Int, e \in Int, v \in Int :
          q = a.pos[s].qty /\ e = a.pos[s].basis /\ v = a.pos[s].avg
    BY DEF Account, Position
  <2>2. f[s] = q * e /\ g[s] = q * v /\ h[s] = q * e - q * v /\ w[s] = q * (e - v) * Mult
    BY <1>1, <1>2, <2>1
  <2>3. q * (e - v) = q * e - q * v /\ q * e \in Int /\ q * v \in Int
    OBVIOUS
  <2> QED
    BY <2>2, <2>3
<1>5. /\ SumFunctionOnSet(h, Symbols) \in Int /\ SumFunctionOnSet(g, Symbols) \in Int
      /\ SumFunctionOnSet(f, Symbols) = SumFunctionOnSet(h, Symbols) + SumFunctionOnSet(g, Symbols)
  <2>1. \A s \in Symbols : h[s] \in Int /\ g[s] \in Int /\ f[s] = h[s] + g[s]
    BY <1>4
  <2> QED
    BY <1>3, <2>1, SumPlus
<1>6. SumFunctionOnSet(w, Symbols) = SumFunctionOnSet(h, Symbols) * Mult
  <2>1. \A s \in Symbols : h[s] \in Int /\ w[s] = h[s] * Mult
    BY <1>4
  <2> QED
    BY <1>3, <2>1, SumTimes
<1>7. /\ Basis(a) = SumFunctionOnSet(f, Symbols) /\ Cost(a) = SumFunctionOnSet(g, Symbols)
      /\ Basis(a) - Cost(a) = SumFunctionOnSet(h, Symbols)
  BY <1>1, <1>5 DEF Basis, Cost
<1>8. SumFunction(w) = SumFunctionOnSet(w, Symbols)
  <2>1. DOMAIN w = Symbols
    BY <1>2
  <2> QED
    BY <2>1 DEF SumFunction
<1> QED
  BY <1>2, <1>5, <1>6, <1>7, <1>8

\* Every bar keeps an account sound.
LEMMA TickMoney ==
  ASSUME IInv, MoneyInv, Tick
  PROVE  MoneyInv'
<1>1. PICK b, bars, orders, settles : IsBar(b, bars, orders, settles)
  BY TickBar
<1>2. PICK m : m = Traded(acct, bars, orders)
  OBVIOUS
<1>3. /\ b \in Bars /\ b = idx + 1 /\ idx' = b /\ IsQuote(bars)
      /\ \A s \in DOMAIN bars : bars[s].close \in Prices
      /\ orders \in SeqOf(Orders, MaxOrders)
      /\ EndsSession(b) => settles \in [Open(m) -> Prices]
      /\ Finish(m, b, bars, settles)
  BY <1>1, <1>2 DEF IsBar
<1>4. PICK a \in Account : /\ a = acct /\ Tidy(a) /\ Known(a) /\ Sound(a, market, idx, gain)
  BY DEF IInv, CallInv, MoneyInv
<1>5. PICK y \in [Symbols -> Prices] : y = market
  BY DEF IInv
<1>6. PICK st \in BOOLEAN : st = (Open(m) # {} /\ EndsSession(b))
  OBVIOUS
<1>7. PICK t : t = IF st THEN AfterSettlement(m, settles, SessionDate[b]) ELSE m
  OBVIOUS
<1>8. PICK w : w = [s \in Symbols |-> IF s \in DOMAIN bars THEN bars[s].close ELSE y[s]]
  OBVIOUS
<1>9. PICK x : x = [s \in Symbols |-> IF s \in Rolls(a, bars) THEN bars[s].open ELSE y[s]]
  OBVIOUS
<1>10. PICK z : z = [s \in Symbols |-> IF st /\ s \in Open(m) THEN settles[s] ELSE w[s]]
  OBVIOUS
<1>11. \A s \in Symbols : At(s, bars) = w[s]
  BY <1>5, <1>8 DEF At
<1>12. PICK g : g = [s \in Symbols |->
           Move(s, acct, m, bars)
           + (IF st /\ s \in Open(m) THEN m.pos[s].qty * (settles[s] - At(s, bars)) ELSE 0)]
  OBVIOUS
<1>13. acct' = Checked(t) /\ market' = z /\ gain' = gain + Mult * SumFunction(g)
  BY <1>6, <1>7, <1>10, <1>11, <1>12, <1>3 DEF Finish
<1>14. \A i \in Prices : i \in Int /\ i # 0
  BY PricesAreInt, MarketAssumption
<1>15. IsPrices(y) /\ IsPrices(w) /\ (\A s \in Open(a) : a.pos[s].mark = y[s] /\ y[s] # 0)
  BY <1>3, <1>4, <1>5, <1>8, <1>14 DEF IsPrices, Sound, Open
<1>16. st => settles \in [Open(m) -> Int]
  BY <1>3, <1>6, <1>14
<1>17. IsPrices(z) /\ (st => \A s \in Open(m) : z[s] = settles[s])
  BY <1>10, <1>15, <1>16 DEF IsPrices, Open
<1>18. m \in Account /\ Tidy(m)
  BY <1>2, <1>3, <1>4, TradedFacts
<1>19. ASSUME NEW s \in Symbols
       PROVE  g[s] = a.pos[s].qty * (w[s] - x[s])
                     + (IF s \in DOMAIN bars
                        THEN (m.pos[s].qty - a.pos[s].qty) * (bars[s].close - bars[s].open) ELSE 0)
                     + m.pos[s].qty * (z[s] - w[s])
  <2>1. Move(s, acct, m, bars) = a.pos[s].qty * (w[s] - x[s])
          + (IF s \in DOMAIN bars
             THEN (m.pos[s].qty - a.pos[s].qty) * (bars[s].close - bars[s].open) ELSE 0)
    BY <1>4, <1>5, <1>9, <1>11 DEF Move
  <2>2. (IF st /\ s \in Open(m) THEN m.pos[s].qty * (settles[s] - At(s, bars)) ELSE 0)
          = m.pos[s].qty * (z[s] - w[s])
    <3>1. PICK q \in Int, u \in Int : q = m.pos[s].qty /\ u = w[s]
      BY <1>15, <1>18 DEF Account, Position, IsPrices
    <3>2. q * (u - u) = 0
      OBVIOUS
    <3> QED
      BY <1>10, <1>11, <3>1, <3>2
  <2> QED
    BY <1>12, <2>1, <2>2
<1>20. /\ SumFunctionOnSet(g, Symbols) \in Int
       /\ m.whole => /\ a.whole /\ Paper(m) = Paper(a)
                     /\ Worth(m, z) = Worth(a, y) + SumFunctionOnSet(g, Symbols) * Mult
       /\ \A s \in Symbols : m.pos[s].settled \in {a.pos[s].settled, -1}
       /\ \A s \in Open(m) : m.pos[s].mark = w[s]
  <2>1. \A s \in Symbols : x[s] = IF s \in Rolls(a, bars) THEN bars[s].open ELSE y[s]
    BY <1>9
  <2>2. \A s \in Symbols : w[s] = IF s \in DOMAIN bars THEN bars[s].close ELSE y[s]
    BY <1>8
  <2>3. m = Traded(a, bars, orders)
    BY <1>2, <1>4
  <2>4. GainIs(g, a, m, bars, x, w, z)
    BY <1>19 DEF GainIs
  <2>5. /\ Tidy(a) /\ Known(a) /\ IsQuote(bars) /\ IsPrices(y) /\ IsPrices(z)
        /\ orders \in SeqOf(Orders, MaxOrders)
        /\ \A s \in Open(a) : a.pos[s].mark = y[s] /\ y[s] # 0
    BY <1>3, <1>4, <1>15, <1>17
  <2>6. TradedAs(a, m, y, w, z, g)
    BY <2>1, <2>2, <2>3, <2>4, <2>5, TradedMoney
  <2> QED
    BY <2>6 DEF TradedAs
<1>21. ASSUME NEW s \in Symbols PROVE m.pos[s].settled < SessionDate[b]
  <2>1. idx < b /\ SessionDate[b] \in Nat
    BY <1>3, SessionAssumption DEF IInv
  <2>2. a.pos[s].settled < SessionDate[b]
    BY <1>3, <1>4, <2>1 DEF Sound
  <2> QED
    BY <1>20, <2>1, <2>2
<1>22. /\ t \in Account
       /\ t.whole => m.whole /\ Worth(t, z) = Worth(m, z) /\ Paper(t) = Paper(m)
       /\ \A s \in Symbols : \/ t.pos[s].settled \in {a.pos[s].settled, -1}
                             \/ EndsSession(b) /\ t.pos[s].settled = SessionDate[b]
       /\ \A s \in Open(t) : t.pos[s].mark = z[s]
  <2>1. CASE st
    <3>1. t = AfterSettlement(m, settles, SessionDate[b]) /\ EndsSession(b)
      BY <1>6, <1>7, <2>1
    <3>2. PICK date \in Int : date = SessionDate[b]
      BY <1>3, SessionAssumption
    <3>3. \A s \in Open(m) : z[s] = settles[s] /\ m.pos[s].settled # date
      <4>1. \A s \in Symbols : m.pos[s].settled # date
        BY <1>18, <1>21, <3>2 DEF Account, Position
      <4> QED
        BY <1>17, <2>1, <4>1 DEF Open
    <3>4. settles \in [Open(m) -> Int] /\ t = AfterSettlement(m, settles, date)
      BY <1>16, <2>1, <3>1, <3>2
    <3>5. IsPrices(z)
      BY <1>17
    <3>6. SettledAs(m, t, z, date)
      BY <1>18, <3>3, <3>4, <3>5, SettlementMoney
    <3> QED
      BY <1>20, <3>1, <3>2, <3>6 DEF SettledAs
  <2>2. CASE ~ st
    <3>1. t = m /\ \A s \in Symbols : z[s] = w[s]
      BY <1>7, <1>10, <2>2
    <3> QED
      BY <1>18, <1>20, <3>1 DEF Open
  <2> QED
    BY <2>1, <2>2
<1>23. PICK c \in Account : c = acct' /\ SameBooks(t, c) /\ c.pos = t.pos
  BY <1>13, <1>22, CheckedBooks DEF SameBooks
<1>24. Kept(t, c, z)
  BY <1>22, <1>23, SameBooksKept
<1>25. \A s \in Open(c) : c.pos[s].mark = z[s]
  BY <1>22, <1>23 DEF Open
<1>26. ASSUME NEW s \in Symbols, NEW e \in Bars, b < e
       PROVE  c.pos[s].settled < SessionDate[e]
  <2>1. idx < e /\ SessionDate[e] \in Nat /\ SessionDate[b] \in Nat
    <3>1. idx \in Int /\ b \in Int /\ e \in Int /\ b = idx + 1
      BY <1>3, SessionAssumption DEF IInv, Bars
    <3>2. SessionDate[e] \in Nat /\ SessionDate[b] \in Nat
      BY <1>3, SessionAssumption
    <3> QED
      BY <1>26, <3>1, <3>2
  <2>2. a.pos[s].settled < SessionDate[e]
    BY <1>4, <2>1 DEF Sound
  <2>3. EndsSession(b) => SessionDate[b] < SessionDate[e]
    BY <1>3, <1>26, SessionsGrow
  <2> QED
    BY <1>22, <1>23, <2>1, <2>2, <2>3
<1>27. PICK n \in Int : n = SumFunctionOnSet(g, Symbols) * Mult /\ gain' = gain + n
  <2>1. PICK k \in Int : k = SumFunctionOnSet(g, Symbols)
    BY <1>20
  <2>2. SumFunction(g) = k
    <3>1. DOMAIN g = Symbols
      BY <1>12
    <3> QED
      BY <2>1, <3>1 DEF SumFunction
  <2>3. Mult \in Int
    BY SpecAssumption
  <2>4. Mult * k = k * Mult /\ k * Mult \in Int
    BY <2>3
  <2> QED
    BY <1>13, <2>1, <2>2, <2>4
<1>28. gain \in Int /\ (a.whole => Worth(a, y) = InitialCash + gain /\ Paper(a) = InitialCash)
  BY <1>4, <1>5 DEF Sound
<1>29. c.whole => Worth(c, z) = InitialCash + gain' /\ Paper(c) = InitialCash
  <2>1. c.whole => /\ a.whole /\ Paper(c) = Paper(a) /\ Worth(c, z) = Worth(a, y) + n
    BY <1>20, <1>22, <1>24, <1>27 DEF Kept
  <2> QED
    BY <1>27, <1>28, <2>1, SpecAssumption
<1>30. Sound(c, z, b, gain')
  BY <1>25, <1>26, <1>27, <1>28, <1>29 DEF Sound
<1> QED
  BY <1>3, <1>13, <1>23, <1>30
     DEF MoneyInv, Sound, Open, Worth, Paper, QtyAt, Basis, Cost

\* It holds of every behaviour.
LEMMA MoneyInvariance == Spec => []MoneyInv
<1>1. Init => MoneyInv
  <2> SUFFICES ASSUME Init PROVE MoneyInv
    OBVIOUS
  <2>1. PICK a : a = acct
    OBVIOUS
  <2>2. /\ a.cash = InitialCash /\ a.fees = 0 /\ a.realized = 0
        /\ \A s \in Symbols : a.pos[s] = NoPosition
    BY <2>1 DEF Init
  <2>3. idx = -1 /\ gain = 0 /\ market \in [Symbols -> Prices]
    BY DEF Init
  <2>4. Open(a) = {} /\ \A s \in Symbols : a.pos[s].qty = 0 /\ a.pos[s].settled = -1
    BY <2>2 DEF Open, NoPosition
  <2>5. ASSUME NEW v, \A s \in Symbols : v[s] \in Int
        PROVE  SumFunctionOnSet([s \in Symbols |-> a.pos[s].qty * v[s]], Symbols) = 0
    <3>1. PICK f : f = [s \in Symbols |-> a.pos[s].qty * v[s]]
      OBVIOUS
    <3>2. \A i \in Int : 0 * i = 0
      OBVIOUS
    <3>3. \A s \in Symbols : f[s] = 0
      BY <2>4, <2>5, <3>1, <3>2
    <3> QED
      BY <3>1, <3>3, MarketAssumption, SumZero
  <2>6. QtyAt(a, market) = 0
    BY <2>3, <2>5, PricesAreInt DEF QtyAt
  <2>7. Basis(a) = 0 /\ Cost(a) = 0
    <3>1. PICK e, f : /\ e = [s \in Symbols |-> a.pos[s].basis]
                      /\ f = [s \in Symbols |-> a.pos[s].avg]
      OBVIOUS
    <3>2. \A s \in Symbols : e[s] \in Int /\ f[s] \in Int
      BY <2>2, <3>1 DEF NoPosition
    <3>3. SumFunctionOnSet([s \in Symbols |-> a.pos[s].qty * e[s]], Symbols) = 0
      BY <2>5, <3>2
    <3>4. SumFunctionOnSet([s \in Symbols |-> a.pos[s].qty * f[s]], Symbols) = 0
      BY <2>5, <3>2
    <3>5. /\ [s \in Symbols |-> a.pos[s].qty * e[s]] = [s \in Symbols |-> a.pos[s].qty * a.pos[s].basis]
          /\ [s \in Symbols |-> a.pos[s].qty * f[s]] = [s \in Symbols |-> a.pos[s].qty * a.pos[s].avg]
      BY <3>1
    <3> QED
      BY <3>3, <3>4, <3>5 DEF Basis, Cost
  <2>8. Worth(a, market) = InitialCash /\ Paper(a) = InitialCash
    <3>1. InitialCash \in Int /\ Mult \in Int
      BY SpecAssumption
    <3>2. (0 - 0) * Mult = 0
      BY <3>1
    <3> QED
      BY <2>2, <2>6, <2>7, <3>1, <3>2 DEF Worth, Paper
  <2>9. \A b \in Bars : SessionDate[b] \in Nat
    BY SessionAssumption
  <2>10. \A s \in Symbols, b \in Bars : a.pos[s].settled < SessionDate[b]
    BY <2>4, <2>9
  <2>11. Sound(a, market, idx, gain)
    BY <2>3, <2>4, <2>8, <2>10, SpecAssumption DEF Sound
  <2> QED
    BY <2>1, <2>11 DEF MoneyInv
<1>2. IInv /\ MoneyInv /\ [Next]_vars => MoneyInv'
  <2>1. MoneyInv /\ UNCHANGED vars => MoneyInv'
    BY DEF vars, MoneyInv, Sound, Open, Worth, Paper, QtyAt, Basis, Cost
  <2> QED
    BY <2>1, TickMoney DEF Next
<1> QED
  BY <1>1, <1>2, Invariance, PTL DEF Spec

\* Equity is the initial cash, less the fees, plus what the contracts gained,
\* whatever was traded, rolled, settled and liquidated.
THEOREM EquityFollowsTheMarket == Spec => []EquityIsMarkToMarket
<1>1. IInv /\ MoneyInv => EquityIsMarkToMarket
  <2> SUFFICES ASSUME IInv, MoneyInv, acct.whole, \A s \in Open(acct) : acct.pos[s].basis # 0
               PROVE  Equity(acct) = InitialCash - acct.fees + gain
    BY DEF EquityIsMarkToMarket
  <2>1. acct \in Account /\ acct.fees \in Int
    BY DEF IInv, CallInv, Account
  <2>2. IsPrices(market)
    BY PricesAreInt DEF IInv, IsPrices
  <2>3. /\ gain \in Int /\ \A s \in Open(acct) : acct.pos[s].mark = market[s]
        /\ Worth(acct, market) = InitialCash + gain
    BY DEF MoneyInv, Sound
  <2>4. Equity(acct) = Worth(acct, market) - acct.fees
    BY <2>1, <2>2, <2>3, EquityIsWorth
  <2> QED
    BY <2>1, <2>3, <2>4, SpecAssumption
<1> QED
  BY <1>1, Invariance, MoneyInvariance, PTL

\* Cash is the initial cash, less the fees, plus the realised profit and what
\* variation margin has paid of the open positions.
THEOREM CashAddsUp == Spec => []CashIsSettled
<1>1. IInv /\ MoneyInv => CashIsSettled
  <2> SUFFICES ASSUME IInv, MoneyInv, acct.whole
               PROVE  acct.cash = InitialCash - acct.fees + acct.realized
                        + SumFunction([s \in Symbols |->
                            acct.pos[s].qty * (acct.pos[s].basis - acct.pos[s].avg) * Mult])
    BY DEF CashIsSettled
  <2>1. acct \in Account /\ acct.fees \in Int /\ acct.cash \in Int /\ acct.realized \in Int
    BY DEF IInv, CallInv, Account
  <2>2. PICK v \in Int : v = (Basis(acct) - Cost(acct)) * Mult
    <3>1. Basis(acct) \in Int /\ Cost(acct) \in Int
      BY <2>1, VariationPaid
    <3>2. Mult \in Int
      BY SpecAssumption
    <3>3. \A i, j \in Int : (i - j) * Mult \in Int
      BY <3>2
    <3> QED
      BY <3>1, <3>3
  <2>3. SumFunction([s \in Symbols |->
          acct.pos[s].qty * (acct.pos[s].basis - acct.pos[s].avg) * Mult]) = v
    BY <2>1, <2>2, VariationPaid
  <2>4. acct.cash + acct.fees - acct.realized - v = InitialCash
    BY <2>2 DEF MoneyInv, Sound, Paper
  <2> QED
    BY <2>1, <2>2, <2>3, <2>4, SpecAssumption
<1> QED
  BY <1>1, Invariance, MoneyInvariance, PTL
=============================================================================
