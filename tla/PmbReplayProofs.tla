-------------------------- MODULE PmbReplayProofs ---------------------------
(***************************************************************************)
(* Invariants of PmbReplay for every clock grid, market, set of inputs and *)
(* number of requests, rewinds and restores: what time travel keeps of the *)
(* orders, that a session in which everything was logged is what its log   *)
(* says, and that a rewind then restores the past.                         *)
(***************************************************************************)
EXTENDS PmbReplay, FoldFacts

-----------------------------------------------------------------------------
(* What one bar makes of one order.                                        *)

\* A status that agrees with the executed quantity.
StatusMatchesFill(o) ==
  /\ o.status = "FILLED" => o.filled = o.qty
  /\ o.qty # 0 /\ o.filled = o.qty => o.status = "FILLED"
  /\ o.status = "PARTIALLY_FILLED" => 0 < o.filled /\ o.filled < o.qty
  /\ o.status = "ACCEPTED" => o.filled = 0
  /\ o.qty > 0 => 0 <= o.filled /\ o.filled <= o.qty
  /\ o.qty <= 0 => o.filled \in {0, o.qty}

\* A matching decision the environment may take for order o at bar b.
Possible(o, b, q) ==
  /\ q \in Orders!Rejected..MaxQty
  /\ q # Orders!Wait => /\ Orders!Eligible(Orders!Ready(o, b), b)
                        /\ q \in {Orders!Rejected} \cup Orders!Executions(Orders!Ready(o, b))

\* Cancelling on expiry and stamping keep the identity of an order, never
\* reopen it and never move an existing stamp.
LEMMA ReadyFacts ==
  ASSUME NEW o \in Orders!Order, NEW b \in 0..LastBar
  PROVE  /\ Orders!Ready(o, b) \in Orders!Order
         /\ Orders!Ready(o, b).instr = o.instr /\ Orders!Ready(o, b).tif = o.tif
         /\ Orders!Ready(o, b).qty = o.qty /\ Orders!Ready(o, b).filled = o.filled
         /\ Orders!Ready(o, b).expire = o.expire /\ Orders!Ready(o, b).placed = o.placed
         /\ Orders!Ready(o, b).status \in {o.status, "CANCELLED"}
         /\ ~Orders!IsOpen(o) => Orders!Ready(o, b) = o
         /\ Orders!IsOpen(Orders!Ready(o, b)) => ~Orders!OnExpiringContract(o, b)
         /\ Orders!IsOpen(Orders!Ready(o, b)) => Orders!Ready(o, b).status = o.status
         /\ o.date # Orders!NoDate => Orders!Ready(o, b).date = o.date
         /\ Orders!Ready(o, b).date \in {o.date, TradingDate[b]}
         /\ EnforceHours /\ Orders!Eligible(Orders!Ready(o, b), b) =>
              Orders!Ready(o, b).date # Orders!NoDate
<1>1. TradingDate[b] \in Nat
  BY BookAssumption
<1> DEFINE c == Orders!CancelExpiring(o, b)
<1>2. /\ c \in Orders!Order
      /\ c.instr = o.instr /\ c.tif = o.tif /\ c.qty = o.qty
      /\ c.filled = o.filled /\ c.expire = o.expire /\ c.placed = o.placed
      /\ c.date = o.date /\ c.hours = o.hours
      /\ c.status \in {o.status, "CANCELLED"}
      /\ ~Orders!IsOpen(o) => c = o
      /\ Orders!IsOpen(c) => c = o /\ ~Orders!OnExpiringContract(o, b)
  BY DEF Orders!CancelExpiring, Orders!Cancelled, Orders!IsOpen, Orders!Active, Orders!Terminal, Orders!Order
<1> HIDE DEF c
<1>3. Orders!Ready(o, b) = Orders!Stamp(c, b)
  BY DEF Orders!Ready, c
<1>4. /\ Orders!Stamp(c, b) \in Orders!Order
      /\ Orders!Stamp(c, b).instr = c.instr /\ Orders!Stamp(c, b).tif = c.tif
      /\ Orders!Stamp(c, b).qty = c.qty /\ Orders!Stamp(c, b).filled = c.filled
      /\ Orders!Stamp(c, b).expire = c.expire /\ Orders!Stamp(c, b).placed = c.placed
      /\ Orders!Stamp(c, b).status = c.status /\ Orders!Stamp(c, b).hours = c.hours
      /\ ~Orders!IsOpen(c) => Orders!Stamp(c, b) = c
      /\ c.date # Orders!NoDate => Orders!Stamp(c, b) = c
      /\ Orders!Stamp(c, b).date \in {c.date, TradingDate[b]}
  BY <1>1, <1>2 DEF Orders!Stamp, Orders!Order, Orders!Eligible
<1>5. EnforceHours /\ Orders!Eligible(Orders!Stamp(c, b), b) => Orders!Stamp(c, b).date # Orders!NoDate
  <2>1. Orders!Eligible(Orders!Stamp(c, b), b) <=> Orders!Eligible(c, b)
    BY <1>4 DEF Orders!Eligible, Orders!IsOpen, Orders!MayExecute
  <2>2. EnforceHours /\ Orders!Eligible(c, b) /\ c.date = Orders!NoDate =>
          Orders!Stamp(c, b).date = TradingDate[b]
    BY <1>2 DEF Orders!Stamp, Orders!Order
  <2> QED
    BY <1>1, <1>4, <2>1, <2>2 DEF Orders!NoDate
<1> QED
  BY <1>2, <1>3, <1>4, <1>5 DEF Orders!IsOpen

\* One bar keeps the identity of an order and the agreement of its status with
\* its executed quantity, leaves closed orders alone, and leaves open only what
\* neither expires nor is on an expiring contract.
LEMMA AfterBarFacts ==
  ASSUME NEW o \in Orders!Order, NEW b \in 0..LastBar, NEW q,
         Possible(o, b, q), StatusMatchesFill(o)
  PROVE  /\ Orders!AfterBar(o, b, q) \in Orders!Order
         /\ Orders!AfterBar(o, b, q).instr = o.instr /\ Orders!AfterBar(o, b, q).tif = o.tif
         /\ Orders!AfterBar(o, b, q).qty = o.qty
         /\ Orders!AfterBar(o, b, q).expire = o.expire
         /\ Orders!AfterBar(o, b, q).placed = o.placed
         /\ StatusMatchesFill(Orders!AfterBar(o, b, q))
         /\ ~Orders!IsOpen(o) => Orders!AfterBar(o, b, q) = o /\ q = Orders!Wait
         /\ Orders!AfterBar(o, b, q).filled =
              IF Orders!Executes(q) THEN o.filled + q ELSE o.filled
         /\ o.qty > 0 => Orders!AfterBar(o, b, q).filled >= o.filled
         /\ Orders!IsOpen(Orders!AfterBar(o, b, q)) \/ Orders!Executes(q) => ~Orders!OnExpiringContract(o, b)
         /\ EnforceHours /\ Orders!IsOpen(Orders!AfterBar(o, b, q)) =>
              /\ ~Orders!PastExpiry(Orders!AfterBar(o, b, q), b)
              /\ ~Orders!DayIsOver(Orders!AfterBar(o, b, q), b)
         /\ o.date # Orders!NoDate => Orders!AfterBar(o, b, q).date = o.date
         /\ Orders!AfterBar(o, b, q).date \in {o.date, TradingDate[b]}
         /\ EnforceHours /\ Orders!Executes(q) => Orders!AfterBar(o, b, q).date # Orders!NoDate
<1> DEFINE r == Orders!Ready(o, b)
           m == Orders!Match(r, q)
           n == Orders!ExpireOrder(m, b)
<1>1. Orders!AfterBar(o, b, q) = n
  BY DEF Orders!AfterBar
<1>2. /\ r \in Orders!Order
      /\ r.instr = o.instr /\ r.tif = o.tif /\ r.qty = o.qty
      /\ r.filled = o.filled /\ r.expire = o.expire /\ r.placed = o.placed
      /\ r.status \in {o.status, "CANCELLED"}
      /\ ~Orders!IsOpen(o) => r = o
      /\ Orders!IsOpen(r) => ~Orders!OnExpiringContract(o, b) /\ r.status = o.status
      /\ o.date # Orders!NoDate => r.date = o.date
      /\ r.date \in {o.date, TradingDate[b]}
      /\ EnforceHours /\ Orders!Eligible(r, b) => r.date # Orders!NoDate
  BY ReadyFacts
<1>3. /\ q \in Orders!Rejected..MaxQty /\ MaxQty \in Nat
      /\ MinQty \in Int /\ MinQty <= 0
      /\ q # Orders!Wait => /\ Orders!IsOpen(r) /\ Orders!Eligible(r, b)
                            /\ q \in {Orders!Rejected} \cup Orders!Executions(r)
  BY BookAssumption DEF Possible, Orders!Eligible
<1>4. StatusMatchesFill(r)
  BY <1>2, <1>3 DEF StatusMatchesFill, Orders!IsOpen, Orders!Active, Orders!Order, Orders!Terminal
<1> HIDE DEF r
<1>5. /\ m \in Orders!Order
      /\ m.instr = r.instr /\ m.tif = r.tif /\ m.qty = r.qty
      /\ m.expire = r.expire /\ m.placed = r.placed /\ m.date = r.date
      /\ m.filled = IF Orders!Executes(q) THEN r.filled + q ELSE r.filled
      /\ r.qty > 0 => m.filled >= r.filled
      /\ StatusMatchesFill(m)
      /\ q = Orders!Wait => m = r
      /\ Orders!IsOpen(m) => Orders!IsOpen(r)
  <2>1. CASE q = Orders!Wait
    <3>1. q # Orders!Rejected /\ ~Orders!Executes(q)
      BY <2>1, <1>3 DEF Orders!Wait, Orders!Rejected, Orders!Executes, Orders!Quantities
    <3>2. m = r
      BY <2>1, <3>1 DEF Orders!Match
    <3> QED
      BY <2>1, <3>1, <3>2, <1>2, <1>4, <1>3 DEF Orders!Order, Orders!Quantities
  <2>2. CASE q = Orders!Rejected
    <3>1. Orders!IsOpen(r) /\ q # Orders!Wait /\ ~Orders!Executes(q)
      BY <2>2, <1>3 DEF Orders!Wait, Orders!Rejected, Orders!Executes, Orders!Quantities
    <3>2. m = [r EXCEPT !.status = "REJECTED"]
      BY <2>2, <3>1 DEF Orders!Match
    <3>3. /\ m \in Orders!Order /\ m.status = "REJECTED"
          /\ m.instr = r.instr /\ m.tif = r.tif /\ m.qty = r.qty
          /\ m.expire = r.expire /\ m.placed = r.placed /\ m.date = r.date
          /\ m.filled = r.filled /\ r.filled \in Int
      BY <3>2, <1>2, <1>3 DEF Orders!Order, Orders!Quantities, Orders!Terminal
    <3>4. StatusMatchesFill(m)
      BY <3>1, <3>3, <1>4 DEF StatusMatchesFill, Orders!IsOpen, Orders!Active
    <3> QED
      BY <3>1, <3>3, <3>4
  <2>3. CASE Orders!Executes(q)
    <3>1. q \in Orders!Quantities /\ q # Orders!Wait /\ q # Orders!Rejected
      BY <2>3, <1>3 DEF Orders!Executes, Orders!Quantities, Orders!Wait, Orders!Rejected
    <3>2. m = Orders!Filled(r, q) /\ Orders!IsOpen(r)
      BY <2>3, <3>1, <1>3 DEF Orders!Match
    <3>3. r.qty \in Orders!Quantities /\ r.filled \in Orders!Quantities
      BY <1>2 DEF Orders!Order
    <3>4. \/ /\ r.qty > 0 /\ q > 0 /\ r.filled >= 0 /\ r.filled + q <= r.qty
          \/ r.qty <= 0 /\ r.filled = 0 /\ q = r.qty
      <4>1. q \in Orders!Executions(r)
        BY <3>1, <1>3
      <4>2. r.status = "ACCEPTED" \/ r.status = "PARTIALLY_FILLED"
        BY <3>2 DEF Orders!IsOpen, Orders!Active
      <4> QED
        BY <4>1, <4>2, <3>3, <1>3, <1>4
           DEF Orders!Executions, Orders!Remaining, StatusMatchesFill, Orders!Quantities
    <3>5. r.filled + q \in Orders!Quantities
      BY <3>3, <3>4, <1>3 DEF Orders!Quantities
    <3>6. /\ m \in Orders!Order
          /\ m.instr = r.instr /\ m.tif = r.tif /\ m.qty = r.qty
          /\ m.expire = r.expire /\ m.placed = r.placed /\ m.date = r.date
          /\ m.filled = r.filled + q
          /\ m.status = IF r.filled + q >= r.qty THEN "FILLED"
                                                 ELSE "PARTIALLY_FILLED"
      BY <3>2, <3>5, <1>2 DEF Orders!Filled, Orders!Order, Orders!Terminal, Orders!Active
    <3>7. StatusMatchesFill(m)
      BY <3>1, <3>3, <3>4, <3>6, <1>3 DEF StatusMatchesFill, Orders!Quantities
    <3> QED
      BY <2>3, <3>1, <3>2, <3>3, <3>4, <3>6, <3>7 DEF Orders!Quantities
  <2> QED
    BY <2>1, <2>2, <2>3, <1>3 DEF Orders!Wait, Orders!Rejected, Orders!Executes, Orders!Quantities
<1> HIDE DEF m
<1>6. /\ n \in Orders!Order
      /\ n.instr = m.instr /\ n.tif = m.tif /\ n.qty = m.qty
      /\ n.expire = m.expire /\ n.placed = m.placed /\ n.date = m.date
      /\ n.filled = m.filled
      /\ StatusMatchesFill(n)
      /\ ~Orders!IsOpen(m) => n = m
      /\ Orders!IsOpen(n) => n = m
      /\ EnforceHours /\ Orders!IsOpen(n) => ~Orders!PastExpiry(n, b) /\ ~Orders!DayIsOver(n, b)
  <2>1. CASE EnforceHours /\ Orders!IsOpen(m) /\ (Orders!PastExpiry(m, b) \/ Orders!DayIsOver(m, b))
    <3>1. n = [m EXCEPT !.status = "EXPIRED"]
      BY <2>1 DEF Orders!ExpireOrder
    <3> QED
      BY <3>1, <2>1, <1>5
         DEF StatusMatchesFill, Orders!Order, Orders!Terminal, Orders!Active, Orders!IsOpen
  <2>2. CASE ~(/\ EnforceHours /\ Orders!IsOpen(m)
               /\ Orders!PastExpiry(m, b) \/ Orders!DayIsOver(m, b))
    BY <2>2, <1>5 DEF Orders!ExpireOrder
  <2> QED
    BY <2>1, <2>2
<1> HIDE DEF n
<1>7. ~Orders!IsOpen(o) => n = o /\ q = Orders!Wait
  BY <1>2, <1>3, <1>5, <1>6
<1>8. Orders!Executes(q) => q # Orders!Wait
  BY <1>3 DEF Orders!Wait, Orders!Executes, Orders!Quantities
<1>9. Orders!IsOpen(n) \/ Orders!Executes(q) => Orders!IsOpen(r)
  BY <1>3, <1>5, <1>6, <1>8
<1>10. EnforceHours /\ Orders!Executes(q) => n.date # Orders!NoDate
  BY <1>2, <1>3, <1>5, <1>6, <1>8
<1> QED
  BY <1>1, <1>2, <1>5, <1>6, <1>7, <1>9, <1>10

-----------------------------------------------------------------------------
(* Orders of a book whose clock is at bar b.                               *)

\* What an order is at bar b: in time, on a contract that lives, and consistent.
OrderOK(o, b) ==
  /\ o \in Orders!Order /\ StatusMatchesFill(o) /\ o.placed <= b
  /\ EnforceHours /\ Orders!IsOpen(o) /\ o.tif = "DAY" /\ o.date # Orders!NoDate =>
       /\ b \in 0..(LastBar - 1) /\ TradingDate[b] = o.date /\ TradingDate[b + 1] = o.date
  /\ EnforceHours /\ Orders!IsOpen(o) /\ Orders!PastExpiry(o, b) => o.placed = b
  /\ \A c \in 0..b :
       Orders!LastOfDate(c) /\ Orders!IsOpen(o) /\ Orders!OnExpiringContract(o, c) => o.placed >= c

\* An order after bar b, as the market of the replay decides.
Barred(o, b) == Orders!AfterBar(o, b, Decision(o, b))

\* The lesser of two numbers is one of them.
LEMMA LesserOf ==
  ASSUME NEW x \in Int, NEW y \in Int
  PROVE  Min({x, y}) \in {x, y} /\ Min({x, y}) <= x /\ Min({x, y}) <= y
<1>1. \E m \in {x, y} : \A z \in {x, y} : m <= z
  BY x <= y \/ y <= x
<1> QED
  BY <1>1 DEF Min

\* What the market decides for an order is possible.
LEMMA DecisionPossible ==
  ASSUME NEW o \in Orders!Order, StatusMatchesFill(o), NEW b \in 0..LastBar
  PROVE  Possible(o, b, Decision(o, b))
<1> DEFINE r == Orders!Ready(o, b)
<1>1. /\ r \in Orders!Order /\ r.qty = o.qty /\ r.filled = o.filled
      /\ Orders!IsOpen(r) => r.status = o.status
  BY ReadyFacts
<1>2. /\ MaxQty \in Nat \ {0} /\ MinQty \in Int /\ MinQty <= 0
      /\ Orders!Wait = MinQty - 1 /\ Orders!Rejected = MinQty - 2
      /\ Orders!Quantities = MinQty..MaxQty
  BY BookAssumption DEF Orders!Wait, Orders!Rejected, Orders!Quantities
<1> HIDE DEF r
<1>3. ASSUME Orders!Eligible(r, b), r.instr \in loaded
      PROVE  /\ Decision(o, b) \in Orders!Rejected..MaxQty
             /\ Decision(o, b) # Orders!Wait =>
                  Decision(o, b) \in {Orders!Rejected} \cup Orders!Executions(r)
  <2>1. PICK l : l = Liquidity[r.instr][b]
    OBVIOUS
  <2>2. PICK m : m = Orders!Remaining(r)
    OBVIOUS
  <2>3. l \in {Orders!Wait, Orders!Rejected} \cup 1..MaxQty
    <3>1. r.instr \in Instruments
      BY <1>1 DEF Orders!Order
    <3>2. Liquidity[r.instr] \in
            [0..LastBar -> {Orders!Wait, Orders!Rejected} \cup 1..MaxQty]
      BY <3>1, ReplayAssumption
    <3> QED
      BY <2>1, <3>2
  <2>4. m \in MinQty..MaxQty
    <3>1. /\ o.qty \in MinQty..MaxQty /\ o.filled \in MinQty..MaxQty
          /\ o.status \in {"ACCEPTED", "PARTIALLY_FILLED"}
      BY <1>1, <1>2, <1>3 DEF Orders!Eligible, Orders!IsOpen, Orders!Active, Orders!Order
    <3>2. o.qty > 0 => 0 <= o.filled /\ o.filled <= o.qty
      BY DEF StatusMatchesFill
    <3>3. o.qty <= 0 => o.filled = 0
      BY <3>1 DEF StatusMatchesFill
    <3>4. m = o.qty - o.filled
      BY <1>1, <2>2 DEF Orders!Remaining
    <3> QED
      BY <1>2, <3>1, <3>2, <3>3, <3>4
  <2>5. Decision(o, b) = Share(l, m)
    BY <1>3, <2>1, <2>2 DEF Decision, r
  <2>6. Orders!Executions(r) = IF m > 0 THEN 1..m ELSE {m}
    BY <2>2 DEF Orders!Executions
  <2>7. CASE l \in 1..MaxQty
    <3>1. Share(l, m) = Min({l, m})
      BY <2>7 DEF Share
    <3>2. l \in Int /\ m \in Int
      BY <1>2, <2>4, <2>7
    <3>3. Min({l, m}) \in {l, m} /\ Min({l, m}) <= l /\ Min({l, m}) <= m
      BY <3>2, LesserOf
    <3>4. Min({l, m}) \in MinQty..MaxQty
      BY <1>2, <2>4, <2>7, <3>3
    <3>5. m > 0 => Min({l, m}) \in 1..m
      BY <2>7, <3>2, <3>3
    <3>6. ~(m > 0) => Min({l, m}) = m
      BY <2>7, <3>2, <3>3
    <3> QED
      BY <1>2, <2>5, <2>6, <3>1, <3>4, <3>5, <3>6
  <2>8. CASE l \notin 1..MaxQty
    <3>1. Share(l, m) = l
      BY <2>8 DEF Share
    <3> QED
      BY <1>2, <2>3, <2>5, <2>8, <3>1
  <2> QED
    BY <2>7, <2>8
<1>4. ~(Orders!Eligible(r, b) /\ r.instr \in loaded) => Decision(o, b) = Orders!Wait
  BY DEF Decision, r
<1>5. Decision(o, b) # Orders!Wait => Orders!Eligible(r, b)
  BY <1>4
<1> QED
  BY <1>2, <1>3, <1>4, <1>5 DEF Possible, r

\* A bar keeps orders in order, adds what it decides to what is executed, and
\* executes nothing on a contract that expires.
LEMMA BarredFacts ==
  ASSUME NEW b \in 0..LastBar, NEW o, OrderOK(o, b - 1)
  PROVE  /\ OrderOK(Barred(o, b), b)
         /\ Decision(o, b) \in Orders!Rejected..MaxQty
         /\ Barred(o, b).filled = IF Orders!Executes(Decision(o, b)) THEN o.filled + Decision(o, b) ELSE o.filled
         /\ Barred(o, b).instr = o.instr /\ Barred(o, b).placed = o.placed
         /\ Orders!Executes(Decision(o, b)) => ~Orders!OnExpiringContract(o, b)
         /\ ~Orders!IsOpen(o) => Barred(o, b) = o /\ ~(Orders!Executes(Decision(o, b)))
<1>1. o \in Orders!Order /\ StatusMatchesFill(o) /\ Possible(o, b, Decision(o, b))
  BY DecisionPossible DEF OrderOK
<1>2. Orders!NoDate = -1 /\ ~Orders!Executes(Orders!Wait)
  BY BookAssumption DEF Orders!Wait, Orders!Executes, Orders!Quantities, Orders!NoDate
<1>3. PICK q : q = Decision(o, b)
  OBVIOUS
<1>4. PICK n : n = Barred(o, b)
  OBVIOUS
<1>5. /\ n \in Orders!Order /\ n.instr = o.instr /\ n.tif = o.tif /\ n.expire = o.expire
      /\ n.placed = o.placed /\ StatusMatchesFill(n)
      /\ ~Orders!IsOpen(o) => n = o /\ q = Orders!Wait
      /\ n.filled = IF Orders!Executes(q) THEN o.filled + q ELSE o.filled
      /\ Orders!IsOpen(n) \/ Orders!Executes(q) => ~Orders!OnExpiringContract(o, b)
      /\ EnforceHours /\ Orders!IsOpen(n) => ~Orders!PastExpiry(n, b) /\ ~Orders!DayIsOver(n, b)
      /\ o.date # -1 => n.date = o.date
      /\ n.date \in {o.date, TradingDate[b]}
  BY <1>1, <1>2, <1>3, <1>4, AfterBarFacts DEF Barred
<1>6. q \in Orders!Rejected..MaxQty
  BY <1>1, <1>3 DEF Possible
<1>7. /\ b \in Int /\ o.placed \in Int /\ o.placed <= b - 1 /\ n.placed <= b
      /\ Orders!IsOpen(n) => Orders!IsOpen(o)
  BY <1>1, <1>5 DEF OrderOK, Orders!Order
<1>8. ASSUME EnforceHours, Orders!IsOpen(n), n.tif = "DAY", n.date # -1
      PROVE  b \in 0..(LastBar - 1) /\ TradingDate[b] = n.date /\ TradingDate[b + 1] = n.date
  <2>1. ~(Orders!LastOfDate(b) /\ n.date = TradingDate[b])
    BY <1>5, <1>8 DEF Orders!DayIsOver
  <2>2. n.date = TradingDate[b]
    <3>1. CASE o.date # -1
      <4>1. b - 1 \in 0..(LastBar - 1) /\ TradingDate[(b - 1) + 1] = o.date
        BY <1>2, <1>5, <1>7, <1>8, <3>1 DEF OrderOK
      <4> QED
        BY <1>5, <3>1, <4>1
    <3>2. CASE o.date = -1
      BY <1>5, <1>8, <3>2
    <3> QED
      BY <3>1, <3>2
  <2> QED
    BY <2>1, <2>2, BookAssumption DEF Orders!LastOfDate
<1>9. \A c \in 0..b :
        Orders!LastOfDate(c) /\ Orders!IsOpen(n) /\ Orders!OnExpiringContract(n, c) => n.placed >= c
  <2> SUFFICES ASSUME NEW c \in 0..b, Orders!LastOfDate(c), Orders!IsOpen(n),
                      Orders!OnExpiringContract(n, c)
               PROVE  n.placed >= c
    OBVIOUS
  <2>1. Orders!OnExpiringContract(o, c)
    BY <1>5 DEF Orders!OnExpiringContract
  <2>2. c # b /\ c \in 0..(b - 1)
    BY <1>5, <2>1
  <2> QED
    BY <1>5, <1>7, <2>1, <2>2 DEF OrderOK
<1>10. OrderOK(n, b)
  BY <1>2, <1>5, <1>7, <1>8, <1>9 DEF OrderOK
<1> QED
  BY <1>2, <1>3, <1>4, <1>5, <1>6, <1>10

-----------------------------------------------------------------------------
(* Books whose clock is at bar b.                                          *)

Ids == Nat \ {0}
Table(V) == UNION {[D -> V] : D \in SUBSET Ids}
Callers == Clients \cup {NoClient}
Sessions == 1..(MaxDetours + 1)
Fill == [order : Ids, bar : 0..LastBar, qty : Orders!Quantities, stream : Streams]
BookType ==
  [orders : Table(Orders!Order), tag : Table([client : Callers, session : Sessions]),
   fills : SUBSET Fill, live : Table(Ids)]

\* The executions of order i, as PmbOrders sees them.
TradesFor(fs, i) ==
  {u \in {[order |-> f.order, bar |-> f.bar, qty |-> f.qty] : f \in fs} : u.order = i}

\* A client_order_id names one order.
ClientsOnce(k) ==
  \A i, j \in DOMAIN k.orders :
    i # j => k.tag[i].client # k.tag[j].client \/ k.tag[i].client = NoClient

BookOK(k, b) ==
  /\ IsFiniteSet(DOMAIN k.orders) /\ DOMAIN k.tag = DOMAIN k.orders
  /\ \A f \in k.fills :
       /\ f.order \in DOMAIN k.orders /\ f.bar <= b
       /\ Orders!LastOfDate(f.bar) => ~Orders!OnExpiringContract(k.orders[f.order], f.bar)
  /\ \A j \in DOMAIN k.live : k.live[j] \in DOMAIN k.orders
  /\ \A i \in DOMAIN k.orders :
       /\ OrderOK(k.orders[i], b)
       /\ IsFiniteSet(TradesFor(k.fills, i))
       /\ k.orders[i].filled = QtyOf(TradesFor(k.fills, i))
  /\ ClientsOnce(k)

Books(b) == {k \in BookType : BookOK(k, b)}

\* A table is a function from ids.
LEMMA TableFacts ==
  ASSUME NEW V, NEW f
  PROVE  /\ f \in Table(V) => f \in [DOMAIN f -> V] /\ DOMAIN f \subseteq Ids
         /\ \A D \in SUBSET Ids : f \in [D -> V] => f \in Table(V)
BY DEF Table

\* A bar leads from a book at the bar before to one at it.
LEMMA AtBarBooks ==
  ASSUME NEW b \in 0..LastBar, NEW k \in Books(b - 1), NEW rng \in Streams
  PROVE  AtBar(k, b, rng) \in Books(b)
<1>1. /\ k \in BookType /\ BookOK(k, b - 1) /\ b \in Int /\ LastBar \in Nat
      /\ k.orders \in [DOMAIN k.orders -> Orders!Order] /\ DOMAIN k.orders \in SUBSET Ids
  BY TableFacts, BookAssumption DEF Books, BookType
<1> DEFINE D == DOMAIN k.orders
           New == {[order |-> i, bar |-> b, qty |-> Decision(k.orders[i], b), stream |-> rng] :
                     i \in {j \in D : Orders!Executes(Decision(k.orders[j], b))}}
<1>2. ASSUME NEW i \in D
      PROVE  /\ OrderOK(Barred(k.orders[i], b), b) /\ Decision(k.orders[i], b) \in Orders!Rejected..MaxQty
             /\ Barred(k.orders[i], b).filled
                  = IF Orders!Executes(Decision(k.orders[i], b)) THEN k.orders[i].filled + Decision(k.orders[i], b)
                    ELSE k.orders[i].filled
             /\ Barred(k.orders[i], b).instr = k.orders[i].instr
             /\ Orders!Executes(Decision(k.orders[i], b)) => ~Orders!OnExpiringContract(k.orders[i], b)
  <2>1. OrderOK(k.orders[i], b - 1)
    BY <1>1 DEF BookOK
  <2> QED
    BY <2>1, BarredFacts
<1>3. PICK n : n = AtBar(k, b, rng)
  OBVIOUS
<1>4. /\ n.orders = [i \in D |-> Barred(k.orders[i], b)] /\ n.fills = k.fills \cup New
      /\ n.tag = k.tag /\ n.live = k.live
      /\ n = [orders |-> n.orders, tag |-> n.tag, fills |-> n.fills, live |-> n.live]
  BY <1>1, <1>3 DEF AtBar, BookType, Barred
<1>5. DOMAIN n.orders = D /\ \A i \in D : n.orders[i] = Barred(k.orders[i], b)
  BY <1>4
<1>6. \A f \in New : /\ f \in Fill /\ f.order \in D /\ f.bar = b /\ f.qty = Decision(k.orders[f.order], b)
                     /\ Orders!Executes(f.qty)
  <2> SUFFICES ASSUME NEW i \in D, Orders!Executes(Decision(k.orders[i], b))
               PROVE  [order |-> i, bar |-> b, qty |-> Decision(k.orders[i], b), stream |-> rng] \in Fill
    OBVIOUS
  <2>1. Decision(k.orders[i], b) \in Orders!Quantities
    BY DEF Orders!Executes
  <2> QED
    BY <1>1, <2>1 DEF Fill
<1> HIDE DEF D
<1>7. n \in BookType
  <2>1. n.orders \in [D -> Orders!Order] /\ D \in SUBSET Ids
    BY <1>1, <1>2, <1>4 DEF OrderOK, D
  <2>2. n.orders \in Table(Orders!Order)
    BY <2>1, TableFacts
  <2>3. n.fills \in SUBSET Fill
    BY <1>1, <1>4, <1>6 DEF BookType
  <2> QED
    BY <1>1, <1>4, <2>2, <2>3 DEF BookType
<1>8. \A f \in n.fills :
        /\ f.order \in DOMAIN n.orders /\ f.bar <= b
        /\ Orders!LastOfDate(f.bar) => ~Orders!OnExpiringContract(n.orders[f.order], f.bar)
  <2>1. ASSUME NEW f \in k.fills
        PROVE  /\ f.order \in D /\ f.bar <= b
               /\ Orders!LastOfDate(f.bar) => ~Orders!OnExpiringContract(n.orders[f.order], f.bar)
    <3>1. /\ f.order \in D /\ f.bar <= b - 1 /\ f.bar \in Int
          /\ Orders!LastOfDate(f.bar) => ~Orders!OnExpiringContract(k.orders[f.order], f.bar)
      BY <1>1 DEF BookOK, BookType, Fill, D
    <3>2. n.orders[f.order].instr = k.orders[f.order].instr
      BY <1>2, <1>5, <3>1
    <3> QED
      BY <1>1, <3>1, <3>2 DEF Orders!OnExpiringContract
  <2>2. ASSUME NEW f \in New
        PROVE  /\ f.order \in D /\ f.bar <= b
               /\ Orders!LastOfDate(f.bar) => ~Orders!OnExpiringContract(n.orders[f.order], f.bar)
    <3>1. /\ f.order \in D /\ f.bar = b /\ ~Orders!OnExpiringContract(k.orders[f.order], b)
      BY <1>2, <1>6
    <3>2. n.orders[f.order].instr = k.orders[f.order].instr
      BY <1>2, <1>5, <3>1
    <3> QED
      BY <1>1, <3>1, <3>2 DEF Orders!OnExpiringContract
  <2> QED
    BY <1>4, <1>5, <2>1, <2>2
<1>9. ASSUME NEW i \in D
      PROVE  /\ IsFiniteSet(TradesFor(n.fills, i)) /\ n.orders[i].filled = QtyOf(TradesFor(n.fills, i))
  <2> DEFINE F == TradesFor(k.fills, i)
             G == TradesFor(n.fills, i)
  <2>1. IsFiniteSet(F) /\ k.orders[i].filled = QtyOf(F)
    BY <1>1 DEF BookOK, D
  <2>2. \A t \in F : t.qty \in Int /\ t.bar # b
    <3>1. \A f \in k.fills : f.qty \in Int /\ f.bar # b
      BY <1>1, BookAssumption DEF BookOK, BookType, Fill, Orders!Quantities
    <3> QED
      BY <3>1 DEF TradesFor
  <2>3. PICK q : q = Decision(k.orders[i], b)
    OBVIOUS
  <2>4. q \in Int
    BY <1>2, <2>3, BookAssumption DEF Orders!Rejected
  <2>5. CASE Orders!Executes(q)
    <3>1. PICK t : t = [order |-> i, bar |-> b, qty |-> q]
      OBVIOUS
    <3>2. t.qty = q /\ t.bar = b /\ t \notin F
      BY <2>2, <3>1
    <3>3. \E f \in New : f.order = i /\ f.bar = b /\ f.qty = q
      <4>1. PICK f : f = [order |-> i, bar |-> b, qty |-> Decision(k.orders[i], b), stream |-> rng]
        OBVIOUS
      <4>2. f \in New
        BY <2>3, <2>5, <4>1
      <4>3. f.order = i /\ f.bar = b /\ f.qty = q
        BY <2>3, <4>1
      <4> QED
        BY <4>2, <4>3
    <3>4. \A f \in New : f.order = i => f.bar = b /\ f.qty = q
      BY <1>6, <2>3
    <3>5. G = F \cup {t}
      BY <1>4, <3>1, <3>3, <3>4 DEF TradesFor
    <3> HIDE DEF F, G
    <3>6. IsFiniteSet(F \cup {t}) /\ QtyOf(F \cup {t}) = QtyOf(F) + t.qty
      BY <2>1, <2>2, <2>4, <3>2, QtyGrows
    <3>7. n.orders[i].filled = k.orders[i].filled + q
      BY <1>2, <1>5, <2>3, <2>5
    <3> QED
      BY <2>1, <3>2, <3>5, <3>6, <3>7 DEF G
  <2>6. CASE ~(Orders!Executes(q))
    <3>1. \A f \in New : f.order # i
      BY <1>6, <2>3, <2>6
    <3>2. G = F
      BY <1>4, <3>1 DEF TradesFor
    <3>3. n.orders[i].filled = k.orders[i].filled
      BY <1>2, <1>5, <2>3, <2>6
    <3> QED
      BY <2>1, <3>2, <3>3
  <2> QED
    BY <2>5, <2>6
<1>10. ClientsOnce(n)
  BY <1>1, <1>4, <1>5 DEF ClientsOnce, BookOK, D
<1>11. /\ IsFiniteSet(DOMAIN n.orders) /\ DOMAIN n.tag = DOMAIN n.orders
       /\ \A j \in DOMAIN n.live : n.live[j] \in DOMAIN n.orders
  BY <1>1, <1>4, <1>5 DEF BookOK, D
<1>12. \A i \in DOMAIN n.orders : OrderOK(n.orders[i], b)
  BY <1>2, <1>5
<1> HIDE DEF New
<1>13. BookOK(n, b)
  BY <1>5, <1>8, <1>9, <1>10, <1>11, <1>12 DEF BookOK
<1> QED
  BY <1>3, <1>7, <1>13 DEF Books

\* An order that is accepted is in order.
LEMMA AcceptedOK ==
  ASSUME NEW b \in -1..LastBar, NEW s \in Orders!OrderSpec
  PROVE  OrderOK(Orders!Accepted(s, b), b) /\ Orders!Accepted(s, b).filled = 0
<1> DEFINE o == Orders!Accepted(s, b)
<1>1. /\ o.date = -1 /\ o.filled = 0 /\ o.status = "ACCEPTED" /\ o.placed = b /\ o.qty = s.qty
      /\ o.instr = s.instr /\ o.tif = s.tif /\ o.expire = s.expire /\ o.hours = s.hours
      /\ o.spread = s.spread
  BY DEF Orders!Accepted, Orders!NoDate
<1>2. /\ s.qty \in Orders!Quantities /\ 0 \in Orders!Quantities
      /\ s.qty \in Int /\ LastBar \in Nat
  BY BookAssumption DEF Orders!OrderSpec, Orders!Quantities
<1>3. o \in Orders!Order
  BY <1>2 DEF Orders!Accepted, Orders!NoDate, Orders!OrderSpec, Orders!Order, Orders!Active
<1>4. StatusMatchesFill(o)
  BY <1>1, <1>2 DEF StatusMatchesFill
<1> HIDE DEF o
<1>5. OrderOK(o, b)
  BY <1>1, <1>2, <1>3, <1>4 DEF OrderOK, Orders!NoDate
<1> QED
  BY <1>1, <1>5 DEF o

\* An order that is cancelled stays in order, and is what it was but closed.
LEMMA CancelledOK ==
  ASSUME NEW b, NEW o, OrderOK(o, b), Orders!IsOpen(o)
  PROVE  /\ OrderOK(Orders!Cancelled(o), b) /\ Orders!Cancelled(o).filled = o.filled
         /\ Orders!Cancelled(o).instr = o.instr /\ Orders!Cancelled(o).placed = o.placed
         /\ ~Orders!IsOpen(Orders!Cancelled(o)) /\ Orders!Cancelled(o).status = "CANCELLED"
<1>1. o \in Orders!Order /\ StatusMatchesFill(o)
  BY DEF OrderOK
<1>2. PICK c : c = Orders!Cancelled(o)
  OBVIOUS
<1>3. /\ c \in Orders!Order /\ c.instr = o.instr /\ c.filled = o.filled /\ c.qty = o.qty
      /\ c.placed = o.placed /\ c.status = "CANCELLED"
  BY <1>1, <1>2 DEF Orders!Cancelled, Orders!Order, Orders!Terminal
<1>4. ~Orders!IsOpen(c) /\ StatusMatchesFill(c)
  BY <1>1, <1>3 DEF StatusMatchesFill, Orders!IsOpen, Orders!Active, Orders!Order
<1> QED
  BY <1>2, <1>3, <1>4 DEF OrderOK

\* A new order joins a book.
LEMMA SubmittedBooks ==
  ASSUME NEW b \in -1..LastBar, NEW k \in Books(b), NEW i \in Ids, i \notin DOMAIN k.orders,
         NEW s \in Orders!OrderSpec, NEW c \in Callers, PlacedBy(k, c) = {},
         NEW session \in Sessions
  PROVE  Submitted(k, i, s, c, session, b) \in Books(b)
<1>1. /\ k \in BookType /\ BookOK(k, b)
      /\ k.orders \in [DOMAIN k.orders -> Orders!Order] /\ DOMAIN k.orders \in SUBSET Ids
      /\ k.tag \in [DOMAIN k.tag -> [client : Callers, session : Sessions]]
      /\ DOMAIN k.tag = DOMAIN k.orders
  BY TableFacts DEF Books, BookType, BookOK
<1> DEFINE D == DOMAIN k.orders
<1>2. PICK o : o = Orders!Accepted(s, b)
  OBVIOUS
<1>3. PICK g : g = [client |-> c, session |-> session]
  OBVIOUS
<1>4. PICK n : n = Submitted(k, i, s, c, session, b)
  OBVIOUS
<1>5. /\ n.orders = [j \in D \cup {i} |-> IF j = i THEN o ELSE k.orders[j]]
      /\ n.tag = [j \in D \cup {i} |-> IF j = i THEN g ELSE k.tag[j]]
      /\ n.fills = k.fills /\ n.live = k.live
      /\ n = [orders |-> n.orders, tag |-> n.tag, fills |-> n.fills, live |-> n.live]
  BY <1>1, <1>2, <1>3, <1>4 DEF Submitted, BookType
<1>6. /\ DOMAIN n.orders = D \cup {i} /\ n.orders[i] = o /\ \A j \in D : n.orders[j] = k.orders[j]
      /\ DOMAIN n.tag = D \cup {i} /\ n.tag[i] = g /\ \A j \in D : n.tag[j] = k.tag[j]
      /\ i \notin D
  BY <1>5
<1>7. OrderOK(o, b) /\ o.filled = 0 /\ o \in Orders!Order
  BY <1>2, AcceptedOK DEF OrderOK
<1>8. g \in [client : Callers, session : Sessions] /\ g.client = c
  BY <1>3
<1> HIDE DEF D
<1>9. n \in BookType
  <2>1. D \cup {i} \in SUBSET Ids
    BY <1>1 DEF D
  <2>2. n.orders \in [D \cup {i} -> Orders!Order]
    BY <1>1, <1>5, <1>7 DEF D
  <2>3. n.tag \in [D \cup {i} -> [client : Callers, session : Sessions]]
    BY <1>1, <1>5, <1>8 DEF D
  <2>4. n.orders \in Table(Orders!Order) /\ n.tag \in Table([client : Callers, session : Sessions])
    BY <2>1, <2>2, <2>3, TableFacts
  <2> QED
    BY <1>1, <1>5, <2>4 DEF BookType
<1>10. IsFiniteSet(DOMAIN n.orders)
  BY <1>1, <1>6, FS_AddElement DEF BookOK, D
<1>11. \A f \in n.fills :
         /\ f.order \in DOMAIN n.orders /\ f.bar <= b
         /\ Orders!LastOfDate(f.bar) => ~Orders!OnExpiringContract(n.orders[f.order], f.bar)
  BY <1>1, <1>5, <1>6 DEF BookOK, D
<1>12. \A j \in DOMAIN n.live : n.live[j] \in DOMAIN n.orders
  BY <1>1, <1>5, <1>6 DEF BookOK, D
<1>13. ASSUME NEW j \in DOMAIN n.orders
       PROVE  /\ OrderOK(n.orders[j], b) /\ IsFiniteSet(TradesFor(n.fills, j))
              /\ n.orders[j].filled = QtyOf(TradesFor(n.fills, j))
  <2>1. CASE j \in D
    BY <1>1, <1>5, <1>6, <2>1 DEF BookOK, D
  <2>2. CASE j = i
    <3>1. TradesFor(n.fills, i) = {}
      BY <1>1, <1>5 DEF TradesFor, BookOK
    <3> QED
      BY <1>6, <1>7, <2>2, <3>1, NoQty, FS_EmptySet
  <2> QED
    BY <1>6, <2>1, <2>2
<1>14. ClientsOnce(n)
  <2>1. c # NoClient => \A j \in D : k.tag[j].client # c
    BY DEF PlacedBy, D
  <2>2. \A j \in D : n.tag[j].client = k.tag[j].client /\ n.tag[i].client = c
    BY <1>6, <1>8
  <2>3. \A j, l \in D : j # l => k.tag[j].client # k.tag[l].client \/ k.tag[j].client = NoClient
    BY <1>1 DEF BookOK, ClientsOnce, D
  <2> QED
    BY <1>6, <2>1, <2>2, <2>3 DEF ClientsOnce
<1>15. BookOK(n, b)
  BY <1>6, <1>10, <1>11, <1>12, <1>13, <1>14 DEF BookOK
<1> QED
  BY <1>4, <1>9, <1>15 DEF Books

\* An open order of a book is cancelled.
LEMMA CancelledBooks ==
  ASSUME NEW b, NEW k \in Books(b), NEW i \in DOMAIN k.orders, Orders!IsOpen(k.orders[i])
  PROVE  [k EXCEPT !.orders[i] = Orders!Cancelled(@)] \in Books(b)
<1>1. /\ k \in BookType /\ BookOK(k, b)
      /\ k.orders \in [DOMAIN k.orders -> Orders!Order] /\ DOMAIN k.orders \in SUBSET Ids
  BY TableFacts DEF Books, BookType
<1> DEFINE D == DOMAIN k.orders
<1>2. PICK o : o = Orders!Cancelled(k.orders[i])
  OBVIOUS
<1>3. PICK n : n = [k EXCEPT !.orders[i] = Orders!Cancelled(@)]
  OBVIOUS
<1>4. /\ n.orders = [k.orders EXCEPT ![i] = o] /\ n.tag = k.tag /\ n.fills = k.fills /\ n.live = k.live
      /\ n = [orders |-> n.orders, tag |-> n.tag, fills |-> n.fills, live |-> n.live]
  BY <1>1, <1>2, <1>3 DEF BookType
<1>5. DOMAIN n.orders = D /\ n.orders[i] = o /\ \A j \in D \ {i} : n.orders[j] = k.orders[j]
  BY <1>1, <1>4
<1>6. /\ OrderOK(o, b) /\ o.filled = k.orders[i].filled /\ o.instr = k.orders[i].instr
      /\ o \in Orders!Order
  BY <1>1, <1>2, CancelledOK DEF BookOK, OrderOK
<1> HIDE DEF D
<1>7. n \in BookType
  <2>1. n.orders \in [D -> Orders!Order] /\ D \in SUBSET Ids
    BY <1>1, <1>4, <1>6 DEF D
  <2>2. n.orders \in Table(Orders!Order)
    BY <2>1, TableFacts
  <2> QED
    BY <1>1, <1>4, <2>2 DEF BookType
<1>8. \A j \in D : n.orders[j].instr = k.orders[j].instr /\ n.orders[j].filled = k.orders[j].filled
  BY <1>5, <1>6
<1>9. \A f \in n.fills :
        /\ f.order \in D /\ f.bar <= b
        /\ Orders!LastOfDate(f.bar) => ~Orders!OnExpiringContract(n.orders[f.order], f.bar)
  BY <1>1, <1>4, <1>8 DEF BookOK, D, Orders!OnExpiringContract
<1>10. \A j \in D : OrderOK(n.orders[j], b)
  BY <1>1, <1>5, <1>6 DEF BookOK, D
<1>11. \A j \in D : /\ IsFiniteSet(TradesFor(n.fills, j))
                    /\ n.orders[j].filled = QtyOf(TradesFor(n.fills, j))
  BY <1>1, <1>4, <1>8 DEF BookOK, D
<1>12. ClientsOnce(n)
  BY <1>1, <1>4, <1>5 DEF BookOK, ClientsOnce, D
<1>13. BookOK(n, b)
  BY <1>1, <1>4, <1>5, <1>9, <1>10, <1>11, <1>12 DEF BookOK, D
<1> QED
  BY <1>3, <1>7, <1>13 DEF Books

\* A session starts with no orders.
LEMMA EmptyBooks == EmptyBook \in Books(-1)
<1>1. /\ EmptyBook.fills = {} /\ DOMAIN EmptyBook.orders = {} /\ DOMAIN EmptyBook.tag = {}
      /\ DOMAIN EmptyBook.live = {}
  BY DEF EmptyBook
<1>2. EmptyBook \in BookType
  <2>1. PICK e : e = [i \in {} |-> 0]
    OBVIOUS
  <2>2. \A V : e \in [{} -> V]
    BY <2>1
  <2>3. /\ e \in Table(Orders!Order) /\ e \in Table([client : Callers, session : Sessions])
        /\ e \in Table(Ids)
    BY <2>2, TableFacts
  <2> QED
    BY <2>1, <2>3 DEF EmptyBook, BookType
<1>3. BookOK(EmptyBook, -1)
  BY <1>1, FS_EmptySet DEF BookOK, ClientsOnce
<1> QED
  BY <1>2, <1>3 DEF Books

-----------------------------------------------------------------------------
(* The actions of the log.                                                 *)

\* A natural number of a set that has one: the least.
LEMMA LeastOf ==
  ASSUME NEW S \in SUBSET Nat, S # {}
  PROVE  Min(S) \in S
<1>1. PICK m \in S : \A x \in S : ~ (<<x, m>> \in OpToRel(<, Nat))
  BY NatLessThanWellFounded, WFMin
<1>2. \A x \in S : m <= x
  <2>1. \A x \in S : x \in Nat /\ m \in Nat
    OBVIOUS
  <2>2. \A x \in S : ~ (x < m)
    BY <1>1, <2>1 DEF OpToRel
  <2> QED
    BY <2>1, <2>2
<1> QED
  BY <1>2 DEF Min

\* There is a fresh id.
LEMMA FreshIds ==
  ASSUME NEW taken, IsFiniteSet(taken)
  PROVE  FreshId(taken) \in Ids /\ FreshId(taken) \notin taken
<1> DEFINE n == Cardinality(taken) + 1
           S == (1..n) \ taken
<1>1. Cardinality(taken) \in Nat
  BY FS_CardinalityType
<1>2. IsFiniteSet(1..n) /\ Cardinality(1..n) = n
  BY <1>1, FS_Interval
<1>3. ~ (1..n \subseteq taken)
  BY <1>1, <1>2, FS_Subset
<1>4. S # {} /\ S \in SUBSET Nat
  BY <1>3
<1>5. Min(S) \in S
  BY <1>4, LeastOf
<1> QED
  BY <1>5 DEF FreshId, Ids

\* An action a session logged at bar b: its session and client are known.
Action ==
  [kind : {"place", "cancel"}, index : -1..LastBar, id : Ids, spec : Inputs \cup {0},
   client : Callers, session : Sessions]
ActionOK(a) == a \in Action /\ (a.kind = "place" => a.spec \in Inputs)
Actions == {a \in Action : ActionOK(a)}

\* The ids an order of a replay must not have are finitely many.
Taken(k) == DOMAIN orders \cup LoggedIds \cup DOMAIN k.orders

\* So they are.
LEMMA TakenFinite ==
  ASSUME NEW b, NEW k \in Books(b), IsFiniteSet(DOMAIN orders), IsFiniteSet(DOMAIN log)
  PROVE  IsFiniteSet(Taken(k))
<1>1. IsFiniteSet(LoggedIds)
  <2>1. PICK f : f = [j \in DOMAIN log |-> log[j].id]
    OBVIOUS
  <2>2. f \in Surjection(DOMAIN log, LoggedIds)
    BY <2>1 DEF Surjection, LoggedIds
  <2> QED
    BY <2>2, FS_Surjection
<1>2. IsFiniteSet(DOMAIN orders \cup LoggedIds)
  BY <1>1, FS_Union
<1>3. IsFiniteSet(DOMAIN k.orders)
  BY DEF Books, BookOK
<1> QED
  BY <1>2, <1>3, FS_Union DEF Taken

\* A logged action leads from a book to one at the same bar.
LEMMA ActionBooks ==
  ASSUME NEW b \in -1..LastBar, NEW k \in Books(b), NEW a \in Actions, a.index = b,
         IsFiniteSet(DOMAIN orders), IsFiniteSet(DOMAIN log)
  PROVE  ApplyAction(k, a) \in Books(b)
<1>1. /\ k \in BookType /\ BookOK(k, b) /\ DOMAIN k.orders \in SUBSET Ids
      /\ k.live \in [DOMAIN k.live -> Ids] /\ DOMAIN k.live \in SUBSET Ids
  BY TableFacts DEF Books, BookType
<1>2. a \in Action /\ (a.kind = "place" => a.spec \in Inputs)
  BY DEF Actions, ActionOK
<1>3. IsFiniteSet(Taken(k))
  BY TakenFinite
<1>4. CASE a.kind = "place"
  <2> DEFINE seen == PlacedBy(k, a.client)
  <2>1. seen \subseteq DOMAIN k.orders /\ seen \subseteq Nat
    BY <1>1 DEF PlacedBy, Ids
  <2>2. seen # {} => Min(seen) \in DOMAIN k.orders
    BY <2>1, LeastOf
  <2>3. PICK i : i = IF seen # {} THEN Min(seen) ELSE FreshId(Taken(k))
    OBVIOUS
  <2>4. i \in Ids /\ (seen = {} => i \notin DOMAIN k.orders) /\ (seen # {} => i \in DOMAIN k.orders)
    BY <1>1, <1>3, <2>2, <2>3, FreshIds DEF Taken
  <2>5. PICK l : l = [j \in DOMAIN k.live \cup {a.id} |-> IF j = a.id THEN i ELSE k.live[j]]
    OBVIOUS
  <2>6. PICK m : m = [k EXCEPT !.live = l]
    OBVIOUS
  <2>7. /\ m.orders = k.orders /\ m.tag = k.tag /\ m.fills = k.fills /\ m.live = l
        /\ m = [orders |-> m.orders, tag |-> m.tag, fills |-> m.fills, live |-> m.live]
    BY <1>1, <2>6 DEF BookType
  <2>8. /\ ~Orders!Valid(a.spec) => ApplyAction(k, a) = k
        /\ Orders!Valid(a.spec) /\ seen # {} => ApplyAction(k, a) = m
        /\ Orders!Valid(a.spec) /\ seen = {} =>
             ApplyAction(k, a) = Submitted(m, i, a.spec, a.client, a.session, a.index)
    BY <1>4, <2>3, <2>5, <2>6 DEF ApplyAction, Taken
  <2> HIDE DEF seen
  <2>9. seen # {} => m \in Books(b)
    <3> SUFFICES ASSUME seen # {} PROVE m \in Books(b)
      OBVIOUS
    <3>1. l \in [DOMAIN k.live \cup {a.id} -> Ids] /\ DOMAIN k.live \cup {a.id} \in SUBSET Ids
      BY <1>1, <1>2, <2>4, <2>5 DEF Action
    <3>2. l \in Table(Ids)
      BY <3>1, TableFacts
    <3>3. m \in BookType
      BY <1>1, <2>7, <3>2 DEF BookType
    <3>4. \A j \in DOMAIN m.live : m.live[j] \in DOMAIN m.orders
      BY <1>1, <2>4, <2>5, <2>7 DEF BookOK
    <3>5. BookOK(m, b)
      BY <1>1, <2>7, <3>4 DEF BookOK, ClientsOnce
    <3> QED
      BY <3>3, <3>5 DEF Books
  <2>10. seen = {} /\ Orders!Valid(a.spec) =>
           Submitted(m, i, a.spec, a.client, a.session, b) \in Books(b)
    <3> SUFFICES ASSUME seen = {} PROVE Submitted(m, i, a.spec, a.client, a.session, b) \in Books(b)
      OBVIOUS
    <3>1. a.spec \in Orders!OrderSpec /\ a.client \in Callers /\ a.session \in Sessions
      BY <1>2, <1>4, BookAssumption DEF Action
    <3>2. Submitted(k, i, a.spec, a.client, a.session, b) \in Books(b)
      BY <2>4, <3>1, SubmittedBooks DEF seen
    <3>3. PICK p : p = Submitted(k, i, a.spec, a.client, a.session, b)
      OBVIOUS
    <3>4. PICK n : n = Submitted(m, i, a.spec, a.client, a.session, b)
      OBVIOUS
    <3>5. /\ n.orders = p.orders /\ n.tag = p.tag /\ n.fills = p.fills /\ n.live = l
          /\ n = [orders |-> n.orders, tag |-> n.tag, fills |-> n.fills, live |-> n.live]
          /\ p.live = k.live /\ i \in DOMAIN p.orders /\ DOMAIN k.orders \subseteq DOMAIN p.orders
      BY <1>1, <2>7, <3>3, <3>4 DEF Submitted, BookType
    <3>6. p \in BookType /\ BookOK(p, b)
      BY <3>2, <3>3 DEF Books
    <3>7. l \in [DOMAIN k.live \cup {a.id} -> Ids] /\ DOMAIN k.live \cup {a.id} \in SUBSET Ids
      BY <1>1, <1>2, <2>4, <2>5 DEF Action
    <3>8. l \in Table(Ids)
      BY <3>7, TableFacts
    <3>9. n \in BookType
      BY <3>5, <3>6, <3>8 DEF BookType
    <3>10. \A j \in DOMAIN n.live : n.live[j] \in DOMAIN n.orders
      BY <1>1, <2>5, <3>5 DEF BookOK
    <3>11. BookOK(n, b)
      BY <3>5, <3>6, <3>10 DEF BookOK, ClientsOnce
    <3> QED
      BY <3>4, <3>9, <3>11 DEF Books
  <2> QED
    BY <2>8, <2>9, <2>10
<1>5. CASE a.kind # "place"
  <2>1. PICK i : i = Live(k, a.id)
    OBVIOUS
  <2>2. CASE i \in DOMAIN k.orders /\ Orders!IsOpen(k.orders[i])
    <3>1. ApplyAction(k, a) = [k EXCEPT !.orders[i] = Orders!Cancelled(@)]
      BY <1>5, <2>1, <2>2 DEF ApplyAction
    <3> QED
      BY <2>2, <3>1, CancelledBooks
  <2>3. CASE ~ (i \in DOMAIN k.orders /\ Orders!IsOpen(k.orders[i]))
    BY <1>5, <2>1, <2>3 DEF ApplyAction
  <2> QED
    BY <2>2, <2>3
<1> QED
  BY <1>4, <1>5

\* v goes from book k through the actions of as one action at a time.
Applies(v, k, n, as) ==
  /\ v[0] = k /\ v[n] = Applied(k, as)
  /\ \A m \in 1..n : v[m] = ApplyAction(v[m - 1], as[m])

\* The books a sequence of actions at bar b goes through.
LEMMA AppliedSteps ==
  ASSUME NEW b \in -1..LastBar, NEW k \in Books(b), NEW n \in Nat, NEW as \in [1..n -> Actions],
         \A m \in 1..n : as[m].index = b,
         IsFiniteSet(DOMAIN orders), IsFiniteSet(DOMAIN log)
  PROVE  \E v \in [0..n -> Books(b)] : Applies(v, k, n, as)
<1> DEFINE R(it) == it = [s \in SUBSET (1..n) |->
                       IF s = {} THEN k ELSE ApplyAction(it[s \ {Max(s)}], as[Max(s)])]
           step == [p \in Books(b) \X (1..n) |-> ApplyAction(p[1], as[p[2]])]
           ch == LastOf(n)
<1>1. DOMAIN as = 1..n
  OBVIOUS
<1>2. Applied(k, as) = (CHOOSE it : R(it))[1..n]
  BY <1>1 DEF Applied, FoldLeft, MapThenFoldSet
<1>3. step \in [Books(b) \X (1..n) -> Books(b)]
  BY ActionBooks
<1>4. IsFiniteSet(1..n) /\ IsChoice(ch, 1..n)
  BY FS_Interval, LastOfChoice
<1>5. \A s \in (SUBSET (1..n)) \ {{}} : ch[s] = Max(s) /\ Max(s) \in 1..n
  BY MaxOfIndices DEF LastOf
<1> HIDE DEF ch
<1>6. PICK it \in [SUBSET (1..n) -> Books(b)] : IsRecursion(it, 1..n, k, step, ch)
  <2> HIDE DEF step
  <2> QED
    BY <1>3, <1>4, SubsetRecursion
<1>7. R(it)
  <2>1. ASSUME NEW s \in SUBSET (1..n)
        PROVE  it[s] = IF s = {} THEN k ELSE ApplyAction(it[s \ {Max(s)}], as[Max(s)])
    <3>1. CASE s = {}
      BY <1>6, <3>1 DEF IsRecursion
    <3>2. CASE s # {}
      <4>1. it[s] = step[<<it[s \ {Max(s)}], Max(s)>>]
        BY <1>5, <1>6, <3>2 DEF IsRecursion
      <4>2. it[s \ {Max(s)}] \in Books(b) /\ Max(s) \in 1..n
        BY <1>5, <1>6, <3>2
      <4> QED
        BY <3>2, <4>1, <4>2
    <3> QED
      BY <3>1, <3>2
  <2> QED
    BY <1>6, <2>1
<1>8. PICK jt : R(jt) /\ jt = CHOOSE i : R(i)
  BY <1>7
<1> DEFINE v == [m \in 0..n |-> jt[1..m]]
<1>9. v[0] = k /\ v[n] = jt[1..n]
  <2>1. 1..0 = {} /\ {} \in SUBSET (1..n) /\ 0 \in 0..n /\ n \in 0..n
    OBVIOUS
  <2>2. jt[{}] = k
    BY <1>8, <2>1
  <2>3. v[0] = jt[1..0] /\ v[n] = jt[1..n]
    BY <2>1
  <2> QED
    BY <2>1, <2>2, <2>3
<1>10. ASSUME NEW m \in 1..n PROVE v[m] = ApplyAction(v[m - 1], as[m])
  <2>1. 1..m \in SUBSET (1..n) /\ 1..m # {} /\ Max(1..m) = m /\ (1..m) \ {m} = 1..(m - 1)
    BY LastOfFirst
  <2>2. jt[1..m] = ApplyAction(jt[1..(m - 1)], as[m])
    BY <1>8, <2>1
  <2>3. m \in 0..n /\ m - 1 \in 0..n
    OBVIOUS
  <2> QED
    BY <2>2, <2>3
<1>11. v[n] = Applied(k, as)
  BY <1>2, <1>8, <1>9
<1> HIDE DEF R
<1>12. v \in [0..n -> Books(b)]
  <2> DEFINE Good == {m \in 0..n : v[m] \in Books(b)}
  <2>1. 0 \in Good /\ Good \in SUBSET (0..n)
    BY <1>9
  <2>2. ASSUME NEW m \in 1..n, m - 1 \in Good PROVE m \in Good
    <3>1. PICK x : x = v[m - 1]
      OBVIOUS
    <3>2. PICK a : a = as[m]
      OBVIOUS
    <3>3. x \in Books(b) /\ a \in Actions /\ a.index = b
      BY <2>2, <3>1, <3>2
    <3>4. ApplyAction(x, a) \in Books(b)
      BY <3>3, ActionBooks
    <3>5. v[m] = ApplyAction(x, a)
      BY <1>10, <3>1, <3>2
    <3>6. v[m] \in Books(b) /\ m \in 0..n
      BY <3>4, <3>5
    <3> QED
      BY <3>6
  <2>3. Good = 0..n
    <3> HIDE DEF Good
    <3> QED
      BY <2>1, <2>2, IndexInduction
  <2> QED
    BY <2>3
<1> HIDE DEF v
<1> QED
  BY <1>9, <1>10, <1>11, <1>12 DEF Applies

\* A sequence of actions at bar b leads from a book to one at the same bar.
LEMMA AppliedBooks ==
  ASSUME NEW b \in -1..LastBar, NEW k \in Books(b), NEW n \in Nat, NEW as \in [1..n -> Actions],
         \A m \in 1..n : as[m].index = b,
         IsFiniteSet(DOMAIN orders), IsFiniteSet(DOMAIN log)
  PROVE  Applied(k, as) \in Books(b)
<1>1. PICK v \in [0..n -> Books(b)] : Applies(v, k, n, as)
  BY AppliedSteps
<1>2. n \in 0..n
  OBVIOUS
<1> QED
  BY <1>1, <1>2 DEF Applies

-----------------------------------------------------------------------------
(* The actions taken at some bars.                                         *)

\* v goes through the actions of a selection one action at a time.
Selects(v, s, n, bars) ==
  /\ v[0] = <<>> /\ v[n] = TakenAt(s, bars)
  /\ \A m \in 1..n :
       v[m] = IF s[m].index \in bars THEN Append(v[m - 1], s[m]) ELSE v[m - 1]

\* The sequences a selection goes through.
LEMMA TakenSteps ==
  ASSUME NEW S, NEW n \in Nat, NEW s \in [1..n -> S], NEW bars
  PROVE  \E v \in [0..n -> Seq(S)] : Selects(v, s, n, bars)
<1>14. PICK e : e = <<>>
  OBVIOUS
<1>15. PICK A : A = Seq(S)
  OBVIOUS
<1> DEFINE One(kept, a) == IF a.index \in bars THEN Append(kept, a) ELSE kept
           R(it) == it = [T \in SUBSET (1..n) |->
                       IF T = {} THEN e ELSE One(it[T \ {Max(T)}], s[Max(T)])]
           step == [p \in A \X (1..n) |-> One(p[1], s[p[2]])]
           ch == LastOf(n)
<1>1. DOMAIN s = 1..n
  OBVIOUS
<1>2. TakenAt(s, bars) = (CHOOSE it : R(it))[1..n]
  BY <1>1, <1>14 DEF TakenAt, FoldLeft, MapThenFoldSet
<1>16. e \in A /\ \A w \in A, a \in S : One(w, a) \in A
  <2>1. e \in Seq(S) /\ \A w \in Seq(S), a \in S : One(w, a) \in Seq(S)
    BY <1>14
  <2> QED
    BY <2>1, <1>15
<1> HIDE DEF One
<1>3. step \in [A \X (1..n) -> A]
  BY <1>16
<1>4. IsFiniteSet(1..n) /\ IsChoice(ch, 1..n)
  BY FS_Interval, LastOfChoice
<1>5. \A T \in (SUBSET (1..n)) \ {{}} : ch[T] = Max(T) /\ Max(T) \in 1..n
  BY MaxOfIndices DEF LastOf
<1> HIDE DEF ch
<1>6. PICK it \in [SUBSET (1..n) -> A] : IsRecursion(it, 1..n, e, step, ch)
  <2> HIDE DEF step
  <2> QED
    BY <1>3, <1>4, <1>16, SubsetRecursion
<1>7. R(it)
  <2>1. ASSUME NEW T \in SUBSET (1..n)
        PROVE  it[T] = IF T = {} THEN e ELSE One(it[T \ {Max(T)}], s[Max(T)])
    <3>1. CASE T = {}
      BY <1>6, <3>1 DEF IsRecursion
    <3>2. CASE T # {}
      <4>1. it[T] = step[<<it[T \ {Max(T)}], Max(T)>>]
        BY <1>5, <1>6, <3>2 DEF IsRecursion
      <4>2. it[T \ {Max(T)}] \in A /\ Max(T) \in 1..n
        BY <1>5, <1>6, <3>2
      <4> QED
        BY <3>2, <4>1, <4>2
    <3> QED
      BY <3>1, <3>2
  <2> QED
    BY <1>6, <2>1
<1>8. PICK jt : R(jt) /\ jt = CHOOSE i : R(i)
  BY <1>7
<1> DEFINE v == [m \in 0..n |-> jt[1..m]]
<1>9. v[0] = e /\ v[n] = jt[1..n]
  <2>1. 1..0 = {} /\ {} \in SUBSET (1..n) /\ 0 \in 0..n /\ n \in 0..n
    OBVIOUS
  <2>2. jt[{}] = e
    BY <1>8, <2>1
  <2>3. v[0] = jt[1..0] /\ v[n] = jt[1..n]
    BY <2>1
  <2> QED
    BY <2>1, <2>2, <2>3
<1>10. ASSUME NEW m \in 1..n PROVE v[m] = One(v[m - 1], s[m])
  <2>1. 1..m \in SUBSET (1..n) /\ 1..m # {} /\ Max(1..m) = m /\ (1..m) \ {m} = 1..(m - 1)
    BY LastOfFirst
  <2>2. jt[1..m] = One(jt[1..(m - 1)], s[m])
    BY <1>8, <2>1
  <2>3. m \in 0..n /\ m - 1 \in 0..n
    OBVIOUS
  <2> QED
    BY <2>2, <2>3
<1>11. v[n] = TakenAt(s, bars)
  BY <1>2, <1>8, <1>9
<1> HIDE DEF R
<1>12. v \in [0..n -> A]
  <2> DEFINE Good == {m \in 0..n : v[m] \in A}
  <2>1. 0 \in Good /\ Good \in SUBSET (0..n)
    BY <1>9, <1>16
  <2>2. ASSUME NEW m \in 1..n, m - 1 \in Good PROVE m \in Good
    <3>1. PICK w : w = v[m - 1]
      OBVIOUS
    <3>2. PICK a : a = s[m]
      OBVIOUS
    <3>3. w \in A /\ a \in S
      BY <2>2, <3>1, <3>2
    <3>4. One(w, a) \in A
      BY <3>3, <1>16
    <3>5. v[m] = One(w, a) /\ m \in 0..n
      BY <1>10, <3>1, <3>2
    <3> QED
      BY <3>4, <3>5
  <2>3. Good = 0..n
    <3> HIDE DEF Good
    <3> QED
      BY <2>1, <2>2, IndexInduction
  <2> QED
    BY <2>3
<1> HIDE DEF v
<1> QED
  BY <1>9, <1>10, <1>11, <1>12, <1>14, <1>15 DEF One, Selects

\* f takes m of the first n indices, in their order.
Increasing(f, m, n) ==
  f \in [1..m -> 1..n] /\ \A j, k \in 1..m : j < k => f[j] < f[k]

\* f names the actions of s at the given bars.
Names(f, m, s, n, bars) ==
  /\ Increasing(f, m, n)
  /\ TakenAt(s, bars) = [k \in 1..m |-> s[f[k]]]
  /\ \A j \in 1..n : s[j].index \in bars <=> \E k \in 1..m : f[k] = j

\* A selection takes the actions of its bars, in their order.
LEMMA TakenFacts ==
  ASSUME NEW S, NEW n \in Nat, NEW s \in [1..n -> S], NEW bars
  PROVE  \E m, f : m \in Nat /\ Names(f, m, s, n, bars)
<1>0. PICK v \in [0..n -> Seq(S)] : Selects(v, s, n, bars)
  BY TakenSteps
<1>1. /\ v[0] = <<>> /\ v[n] = TakenAt(s, bars)
      /\ \A m \in 1..n :
             v[m] = IF s[m].index \in bars THEN Append(v[m - 1], s[m]) ELSE v[m - 1]
  BY <1>0 DEF Selects
<1> DEFINE Takes(q, m, f) ==
             /\ m \in Nat /\ Increasing(f, m, n) /\ \A k \in 1..m : f[k] <= q
             /\ v[q] = [k \in 1..m |-> s[f[k]]]
             /\ \A j \in 1..q : s[j].index \in bars <=> \E k \in 1..m : f[k] = j
           Good == {q \in 0..n : \E m, f : Takes(q, m, f)}
<1>2. 0 \in Good
  <2>1. PICK f : f = [k \in 1..0 |-> 0]
    OBVIOUS
  <2>2. Increasing(f, 0, n)
    <3>1. f \in [1..0 -> 1..n] /\ 1..0 = {}
      BY <2>1
    <3> QED
      BY <3>1 DEF Increasing
  <2>3. v[0] = [k \in 1..0 |-> s[f[k]]]
    BY <1>1
  <2>4. Takes(0, 0, f)
    BY <2>1, <2>2, <2>3
  <2> HIDE DEF Takes
  <2> QED
    BY <2>4
<1>3. ASSUME NEW q \in 1..n, q - 1 \in Good PROVE q \in Good
  <2>1. PICK m, f : Takes(q - 1, m, f)
    BY <1>3
  <2>2. m \in Nat /\ f \in [1..m -> 1..n] /\ \A k \in 1..m : f[k] \in Int /\ f[k] <= q - 1 /\ f[k] < q
    BY <2>1 DEF Increasing
  <2>3. CASE s[q].index \in bars
    <3>1. PICK g : g = [k \in 1..(m + 1) |-> IF k = m + 1 THEN q ELSE f[k]]
      OBVIOUS
    <3>2. g \in [1..(m + 1) -> 1..n] /\ g[m + 1] = q /\ \A k \in 1..m : g[k] = f[k]
      <4>1. m + 1 \in 1..(m + 1) /\ \A k \in 1..m : k \in 1..(m + 1) /\ k # m + 1
        BY <2>2
      <4>2. g[m + 1] = q /\ \A k \in 1..m : g[k] = f[k]
        BY <3>1, <4>1
      <4>3. \A k \in 1..(m + 1) : k \in 1..m \/ k = m + 1
        BY <2>2
      <4>4. \A k \in 1..(m + 1) : g[k] \in 1..n
        BY <2>2, <4>2, <4>3
      <4> QED
        BY <3>1, <4>2, <4>4
    <3>3. Increasing(g, m + 1, n) /\ \A k \in 1..(m + 1) : g[k] <= q
      <4>1. \A j, k \in 1..(m + 1) : j < k => j \in 1..m /\ (k \in 1..m \/ k = m + 1)
        BY <2>2
      <4>2. \A j, k \in 1..m : j < k => f[j] < f[k]
        BY <2>1 DEF Increasing
      <4>3. \A j, k \in 1..(m + 1) : j < k => g[j] < g[k]
        BY <2>2, <3>2, <4>1, <4>2
      <4>4. \A k \in 1..(m + 1) : k \in 1..m \/ k = m + 1
        BY <2>2
      <4>5. ASSUME NEW k \in 1..(m + 1) PROVE g[k] <= q
        <5>1. CASE k = m + 1
          BY <3>2, <5>1
        <5>2. CASE k \in 1..m
          <6>1. f[k] <= q
            BY <2>2, <5>2
          <6> QED
            BY <3>2, <5>2, <6>1
        <5> QED
          BY <4>4, <5>1, <5>2
      <4>6. Increasing(g, m + 1, n)
        BY <3>2, <4>3 DEF Increasing
      <4> QED
        BY <4>5, <4>6
    <3>4. v[q - 1] \in [1..m -> S] /\ v[q - 1] \in Seq(S)
      BY <2>1, <2>2
    <3>5. v[q] = Append(v[q - 1], s[q])
      BY <1>1, <2>3
    <3>6. v[q] = [k \in 1..(m + 1) |-> s[g[k]]]
      <4>1. PICK w : w = v[q - 1]
        OBVIOUS
      <4>2. Len(w) = m /\ w \in Seq(S)
        BY <2>2, <3>4, <4>1
      <4>3. Append(w, s[q]) = [k \in 1..(m + 1) |-> IF k = m + 1 THEN s[q] ELSE w[k]]
        BY <4>2
      <4>4. \A k \in 1..m : w[k] = s[f[k]]
        BY <2>1, <4>1
      <4>5. \A k \in 1..(m + 1) : k \in 1..m \/ k = m + 1
        BY <2>2
      <4>6. \A k \in 1..(m + 1) : (IF k = m + 1 THEN s[q] ELSE w[k]) = s[g[k]]
        BY <3>2, <4>4, <4>5
      <4> QED
        BY <3>5, <4>1, <4>3, <4>6
    <3>7. \A j \in 1..q : s[j].index \in bars <=> \E k \in 1..(m + 1) : g[k] = j
      <4>1. ASSUME NEW j \in 1..(q - 1)
            PROVE  s[j].index \in bars <=> \E k \in 1..(m + 1) : g[k] = j
        <5>1. s[j].index \in bars <=> \E k \in 1..m : f[k] = j
          BY <2>1
        <5>2. (\E k \in 1..m : f[k] = j) => \E k \in 1..(m + 1) : g[k] = j
          <6> SUFFICES ASSUME NEW k \in 1..m, f[k] = j PROVE \E l \in 1..(m + 1) : g[l] = j
            OBVIOUS
          <6>1. g[k] = j /\ k \in 1..(m + 1)
            BY <2>2, <3>2
          <6> QED
            BY <6>1
        <5>3. (\E k \in 1..(m + 1) : g[k] = j) => \E k \in 1..m : f[k] = j
          <6> SUFFICES ASSUME NEW k \in 1..(m + 1), g[k] = j PROVE \E l \in 1..m : f[l] = j
            OBVIOUS
          <6>1. k # m + 1 /\ j # q
            BY <3>2
          <6>2. k \in 1..m
            BY <2>2, <6>1
          <6>3. f[k] = j
            BY <3>2, <6>2
          <6> QED
            BY <6>2, <6>3
        <5> QED
          BY <5>1, <5>2, <5>3
      <4>2. \E k \in 1..(m + 1) : g[k] = q
        BY <2>2, <3>2
      <4>3. \A j \in 1..q : j \in 1..(q - 1) \/ j = q
        OBVIOUS
      <4> QED
        BY <2>3, <4>1, <4>2, <4>3
    <3>8. Takes(q, m + 1, g)
      BY <2>2, <3>3, <3>6, <3>7
    <3>9. m + 1 \in Nat /\ q \in 0..n
      BY <2>2
    <3> HIDE DEF Takes
    <3> QED
      BY <3>8, <3>9
  <2>4. CASE s[q].index \notin bars
    <3>1. v[q] = v[q - 1]
      BY <1>1, <2>4
    <3>2. \A k \in 1..m : f[k] <= q /\ f[k] # q
      BY <2>2
    <3>3. \A j \in 1..q : s[j].index \in bars <=> \E k \in 1..m : f[k] = j
      <4>1. \A j \in 1..q : j \in 1..(q - 1) \/ j = q
        OBVIOUS
      <4> QED
        BY <2>1, <2>2, <2>4, <3>2, <4>1
    <3>4. Takes(q, m, f)
      BY <2>1, <3>1, <3>2, <3>3
    <3>5. q \in 0..n
      OBVIOUS
    <3> HIDE DEF Takes
    <3> QED
      BY <3>4, <3>5
  <2> QED
    BY <2>3, <2>4
<1>4. Good = 0..n
  <2> HIDE DEF Good
  <2>1. Good \in SUBSET (0..n)
    BY DEF Good
  <2> QED
    BY <1>2, <1>3, <2>1, IndexInduction
<1>5. PICK m, f : Takes(n, m, f)
  <2> HIDE DEF Takes
  <2>1. n \in Good
    <3> HIDE DEF Good
    <3> QED
      BY <1>4
  <2> QED
    BY <2>1
<1>6. m \in Nat /\ Names(f, m, s, n, bars)
  BY <1>1, <1>5 DEF Names
<1> QED
  BY <1>6

\* f takes the indices after lo up to hi.
Covers(f, m, n, lo, hi) ==
  \A j \in 1..n : j \in (lo + 1)..hi <=> \E k \in 1..m : f[k] = j

\* An increasing selection of all indices between lo and hi shifts by lo.
LEMMA Shift ==
  ASSUME NEW n \in Nat, NEW m \in Nat, NEW f, Increasing(f, m, n),
         NEW lo \in 0..n, NEW hi \in lo..n,
         Covers(f, m, n, lo, hi)
  PROVE  m = hi - lo /\ \A k \in 1..m : f[k] = lo + k
<1>1. f \in [1..m -> 1..n] /\ \A j, k \in 1..m : j < k => f[j] < f[k]
  BY DEF Increasing
<1>2. \A k \in 1..m : f[k] \in (lo + 1)..hi
  BY <1>1 DEF Covers
<1> DEFINE Good == {k \in 0..m : k = 0 \/ f[k] = lo + k}
<1>3. ASSUME NEW k \in 1..m, k - 1 \in Good PROVE k \in Good
  <2>1. f[k] \in Int /\ f[k] >= lo + k
    <3>1. CASE k = 1
      BY <1>2, <3>1
    <3>2. CASE k # 1
      <4>1. k - 1 \in 1..m /\ f[k - 1] = lo + (k - 1) /\ k - 1 < k
        BY <1>3, <3>2
      <4>2. f[k - 1] < f[k] /\ f[k] \in Int
        BY <1>1, <4>1
      <4> QED
        BY <4>1, <4>2
    <3> QED
      BY <3>1, <3>2
  <2>2. lo + k \in (lo + 1)..hi /\ lo + k \in 1..n
    BY <1>2, <2>1
  <2>3. PICK j \in 1..m : f[j] = lo + k
    BY <2>2 DEF Covers
  <2>4. ~ (j < k)
    <3> SUFFICES ASSUME j < k PROVE FALSE
      OBVIOUS
    <3>1. k - 1 \in 1..m /\ f[k - 1] = lo + (k - 1) /\ j <= k - 1
      BY <1>3
    <3>2. f[j] \in Int /\ f[k - 1] \in Int /\ f[j] <= f[k - 1]
      BY <1>1, <3>1
    <3>3. lo \in Int /\ k \in Int
      OBVIOUS
    <3> QED
      BY <2>3, <3>1, <3>2, <3>3
  <2>5. f[k] <= f[j]
    <3>1. k = j \/ k < j
      BY <2>4
    <3>2. f[k] \in Int /\ f[j] \in Int
      BY <1>1
    <3>3. k < j => f[k] < f[j]
      BY <1>1
    <3> QED
      BY <3>1, <3>2, <3>3
  <2>6. f[k] = lo + k /\ k \in 0..m
    BY <2>1, <2>3, <2>5
  <2> QED
    BY <2>6
<1>4. Good = 0..m
  <2>1. 0 \in Good /\ Good \in SUBSET (0..m)
    OBVIOUS
  <2> HIDE DEF Good
  <2> QED
    BY <1>3, <2>1, IndexInduction
<1>5. \A k \in 1..m : f[k] = lo + k
  <2> TAKE k \in 1..m
  <2>1. k \in Good /\ k # 0
    BY <1>4
  <2> QED
    BY <2>1
<1>6. m = hi - lo
  <2>1. m <= hi - lo
    <3>1. CASE m = 0
      BY <3>1
    <3>2. CASE m # 0
      <4>1. m \in 1..m
        BY <3>2
      <4>2. f[m] = lo + m /\ f[m] <= hi
        BY <1>2, <1>5, <4>1
      <4> QED
        BY <4>2
    <3> QED
      BY <3>1, <3>2
  <2>2. hi # lo => \E k \in 1..m : k = hi - lo
    <3> SUFFICES ASSUME hi # lo PROVE \E k \in 1..m : k = hi - lo
      OBVIOUS
    <3>1. hi \in (lo + 1)..hi /\ hi \in 1..n
      OBVIOUS
    <3>2. PICK k \in 1..m : f[k] = hi
      BY <3>1 DEF Covers
    <3>3. f[k] = lo + k
      BY <1>5
    <3> QED
      BY <3>2, <3>3
  <2> QED
    BY <2>1, <2>2
<1> QED
  BY <1>5, <1>6

\* The actions of s at the given bars are those after place lo up to place hi.
Between(s, n, bars, lo, hi) ==
  \A j \in 1..n : s[j].index \in bars <=> j \in (lo + 1)..hi

\* Those actions.
Stretch(s, lo, hi) == [k \in 1..(hi - lo) |-> s[lo + k]]
TakesStretch(s, bars, lo, hi) == TakenAt(s, bars) = Stretch(s, lo, hi)

\* A selection of the actions between two places of a sequence is that segment.
LEMMA TakenSegment ==
  ASSUME NEW S, NEW n \in Nat, NEW s \in [1..n -> S], NEW bars,
         NEW lo \in 0..n, NEW hi \in lo..n,
         Between(s, n, bars, lo, hi)
  PROVE  TakesStretch(s, bars, lo, hi)
<1>1. PICK m, f : m \in Nat /\ Names(f, m, s, n, bars)
  BY TakenFacts
<1>2. Covers(f, m, n, lo, hi)
  BY <1>1 DEF Names, Covers, Between
<1>3. m \in Nat /\ Increasing(f, m, n)
  BY <1>1 DEF Names
<1>4. m = hi - lo /\ \A k \in 1..m : f[k] = lo + k
  BY <1>2, <1>3, Shift
<1> QED
  BY <1>1, <1>4 DEF Names, Stretch, TakesStretch

-----------------------------------------------------------------------------
(* Logs and their replay.                                                  *)

\* The actions of a log are in the order of their bars.
Chronological(l) == \A j, k \in DOMAIN l : j < k => l[j].index <= l[k].index

Logs == {l \in Seq(Actions) : Chronological(l)}

\* How many actions of a log were taken up to bar t.
CutsAt(l, m, t) == \A j \in DOMAIN l : l[j].index <= t <=> j \in 1..m
Upto(l, t) == CHOOSE m \in 0..Len(l) : CutsAt(l, m, t)

\* They come first.
LEMMA UptoFacts ==
  ASSUME NEW l \in Logs, NEW t \in Int
  PROVE  Upto(l, t) \in 0..Len(l) /\ CutsAt(l, Upto(l, t), t)
<1>1. PICK n : n = Len(l)
  OBVIOUS
<1>2. /\ n \in Nat /\ l \in [1..n -> Actions] /\ DOMAIN l = 1..n
      /\ \A j \in 1..n : l[j].index \in Int
      /\ \A j, k \in 1..n : j < k => l[j].index <= l[k].index
  <2>1. l \in Seq(Actions) /\ Chronological(l)
    BY DEF Logs
  <2>2. n \in Nat /\ l \in [1..n -> Actions] /\ DOMAIN l = 1..n
    BY <1>1, <2>1
  <2>3. \A a \in Actions : a.index \in Int
    BY BookAssumption DEF Actions, Action
  <2>4. \A j \in 1..n : l[j].index \in Int
    BY <2>2, <2>3
  <2> QED
    BY <2>1, <2>2, <2>4 DEF Chronological
<1> DEFINE T == {j \in 1..n : l[j].index <= t}
<1>3. \E m \in 0..n : CutsAt(l, m, t)
  <2>1. CASE T = {}
    <3>1. \A j \in 1..n : ~ (l[j].index <= t) /\ j \notin 1..0
      BY <1>2, <2>1
    <3>2. CutsAt(l, 0, t) /\ 0 \in 0..n
      BY <1>2, <3>1 DEF CutsAt
    <3> QED
      BY <3>2
  <2>2. CASE T # {}
    <3>1. PICK m : m = Max(T)
      OBVIOUS
    <3>2. T \in SUBSET (1..n)
      OBVIOUS
    <3>3. m \in T /\ \A x \in T : x <= m
      <4> HIDE DEF T
      <4> QED
        BY <1>2, <2>2, <3>1, <3>2, MaxOfIndices
    <3>4. m \in 1..n /\ l[m].index <= t
      BY <3>3
    <3>5. ASSUME NEW j \in 1..n PROVE l[j].index <= t <=> j \in 1..m
      <4>1. l[j].index <= t => j <= m
        BY <3>3
      <4>2. j < m => l[j].index <= l[m].index
        BY <1>2, <3>4
      <4>3. j <= m => l[j].index <= t
        BY <1>2, <3>4, <4>2
      <4> QED
        BY <3>4, <4>1, <4>3
    <3>6. CutsAt(l, m, t) /\ m \in 0..n
      BY <1>2, <3>4, <3>5 DEF CutsAt
    <3> QED
      BY <3>6
  <2> QED
    BY <2>1, <2>2
<1> HIDE DEF T
<1>4. \E m \in 0..Len(l) : CutsAt(l, m, t)
  BY <1>1, <1>3
<1> QED
  BY <1>4 DEF Upto

\* More bars, more actions.
LEMMA UptoGrows ==
  ASSUME NEW l \in Logs, NEW t \in Int, NEW u \in Int, t <= u
  PROVE  Upto(l, t) <= Upto(l, u)
<1>1. PICK m : m = Upto(l, t)
  OBVIOUS
<1>2. PICK n : n = Upto(l, u)
  OBVIOUS
<1>3. /\ m \in 0..Len(l) /\ n \in 0..Len(l) /\ DOMAIN l = 1..Len(l) /\ Len(l) \in Nat
      /\ \A j \in DOMAIN l : l[j].index <= t <=> j \in 1..m
      /\ \A j \in DOMAIN l : l[j].index <= u <=> j \in 1..n
  <2>1. m \in 0..Len(l) /\ n \in 0..Len(l) /\ CutsAt(l, m, t) /\ CutsAt(l, n, u)
    BY <1>1, <1>2, UptoFacts
  <2>2. l \in [1..Len(l) -> Actions] /\ Len(l) \in Nat
    BY DEF Logs
  <2> QED
    BY <2>1, <2>2 DEF CutsAt
<1>4. m # 0 => m \in 1..n
  <2> SUFFICES ASSUME m # 0 PROVE m \in 1..n
    OBVIOUS
  <2>1. m \in DOMAIN l /\ l[m].index <= t
    BY <1>3
  <2>2. l[m] \in Actions /\ l[m].index \in Int
    BY <2>1, BookAssumption DEF Logs, Actions, Action
  <2>3. l[m].index <= u
    BY <2>1, <2>2
  <2> QED
    BY <1>3, <2>1, <2>3
<1> QED
  BY <1>1, <1>2, <1>3, <1>4

\* A log that is cut after some actions.
FirstOf(l, m) == [k \in 1..m |-> l[k]]

\* A rewind to bar t keeps the actions up to t.
LEMMA KeptFirst ==
  ASSUME log \in Logs, NEW t \in Indices
  PROVE  Kept(t) = FirstOf(log, Upto(log, t))
<1>1. PICK n : n = Len(log)
  OBVIOUS
<1>2. PICK m : m = Upto(log, t)
  OBVIOUS
<1>3. t \in Int /\ LastBar \in Nat /\ t >= -1
  BY BookAssumption DEF Indices
<1>4. n \in Nat /\ log \in [1..n -> Actions] /\ m \in 0..n /\ CutsAt(log, m, t)
  BY <1>1, <1>2, <1>3, UptoFacts DEF Logs
<1>5. \A j \in 1..n : log[j].index \in -1..LastBar
  BY <1>4 DEF Actions, Action
<1>6. Between(log, n, -1..t, 0, m)
  BY <1>3, <1>4, <1>5 DEF CutsAt, Between
<1>7. 0 \in 0..n /\ m \in 0..n
  BY <1>4
<1>8. TakesStretch(log, -1..t, 0, m)
  BY <1>4, <1>6, <1>7, TakenSegment
<1>9. TakenAt(log, -1..t) = [k \in 1..m |-> log[k]]
  BY <1>4, <1>8 DEF Stretch, TakesStretch
<1> QED
  BY <1>2, <1>9 DEF Kept, FirstOf

\* The first actions of a log are one.
LEMMA FirstLog ==
  ASSUME NEW l \in Logs, NEW m \in 0..Len(l)
  PROVE  /\ FirstOf(l, m) \in Logs /\ FirstOf(l, m) \in [1..m -> Actions]
         /\ Len(FirstOf(l, m)) = m
<1>1. l \in [1..Len(l) -> Actions] /\ Len(l) \in Nat /\ m \in Nat
  BY DEF Logs
<1>2. FirstOf(l, m) \in [1..m -> Actions] /\ \A k \in 1..m : FirstOf(l, m)[k] = l[k]
  BY <1>1 DEF FirstOf
<1>3. Chronological(FirstOf(l, m))
  BY <1>1, <1>2 DEF Logs, Chronological
<1> QED
  BY <1>1, <1>2, <1>3 DEF Logs

\* The actions of bar b in a log.
AtBarOf(l, b) == Stretch(l, Upto(l, b - 1), Upto(l, b))

\* The replay meets the actions of each bar in their order.
LEMMA TakenAtBar ==
  ASSUME log \in Logs, NEW t \in Indices, NEW b \in -1..t
  PROVE  TakenAt(Kept(t), {b}) = AtBarOf(log, b)
<1>1. PICK m : m = Upto(log, t)
  OBVIOUS
<1>2. PICK lo : lo = Upto(log, b - 1)
  OBVIOUS
<1>3. PICK hi : hi = Upto(log, b)
  OBVIOUS
<1>4. t \in Int /\ b \in Int /\ b - 1 \in Int /\ b <= t /\ b - 1 <= b
  BY BookAssumption DEF Indices
<1>5. /\ m \in 0..Len(log) /\ lo \in 0..Len(log) /\ hi \in 0..Len(log)
      /\ CutsAt(log, m, t) /\ CutsAt(log, lo, b - 1) /\ CutsAt(log, hi, b)
  BY <1>1, <1>2, <1>3, <1>4, UptoFacts
<1>6. lo <= hi /\ hi <= m
  BY <1>1, <1>2, <1>3, <1>4, UptoGrows
<1>7. PICK s : s = FirstOf(log, m)
  OBVIOUS
<1>8. /\ Len(log) \in Nat /\ m \in Nat /\ lo \in 0..m /\ hi \in lo..m /\ s \in [1..m -> Actions]
      /\ \A k \in 1..m : s[k] = log[k] /\ k \in DOMAIN log /\ log[k].index \in Int
  <2>1. Len(log) \in Nat /\ log \in [1..Len(log) -> Actions]
    BY DEF Logs
  <2>2. \A a \in Actions : a.index \in Int
    BY BookAssumption DEF Actions, Action
  <2>3. s \in [1..m -> Actions]
    BY <1>5, <1>7, FirstLog
  <2> QED
    BY <1>5, <1>6, <1>7, <2>1, <2>2, <2>3 DEF FirstOf
<1>9. ASSUME NEW j \in 1..m PROVE s[j].index \in {b} <=> j \in (lo + 1)..hi
  <2>1. PICK x : x = log[j].index
    OBVIOUS
  <2>2. x \in Int /\ (x <= b - 1 <=> j \in 1..lo) /\ (x <= b <=> j \in 1..hi) /\ s[j].index = x
    BY <1>5, <1>8, <2>1 DEF CutsAt
  <2>3. j \in Int /\ lo \in Int /\ hi \in Int
    BY <1>8
  <2> QED
    BY <1>4, <2>2, <2>3
<1>10. TakesStretch(s, {b}, lo, hi)
  <2>1. Between(s, m, {b}, lo, hi)
    BY <1>9 DEF Between
  <2>2. m \in Nat /\ s \in [1..m -> Actions]
    BY <1>8
  <2>3. lo \in 0..m /\ hi \in lo..m
    BY <1>8
  <2> QED
    BY <2>1, <2>2, <2>3, TakenSegment
<1>11. \A k \in 1..(hi - lo) : s[lo + k] = log[lo + k]
  BY <1>8
<1>12. Kept(t) = s
  BY <1>1, <1>7, KeptFirst
<1> QED
  BY <1>2, <1>3, <1>10, <1>11, <1>12 DEF AtBarOf, Stretch, TakesStretch

\* They are actions of that bar.
LEMMA AtBarActions ==
  ASSUME NEW l \in Logs, NEW b \in Int
  PROVE  /\ Upto(l, b) - Upto(l, b - 1) \in Nat
         /\ AtBarOf(l, b) \in [1..(Upto(l, b) - Upto(l, b - 1)) -> Actions]
         /\ \A k \in 1..(Upto(l, b) - Upto(l, b - 1)) : AtBarOf(l, b)[k].index = b
<1>1. PICK lo : lo = Upto(l, b - 1)
  OBVIOUS
<1>2. PICK hi : hi = Upto(l, b)
  OBVIOUS
<1>3. /\ lo \in 0..Len(l) /\ hi \in 0..Len(l) /\ lo <= hi
      /\ CutsAt(l, lo, b - 1) /\ CutsAt(l, hi, b)
  BY <1>1, <1>2, UptoFacts, UptoGrows
<1>4. Len(l) \in Nat /\ l \in [1..Len(l) -> Actions] /\ \A a \in Actions : a.index \in Int
  BY BookAssumption DEF Logs, Actions, Action
<1>5. ASSUME NEW k \in 1..(hi - lo) PROVE l[lo + k] \in Actions /\ l[lo + k].index = b
  <2>1. PICK j : j = lo + k
    OBVIOUS
  <2>2. j \in DOMAIN l /\ j \in 1..hi /\ j \notin 1..lo
    BY <1>3, <1>4, <2>1
  <2>3. l[j] \in Actions /\ l[j].index \in Int /\ l[j].index <= b /\ ~ (l[j].index <= b - 1)
    BY <1>3, <1>4, <2>2 DEF CutsAt
  <2> QED
    BY <2>1, <2>3
<1>6. PICK n : n = hi - lo
  OBVIOUS
<1>7. PICK as : as = [k \in 1..n |-> l[lo + k]]
  OBVIOUS
<1>8. as \in [1..n -> Actions] /\ n \in Nat /\ \A k \in 1..n : as[k].index = b
  BY <1>3, <1>4, <1>5, <1>6, <1>7
<1>9. as = AtBarOf(l, b)
  BY <1>1, <1>2, <1>6, <1>7 DEF AtBarOf, Stretch
<1> QED
  BY <1>1, <1>2, <1>6, <1>8, <1>9

\* The book of a replay at bar b, made from the book x at the bar before.
Onward(x, b, t, rng) ==
  Applied(IF b = -1 THEN EmptyBook ELSE AtBar(x, b, rng), TakenAt(Kept(t), {b}))

\* A replay is a book for every bar up to t, each made from the one before.
IsReplay(book, t, rng) ==
  book = [b \in -1..t |-> Onward(book[b - 1], b, t, rng)]

\* The state the replay starts from has finitely many orders and a log.
Replayable == IsFiniteSet(DOMAIN orders) /\ log \in Logs

\* What a replay makes of a book at a bar is a book at the next.
LEMMA NextBooks ==
  ASSUME Replayable, NEW t \in Indices, NEW rng \in Streams, NEW b \in -1..t, NEW x,
         b = -1 \/ x \in Books(b - 1)
  PROVE  Onward(x, b, t, rng) \in Books(b)
<1>1. t \in -1..LastBar /\ b \in -1..LastBar /\ b \in Int /\ (b = -1 \/ b \in 0..LastBar)
  BY BookAssumption DEF Indices
<1>2. PICK k : k = IF b = -1 THEN EmptyBook ELSE AtBar(x, b, rng)
  OBVIOUS
<1>3. k \in Books(b)
  <2>1. b = -1 => k \in Books(b)
    BY <1>2, EmptyBooks
  <2>2. b # -1 => k \in Books(b)
    BY <1>1, <1>2, AtBarBooks
  <2> QED
    BY <2>1, <2>2
<1>4. PICK n : n = Upto(log, b) - Upto(log, b - 1)
  OBVIOUS
<1>5. PICK as : as = AtBarOf(log, b)
  OBVIOUS
<1>6. n \in Nat /\ as \in [1..n -> Actions] /\ \A m \in 1..n : as[m].index = b
  BY <1>1, <1>4, <1>5, AtBarActions DEF Replayable
<1>7. IsFiniteSet(DOMAIN orders) /\ IsFiniteSet(DOMAIN log)
  <2>1. DOMAIN log = 1..Len(log) /\ Len(log) \in Nat
    BY DEF Replayable, Logs
  <2> QED
    BY <2>1, FS_Interval DEF Replayable
<1>8. Applied(k, as) \in Books(b)
  BY <1>1, <1>3, <1>6, <1>7, AppliedBooks
<1>9. TakenAt(Kept(t), {b}) = as
  BY <1>5, TakenAtBar DEF Replayable
<1> QED
  BY <1>2, <1>8, <1>9 DEF Onward

\* There is such a replay.
LEMMA ReplayExists ==
  ASSUME Replayable, NEW t \in Indices, NEW rng \in Streams
  PROVE  \E book : IsReplay(book, t, rng)
<1>1. t \in Int /\ t >= -1 /\ LastBar \in Nat /\ -1 \in -1..t /\ t <= LastBar
  BY BookAssumption DEF Indices
<1>2. PICK n : n = t + 1
  OBVIOUS
<1> DEFINE A == UNION {Books(b) : b \in -1..t}
           Made(x, m) == IF x \in Books(m - 2) THEN Onward(x, m - 1, t, rng) ELSE EmptyBook
           step == [p \in A \X (1..n) |-> Made(p[1], p[2])]
           base == Onward(EmptyBook, -1, t, rng)
<1>3. base \in Books(-1) /\ EmptyBook \in Books(-1)
  BY <1>1, NextBooks, EmptyBooks
<1>4. base \in A /\ EmptyBook \in A
  BY <1>1, <1>3
<1>5. \A x, m : m \in 1..n => Made(x, m) \in A
  <2> SUFFICES ASSUME NEW x, NEW m \in 1..n PROVE Made(x, m) \in A
    OBVIOUS
  <2>1. CASE x \in Books(m - 2)
    <3>1. PICK b : b = m - 1
      OBVIOUS
    <3>2. b \in -1..t /\ b - 1 = m - 2
      BY <1>1, <1>2, <3>1
    <3>3. Onward(x, b, t, rng) \in Books(b)
      BY <2>1, <3>2, NextBooks
    <3>4. Made(x, m) = Onward(x, b, t, rng)
      BY <2>1, <3>1
    <3> QED
      BY <3>2, <3>3, <3>4
  <2>2. CASE x \notin Books(m - 2)
    BY <1>4, <2>2
  <2> QED
    BY <2>1, <2>2
<1>6. step \in [A \X (1..n) -> A]
  <2> HIDE DEF A, Made
  <2> QED
    BY <1>5
<1>7. n \in Nat
  BY <1>1, <1>2
<1>8. PICK v \in [0..n -> A] : v[0] = base /\ \A m \in 1..n : v[m] = step[<<v[m - 1], m>>]
  <2>1. base \in A
    BY <1>4
  <2> HIDE DEF A, step, base
  <2>2. PICK v \in [0..n -> A] : StepsFrom(v, n, base, step)
    BY <1>6, <1>7, <2>1, IndexRecursion
  <2> QED
    BY <2>2 DEF StepsFrom
<1>9. \A m \in 1..n : v[m] = Made(v[m - 1], m)
  <2> SUFFICES ASSUME NEW m \in 1..n PROVE v[m] = Made(v[m - 1], m)
    OBVIOUS
  <2>1. v[m - 1] \in A /\ v[m] = step[<<v[m - 1], m>>]
    <3> HIDE DEF A, step, base
    <3> QED
      BY <1>7, <1>8
  <2> HIDE DEF A, Made
  <2> QED
    BY <2>1
<1> HIDE DEF A, step
<1> DEFINE Good == {m \in 0..n : v[m] \in Books(m - 1)}
<1>10. 0 \in Good
  <2>1. v[0] \in Books(-1) /\ 0 \in 0..n /\ 0 - 1 = -1
    BY <1>3, <1>7, <1>8
  <2> QED
    BY <2>1
<1>11. ASSUME NEW m \in 1..n, m - 1 \in Good PROVE m \in Good
  <2>1. PICK x : x = v[m - 1]
    OBVIOUS
  <2>2. PICK b : b = m - 1
    OBVIOUS
  <2>3. b \in -1..t /\ b - 1 = m - 2 /\ m \in 0..n
    BY <1>1, <1>2, <2>2
  <2>4. x \in Books(b - 1)
    BY <1>11, <2>1, <2>2
  <2>5. Onward(x, b, t, rng) \in Books(b)
    BY <2>3, <2>4, NextBooks
  <2>6. v[m] = Onward(x, b, t, rng)
    BY <1>9, <2>1, <2>2, <2>3, <2>4
  <2> QED
    BY <2>2, <2>3, <2>5, <2>6
<1>12. Good = 0..n
  <2>1. Good \in SUBSET (0..n)
    OBVIOUS
  <2> HIDE DEF Good
  <2> QED
    BY <1>7, <1>10, <1>11, <2>1, IndexInduction
<1>13. \A m \in 0..n : v[m] \in Books(m - 1)
  BY <1>12
<1> HIDE DEF Good
<1>14. PICK book : book = [b \in -1..t |-> v[b + 1]]
  OBVIOUS
<1>15. ASSUME NEW b \in -1..t PROVE book[b] = Onward(book[b - 1], b, t, rng)
  <2>1. CASE b = -1
    <3>1. book[b] = base
      <4> HIDE DEF base
      <4> QED
        BY <1>1, <1>8, <1>14, <2>1
    <3>2. Onward(book[b - 1], b, t, rng) = base
      BY <2>1 DEF Onward
    <3> QED
      BY <3>1, <3>2
  <2>2. CASE b # -1
    <3>1. PICK m : m = b + 1
      OBVIOUS
    <3>2. m \in 1..n /\ b - 1 \in -1..t /\ m - 1 \in 0..n /\ (m - 1) - 1 = m - 2 /\ b = m - 1 /\ (b - 1) + 1 = m - 1
      BY <1>1, <1>2, <2>2, <3>1
    <3>3. book[b] = v[m] /\ book[b - 1] = v[m - 1]
      BY <1>14, <3>1, <3>2
    <3>4. v[m - 1] \in Books(m - 2)
      BY <1>13, <3>2
    <3>5. v[m] = Onward(v[m - 1], m - 1, t, rng)
      BY <1>9, <3>2, <3>4
    <3> QED
      BY <3>2, <3>3, <3>5
  <2> QED
    BY <2>1, <2>2
<1>16. book = [b \in -1..t |-> Onward(book[b - 1], b, t, rng)]
  BY <1>14, <1>15
<1> QED
  BY <1>16 DEF IsReplay

\* The books of a replay.
LEMMA ReplayBooks ==
  ASSUME Replayable, NEW t \in Indices, NEW rng \in Streams
  PROVE  \E book : /\ book = Replay(t, rng) /\ IsReplay(book, t, rng)
                   /\ \A b \in -1..t : book[b] \in Books(b)
<1>1. t \in Int /\ t >= -1 /\ t <= LastBar /\ LastBar \in Nat
  BY BookAssumption DEF Indices
<1>2. Replay(t, rng) = CHOOSE book : IsReplay(book, t, rng)
  BY DEF Replay, IsReplay, Onward
<1>3. PICK book : book = Replay(t, rng) /\ IsReplay(book, t, rng)
  BY <1>2, ReplayExists
<1>4. \A b \in -1..t : book[b] = Onward(book[b - 1], b, t, rng)
  BY <1>3 DEF IsReplay
<1>5. PICK n : n = t + 1
  OBVIOUS
<1> DEFINE Good == {m \in 0..n : book[m - 1] \in Books(m - 1)}
<1>6. 0 \in Good
  <2>1. -1 \in -1..t /\ 0 \in 0..n /\ 0 - 1 = -1
    BY <1>1, <1>5
  <2>2. book[-1] \in Books(-1)
    BY <1>4, <2>1, NextBooks
  <2> QED
    BY <2>1, <2>2
<1>7. ASSUME NEW m \in 1..n, m - 1 \in Good PROVE m \in Good
  <2>1. PICK b : b = m - 1
    OBVIOUS
  <2>2. b \in -1..t /\ m \in 0..n /\ b - 1 = (m - 1) - 1
    BY <1>1, <1>5, <2>1
  <2>3. book[b - 1] \in Books(b - 1)
    BY <1>7, <2>1, <2>2
  <2>4. book[b] \in Books(b)
    BY <1>4, <2>2, <2>3, NextBooks
  <2> QED
    BY <2>1, <2>2, <2>4
<1>8. Good = 0..n
  <2>1. Good \in SUBSET (0..n) /\ n \in Nat
    BY <1>1, <1>5
  <2> HIDE DEF Good
  <2> QED
    BY <1>6, <1>7, <2>1, IndexInduction
<1>9. ASSUME NEW b \in -1..t PROVE book[b] \in Books(b)
  <2>1. b + 1 \in 0..n /\ (b + 1) - 1 = b
    BY <1>1, <1>5
  <2>2. b + 1 \in Good
    <3> HIDE DEF Good
    <3> QED
      BY <1>8, <2>1
  <2> QED
    BY <2>1, <2>2
<1> QED
  BY <1>3, <1>9

-----------------------------------------------------------------------------
(* The invariant.                                                          *)

\* The book and the log are those of a session whose clock is at idx.
IInv ==
  /\ idx \in Indices /\ status \in {"RUNNING", "STOPPED", "FINISHED"}
  /\ unlogged \in Nat /\ sid \in Nat \ {0} /\ Detours <= MaxDetours
  /\ Book \in Books(idx)
  /\ log \in Logs
  /\ \A k \in DOMAIN log : log[k].index <= idx /\ log[k].session <= sid
  /\ loaded \subseteq Instruments /\ stream \in Streams

\* What a session becomes is a book without replayed ids.
LEMMA BecomesBook ==
  ASSUME NEW b, NEW k \in Books(b), Becomes(k)
  PROVE  Book' \in Books(b)
<1>1. k \in BookType /\ BookOK(k, b)
  BY DEF Books
<1>2. PICK e : e = [i \in {} |-> 0]
  OBVIOUS
<1>3. PICK n : n = [orders |-> k.orders, tag |-> k.tag, fills |-> k.fills, live |-> e]
  OBVIOUS
<1>4. /\ n.orders = k.orders /\ n.tag = k.tag /\ n.fills = k.fills /\ n.live = e
      /\ DOMAIN e = {} /\ e \in [{} -> Ids]
  BY <1>2, <1>3
<1>5. e \in Table(Ids)
  BY <1>4, TableFacts
<1>6. n \in BookType
  BY <1>1, <1>3, <1>5 DEF BookType
<1>7. BookOK(n, b)
  BY <1>1, <1>4 DEF BookOK, ClientsOnce
<1>8. Book' = n
  BY <1>2, <1>3 DEF Book, Becomes
<1> QED
  BY <1>6, <1>7, <1>8 DEF Books

\* What the invariant says of the state.
LEMMA StateFacts ==
  ASSUME IInv
  PROVE  /\ idx \in -1..LastBar /\ LastBar \in Nat
         /\ sid \in Sessions /\ unlogged \in 0..MaxDetours
         /\ Replayable
         /\ DOMAIN orders \in SUBSET Ids /\ orders \in [DOMAIN orders -> Orders!Order]
         /\ DOMAIN tag = DOMAIN orders
         /\ tag \in [DOMAIN orders -> [client : Callers, session : Sessions]]
         /\ fills \in SUBSET Fill
         /\ Book.orders = orders /\ Book.tag = tag /\ Book.fills = fills /\ DOMAIN Book.live = {}
         /\ IsFiniteSet(LoggedIds)
<1>1. PICK k : k = Book
  OBVIOUS
<1>2. k.orders = orders /\ k.tag = tag /\ k.fills = fills /\ DOMAIN k.live = {}
  BY <1>1 DEF Book
<1>3. k \in BookType /\ BookOK(k, idx)
  BY <1>1 DEF IInv, Books
<1>4. k.orders \in Table(Orders!Order) /\ k.tag \in Table([client : Callers, session : Sessions])
  BY <1>3 DEF BookType
<1>5. sid \in Sessions /\ unlogged \in 0..MaxDetours
  <2>1. MaxDetours \in Nat
    BY ReplayAssumption
  <2> QED
    BY <2>1 DEF IInv, Detours, Sessions
<1>6. idx \in -1..LastBar /\ LastBar \in Nat
  BY BookAssumption DEF IInv, Indices
<1>7. log \in Logs /\ DOMAIN log = 1..Len(log) /\ Len(log) \in Nat
  BY DEF IInv, Logs
<1>8. IsFiniteSet(LoggedIds)
  <2>1. IsFiniteSet(DOMAIN log)
    BY <1>7, FS_Interval
  <2>2. PICK f : f = [j \in DOMAIN log |-> log[j].id]
    OBVIOUS
  <2>3. f \in Surjection(DOMAIN log, LoggedIds)
    BY <2>2 DEF Surjection, LoggedIds
  <2> QED
    BY <2>1, <2>3, FS_Surjection
<1>9. IsFiniteSet(DOMAIN orders) /\ DOMAIN tag = DOMAIN orders
  BY <1>2, <1>3 DEF BookOK
<1>10. /\ DOMAIN orders \in SUBSET Ids /\ orders \in [DOMAIN orders -> Orders!Order]
       /\ tag \in [DOMAIN tag -> [client : Callers, session : Sessions]]
  BY <1>2, <1>4, TableFacts
<1>11. fills \in SUBSET Fill
  BY <1>2, <1>3 DEF BookType
<1> QED
  BY <1>1, <1>2, <1>5, <1>6, <1>7, <1>8, <1>9, <1>10, <1>11 DEF Replayable

\* A log grows by an action taken now.
LEMMA AppendLog ==
  ASSUME NEW l \in Logs, NEW at, \A k \in DOMAIN l : l[k].index <= at,
         NEW s, \A k \in DOMAIN l : l[k].session <= s,
         NEW a \in Actions, a.index = at, a.session = s
  PROVE  /\ Append(l, a) \in Logs
         /\ \A k \in DOMAIN Append(l, a) : Append(l, a)[k].index <= at /\ Append(l, a)[k].session <= s
<1>1. PICK n : n = Len(l)
  OBVIOUS
<1>2. PICK m : m = Append(l, a)
  OBVIOUS
<1>3. l \in Seq(Actions) /\ Chronological(l) /\ a.index \in Int /\ a.session \in Int
  BY BookAssumption DEF Logs, Actions, Action, Sessions
<1>4. /\ n \in Nat /\ DOMAIN l = 1..n /\ m \in Seq(Actions) /\ DOMAIN m = 1..(n + 1)
      /\ m[n + 1] = a /\ \A k \in 1..n : m[k] = l[k]
  BY <1>1, <1>2, <1>3
<1>5. \A k \in 1..(n + 1) : k \in 1..n \/ k = n + 1
  BY <1>4
<1>6. \A k \in DOMAIN m : m[k].index <= at /\ m[k].session <= s
  BY <1>3, <1>4, <1>5
<1>7. Chronological(m)
  <2> SUFFICES ASSUME NEW j \in 1..(n + 1), NEW k \in 1..(n + 1), j < k
               PROVE  m[j].index <= m[k].index
    BY <1>4 DEF Chronological
  <2>1. j \in 1..n
    BY <1>4
  <2>2. CASE k \in 1..n
    BY <1>3, <1>4, <2>1, <2>2 DEF Chronological
  <2>3. CASE k = n + 1
    BY <1>4, <2>1, <2>3
  <2> QED
    BY <1>5, <2>2, <2>3
<1> QED
  BY <1>2, <1>4, <1>6, <1>7 DEF Logs

\* What a session logs is an action.
LEMMA EntryFacts ==
  ASSUME IInv, NEW kind \in {"place", "cancel"}, NEW i \in Ids, NEW s \in Inputs \cup {0},
         NEW c \in Callers, kind = "place" => s \in Inputs
  PROVE  /\ Entry(kind, i, s, c) \in Actions
         /\ Append(log, Entry(kind, i, s, c)) \in Logs
         /\ \A k \in DOMAIN Append(log, Entry(kind, i, s, c)) :
              /\ Append(log, Entry(kind, i, s, c))[k].index <= idx
              /\ Append(log, Entry(kind, i, s, c))[k].session <= sid
<1>1. PICK a : a = Entry(kind, i, s, c)
  OBVIOUS
<1>2. idx \in -1..LastBar /\ sid \in Sessions
  BY StateFacts
<1>3. a \in Actions /\ a.index = idx /\ a.session = sid
  BY <1>1, <1>2 DEF Entry, Actions, Action, ActionOK
<1>4. log \in Logs /\ \A k \in DOMAIN log : log[k].index <= idx /\ log[k].session <= sid
  BY DEF IInv
<1>5. PICK l : l = log
  OBVIOUS
<1>6. PICK at : at = idx
  OBVIOUS
<1>7. PICK d : d = sid
  OBVIOUS
<1>8. /\ Append(l, a) \in Logs
      /\ \A k \in DOMAIN Append(l, a) : Append(l, a)[k].index <= at /\ Append(l, a)[k].session <= d
  BY <1>3, <1>4, <1>5, <1>6, <1>7, AppendLog
<1> QED
  BY <1>1, <1>3, <1>5, <1>6, <1>7, <1>8

\* A session starts so.
LEMMA InitInv == Init => IInv
<1> SUFFICES ASSUME Init PROVE IInv
  OBVIOUS
<1>1. Book = EmptyBook
  BY DEF Init, Book, EmptyBook
<1>2. EmptyBook \in Books(-1)
  BY EmptyBooks
<1>3. log \in Logs /\ DOMAIN log = {}
  BY DEF Init, Logs, Chronological
<1>4. Detours <= MaxDetours /\ -1 \in Indices
  BY BookAssumption, ReplayAssumption DEF Init, Detours, Indices
<1> QED
  BY <1>1, <1>2, <1>3, <1>4, ReplayAssumption DEF Init, IInv

\* One bar.
LEMMA TickInv ==
  ASSUME IInv, Tick
  PROVE  IInv'
<1>1. PICK b : b = idx + 1
  OBVIOUS
<1>2. idx \in Int /\ b \in 0..LastBar /\ b - 1 = idx
  BY <1>1, StateFacts DEF Tick
<1>3. PICK k : k = Book
  OBVIOUS
<1>4. k \in Books(b - 1) /\ stream \in Streams
  BY <1>2, <1>3 DEF IInv
<1>5. AtBar(k, b, stream) \in Books(b)
  BY <1>2, <1>4, AtBarBooks
<1>6. Becomes(AtBar(k, b, stream)) /\ idx' = b
  BY <1>1, <1>3 DEF Tick
<1>7. Book' \in Books(b)
  BY <1>5, <1>6, BecomesBook
<1>8. /\ idx' \in Indices /\ status' \in {"RUNNING", "STOPPED", "FINISHED"}
      /\ UNCHANGED <<log, loaded, stream, sid, unlogged>>
  BY <1>2, <1>6 DEF Tick, Status, Indices
<1>9. Detours' <= MaxDetours
  <2>1. status' # "STOPPED" /\ sid' = sid /\ unlogged' = unlogged
    BY <1>8 DEF Tick, Status
  <2> QED
    BY <2>1, ReplayAssumption DEF IInv, Detours
<1>10. \A j \in DOMAIN log : log[j].index <= idx' /\ log[j].session <= sid
  <2>1. \A j \in DOMAIN log : log[j].index \in Int
    BY BookAssumption DEF IInv, Logs, Actions, Action
  <2> QED
    BY <1>2, <1>6, <2>1 DEF IInv
<1> QED
  BY <1>6, <1>7, <1>8, <1>9, <1>10 DEF IInv

\* A request places an order.
LEMMA PlaceInv ==
  ASSUME IInv, NEW s \in Inputs, NEW c \in Callers, Place(s, c)
  PROVE  IInv'
<1>1. PICK i : i = FreshId(DOMAIN orders \cup LoggedIds)
  OBVIOUS
<1>2. PICK k : k = Book
  OBVIOUS
<1>3. PICK at : at = idx
  OBVIOUS
<1>4. /\ at \in -1..LastBar /\ sid \in Sessions /\ k \in Books(at) /\ DOMAIN k.orders = DOMAIN orders
      /\ IsFiniteSet(DOMAIN orders) /\ IsFiniteSet(LoggedIds)
  BY <1>2, <1>3, StateFacts DEF IInv, Replayable
<1>5. i \in Ids /\ i \notin DOMAIN k.orders
  <2>1. IsFiniteSet(DOMAIN orders \cup LoggedIds)
    BY <1>4, FS_Union
  <2> QED
    BY <1>1, <1>4, <2>1, FreshIds
<1>6. /\ PlacedBy(k, c) = {} /\ Becomes(Submitted(k, i, s, c, sid, at))
      /\ log' = Append(log, Entry("place", i, s, c))
      /\ UNCHANGED <<idx, status, loaded, stream, sid, unlogged>>
  BY <1>1, <1>2, <1>3 DEF Place
<1>7. s \in Orders!OrderSpec
  BY BookAssumption
<1>8. Submitted(k, i, s, c, sid, at) \in Books(at)
  BY <1>4, <1>5, <1>6, <1>7, SubmittedBooks
<1>9. Book' \in Books(at)
  BY <1>6, <1>8, BecomesBook
<1>10. log' \in Logs /\ \A j \in DOMAIN log' : log'[j].index <= idx /\ log'[j].session <= sid
  BY <1>5, <1>6, EntryFacts
<1>11. Detours' <= MaxDetours
  BY <1>6 DEF IInv, Detours
<1> QED
  BY <1>3, <1>6, <1>9, <1>10, <1>11 DEF IInv

\* A request cancels one.
LEMMA CancelInv ==
  ASSUME IInv, NEW i \in DOMAIN orders, Cancel(i)
  PROVE  IInv'
<1>1. PICK k : k = Book
  OBVIOUS
<1>2. PICK at : at = idx
  OBVIOUS
<1>3. /\ k \in Books(at) /\ k.orders = orders /\ k.tag = tag /\ k.fills = fills
      /\ i \in DOMAIN k.orders /\ Orders!IsOpen(k.orders[i]) /\ i \in Ids
  BY <1>1, <1>2, StateFacts DEF IInv, Cancel
<1>4. PICK n : n = [k EXCEPT !.orders[i] = Orders!Cancelled(@)]
  OBVIOUS
<1>5. n \in Books(at)
  BY <1>3, <1>4, CancelledBooks
<1>6. n.orders = [k.orders EXCEPT ![i] = Orders!Cancelled(@)] /\ n.tag = k.tag /\ n.fills = k.fills
  <2>1. k \in BookType
    BY <1>3 DEF Books
  <2> QED
    BY <1>4, <2>1 DEF BookType
<1>7. /\ Becomes(n) /\ log' = Append(log, Entry("cancel", i, 0, NoClient))
      /\ UNCHANGED <<idx, status, loaded, stream, sid, unlogged>>
  BY <1>3, <1>6 DEF Cancel, Becomes
<1>8. Book' \in Books(at)
  BY <1>5, <1>7, BecomesBook
<1>9. log' \in Logs /\ \A j \in DOMAIN log' : log'[j].index <= idx /\ log'[j].session <= sid
  <2>1. NoClient \in Callers /\ 0 \in Inputs \cup {0} /\ "cancel" # "place"
    BY DEF Callers
  <2> QED
    BY <1>3, <1>7, <2>1, EntryFacts
<1>10. Detours' <= MaxDetours
  BY <1>7 DEF IInv, Detours
<1> QED
  BY <1>2, <1>7, <1>8, <1>9, <1>10 DEF IInv

\* A request replaces one.
LEMMA ModifyInv ==
  ASSUME IInv, NEW i \in DOMAIN orders, NEW q \in Orders!Quantities, Modify(i, q)
  PROVE  IInv'
<1>1. PICK k : k = Book
  OBVIOUS
<1>2. PICK at : at = idx
  OBVIOUS
<1>3. /\ k \in Books(at) /\ k.orders = orders /\ k.tag = tag /\ k.fills = fills
      /\ i \in DOMAIN k.orders /\ Orders!IsOpen(k.orders[i]) /\ at \in -1..LastBar
      /\ k.orders[i] \in Orders!Order /\ tag[i].session \in Sessions
      /\ IsFiniteSet(DOMAIN orders) /\ IsFiniteSet(LoggedIds)
  BY <1>1, <1>2, StateFacts DEF IInv, Modify, Replayable
<1>4. PICK n : n = [k EXCEPT !.orders[i] = Orders!Cancelled(@)]
  OBVIOUS
<1>5. n \in Books(at)
  BY <1>3, <1>4, CancelledBooks
<1>6. DOMAIN n.orders = DOMAIN orders
  <2>1. k \in BookType
    BY <1>3 DEF Books
  <2> QED
    BY <1>3, <1>4, <2>1 DEF BookType
<1>7. PICK j : j = FreshId(DOMAIN orders \cup LoggedIds)
  OBVIOUS
<1>8. j \in Ids /\ j \notin DOMAIN n.orders
  <2>1. IsFiniteSet(DOMAIN orders \cup LoggedIds)
    BY <1>3, FS_Union
  <2> QED
    BY <1>6, <1>7, <2>1, FreshIds
<1>9. PICK s : s = Orders!ModifiedSpec(orders[i], q)
  OBVIOUS
<1>10. s \in Orders!OrderSpec
  <2>1. PICK o : o = orders[i]
    OBVIOUS
  <2>2. /\ o.instr \in Instruments /\ o.tif \in {"DAY", "GTC", "GTD"}
        /\ Orders!Never \in -1..Orders!Never /\ "REGULAR" \in Orders!Hours
    BY <1>3, <2>1, BookAssumption DEF Orders!Order, Orders!Never, Orders!Hours
  <2>3. s = [instr |-> o.instr, tif |-> o.tif, expire |-> Orders!Never, hours |-> "REGULAR",
             qty |-> q, spread |-> NoSpread]
    BY <1>9, <2>1 DEF Orders!ModifiedSpec
  <2> QED
    BY <2>2, <2>3 DEF Orders!OrderSpec
<1>11. PlacedBy(n, NoClient) = {} /\ NoClient \in Callers
  BY DEF PlacedBy, Callers
<1>12. Submitted(n, j, s, NoClient, tag[i].session, at) \in Books(at)
  BY <1>3, <1>5, <1>8, <1>10, <1>11, SubmittedBooks
<1>13. /\ Becomes(Submitted(n, j, s, NoClient, tag[i].session, at))
       /\ unlogged' = unlogged + 1 /\ Detours < MaxDetours
       /\ UNCHANGED <<idx, status, log, loaded, stream, sid>>
  BY <1>1, <1>2, <1>4, <1>7, <1>9 DEF Modify
<1>14. Book' \in Books(at)
  BY <1>12, <1>13, BecomesBook
<1>15. Detours' <= MaxDetours /\ unlogged' \in Nat
  BY <1>13, ReplayAssumption DEF IInv, Detours
<1> QED
  BY <1>2, <1>13, <1>14, <1>15 DEF IInv

\* A replacement that is refused leaves a cancelled order.
LEMMA RefusedInv ==
  ASSUME IInv, NEW i \in DOMAIN orders, ModifyRefused(i)
  PROVE  IInv'
<1>1. PICK k : k = Book
  OBVIOUS
<1>2. PICK at : at = idx
  OBVIOUS
<1>3. /\ k \in Books(at) /\ k.orders = orders /\ k.tag = tag /\ k.fills = fills
      /\ i \in DOMAIN k.orders /\ Orders!IsOpen(k.orders[i])
  BY <1>1, <1>2, StateFacts DEF IInv, ModifyRefused
<1>4. PICK n : n = [k EXCEPT !.orders[i] = Orders!Cancelled(@)]
  OBVIOUS
<1>5. n \in Books(at)
  BY <1>3, <1>4, CancelledBooks
<1>6. n.orders = [k.orders EXCEPT ![i] = Orders!Cancelled(@)] /\ n.tag = k.tag /\ n.fills = k.fills
  <2>1. k \in BookType
    BY <1>3 DEF Books
  <2> QED
    BY <1>4, <2>1 DEF BookType
<1>7. /\ Becomes(n) /\ unlogged' = unlogged + 1 /\ Detours < MaxDetours
      /\ UNCHANGED <<idx, status, log, loaded, stream, sid>>
  BY <1>3, <1>6 DEF ModifyRefused, Becomes
<1>8. Book' \in Books(at)
  BY <1>5, <1>7, BecomesBook
<1>9. Detours' <= MaxDetours /\ unlogged' \in Nat
  BY <1>7, ReplayAssumption DEF IInv, Detours
<1> QED
  BY <1>2, <1>7, <1>8, <1>9 DEF IInv

\* Market data arrives.
LEMMA LoadInv ==
  ASSUME IInv, NEW instr \in Instruments, Load(instr)
  PROVE  IInv'
<1>1. Detours' <= MaxDetours /\ unlogged' \in Nat
  BY ReplayAssumption DEF IInv, Detours, Load
<1>2. Book' = Book
  BY DEF Book, Load
<1> QED
  BY <1>1, <1>2 DEF IInv, Load

\* The session is stopped.
LEMMA StopInv ==
  ASSUME IInv, Stop
  PROVE  IInv'
<1>1. Detours' <= MaxDetours
  BY ReplayAssumption DEF IInv, Detours, Stop
<1>2. Book' = Book
  BY DEF Book, Stop
<1> QED
  BY <1>1, <1>2 DEF IInv, Stop

\* The orders get the id of a new session.
LEMMA BranchInv ==
  ASSUME IInv, Branch
  PROVE  IInv'
<1>1. PICK k : k = Book
  OBVIOUS
<1>2. PICK at : at = idx
  OBVIOUS
<1>3. PICK d : d = sid + 1
  OBVIOUS
<1>4. d \in Sessions /\ sid \in Nat \ {0}
  BY <1>3, ReplayAssumption DEF IInv, Branch, Detours, Sessions
<1>5. /\ k \in BookType /\ BookOK(k, at) /\ k.orders = orders /\ k.tag = tag /\ k.fills = fills
      /\ DOMAIN tag = DOMAIN orders /\ DOMAIN orders \in SUBSET Ids
      /\ tag \in [DOMAIN orders -> [client : Callers, session : Sessions]]
  BY <1>1, <1>2, StateFacts DEF IInv, Books
<1>6. PICK g : g = [i \in DOMAIN tag |-> [tag[i] EXCEPT !.session = d]]
  OBVIOUS
<1>7. \A i \in DOMAIN tag : /\ g[i] = [client |-> tag[i].client, session |-> d]
                            /\ g[i].client = tag[i].client
  BY <1>5, <1>6
<1>8. g \in [DOMAIN orders -> [client : Callers, session : Sessions]] /\ DOMAIN g = DOMAIN orders
  <2>1. \A i \in DOMAIN orders : g[i] \in [client : Callers, session : Sessions]
    <3> TAKE i \in DOMAIN orders
    <3>1. PICK x : x = tag[i].client
      OBVIOUS
    <3>2. x \in Callers
      BY <1>5, <3>1
    <3>3. g[i] = [client |-> x, session |-> d]
      BY <1>5, <1>7, <3>1
    <3> QED
      BY <1>4, <3>2, <3>3
  <2> QED
    BY <1>5, <1>6, <2>1
<1>9. PICK n : n = [orders |-> k.orders, tag |-> g, fills |-> k.fills, live |-> k.live]
  OBVIOUS
<1>10. n.orders = k.orders /\ n.tag = g /\ n.fills = k.fills /\ n.live = k.live
  BY <1>9
<1>11. n \in BookType
  <2>1. g \in Table([client : Callers, session : Sessions])
    BY <1>5, <1>8, TableFacts
  <2> QED
    BY <1>5, <1>9, <2>1 DEF BookType
<1>12. ClientsOnce(n)
  BY <1>5, <1>7, <1>10 DEF BookOK, ClientsOnce
<1>13. BookOK(n, at)
  BY <1>5, <1>8, <1>10, <1>12 DEF BookOK
<1>14. Becomes(n)
  BY <1>3, <1>5, <1>6, <1>10 DEF Branch, Becomes
<1>15. Book' \in Books(at)
  BY <1>11, <1>13, <1>14, BecomesBook DEF Books
<1>16. /\ sid' = sid + 1 /\ status' \in {"RUNNING", "FINISHED"} /\ Detours < MaxDetours
       /\ UNCHANGED <<idx, log, loaded, stream, unlogged>>
  BY DEF Branch, Status
<1>17. Detours' <= MaxDetours
  BY <1>16, ReplayAssumption DEF IInv, Detours
<1>18. \A j \in DOMAIN log : log[j].session <= sid + 1
  <2>1. \A j \in DOMAIN log : log[j].session \in Int
    BY DEF IInv, Logs, Actions, Action, Sessions
  <2> QED
    BY <1>4, <2>1 DEF IInv
<1> QED
  BY <1>2, <1>4, <1>15, <1>16, <1>17, <1>18 DEF IInv

\* A restored log is one, none of its actions ahead of the clock.
LEMMA ReloggedLog ==
  ASSUME log \in Logs, NEW t \in Indices, NEW k \in Books(t),
         NEW d, \A j \in DOMAIN log : log[j].session <= d
  PROVE  /\ Relogged(t, k) \in Logs
         /\ \A j \in DOMAIN Relogged(t, k) :
              Relogged(t, k)[j].index <= t /\ Relogged(t, k)[j].session <= d
<1>1. PICK m : m = Upto(log, t)
  OBVIOUS
<1>2. t \in Int
  BY DEF Indices
<1>3. m \in 0..Len(log) /\ CutsAt(log, m, t)
  BY <1>1, <1>2, UptoFacts
<1>4. PICK s : s = FirstOf(log, m)
  OBVIOUS
<1>5. s \in Logs /\ s \in [1..m -> Actions] /\ Len(s) = m /\ m \in Nat /\ DOMAIN s = 1..m
  BY <1>3, <1>4, FirstLog DEF Logs
<1>6. \A j \in 1..m : s[j] = log[j] /\ j \in DOMAIN log
  <2>1. DOMAIN log = 1..Len(log) /\ Len(log) \in Nat
    BY DEF Logs
  <2> QED
    BY <1>3, <1>4, <2>1 DEF FirstOf
<1>7. PICK n : n = [j \in 1..m |-> [s[j] EXCEPT !.id = Live(k, @)]]
  OBVIOUS
<1>8. Relogged(t, k) = n
  <2>1. Kept(t) = s
    BY <1>1, <1>4, KeptFirst
  <2> QED
    BY <1>5, <1>7, <2>1 DEF Relogged
<1>9. ASSUME NEW a \in Actions
      PROVE  /\ [a EXCEPT !.id = Live(k, @)] \in Actions
             /\ [a EXCEPT !.id = Live(k, @)].index = a.index
             /\ [a EXCEPT !.id = Live(k, @)].session = a.session
  <2>1. PICK i : i = Live(k, a.id)
    OBVIOUS
  <2>2. a \in Action /\ a.id \in Ids /\ ActionOK(a)
    BY DEF Actions, Action
  <2>3. i \in Ids
    <3>1. k \in BookType /\ BookOK(k, t)
      BY DEF Books
    <3>2. k.orders \in Table(Orders!Order)
      BY <3>1 DEF BookType
    <3>3. DOMAIN k.orders \subseteq Ids
      BY <3>2, TableFacts
    <3>4. a.id \in DOMAIN k.live => k.live[a.id] \in DOMAIN k.orders
      BY <3>1 DEF BookOK
    <3> QED
      BY <2>1, <2>2, <3>3, <3>4 DEF Live
  <2>4. PICK c : c = [a EXCEPT !.id = i]
    OBVIOUS
  <2>5. c \in Action /\ c.kind = a.kind /\ c.spec = a.spec /\ c.index = a.index /\ c.session = a.session
    BY <2>2, <2>3, <2>4 DEF Action
  <2> QED
    BY <2>1, <2>2, <2>4, <2>5 DEF Actions, ActionOK
<1>10. ASSUME NEW j \in 1..m
       PROVE  n[j] \in Actions /\ n[j].index = s[j].index /\ n[j].session = s[j].session
  <2>1. PICK a : a = s[j]
    OBVIOUS
  <2>2. a \in Actions
    BY <1>5, <2>1
  <2>3. n[j] = [a EXCEPT !.id = Live(k, @)]
    BY <1>7, <2>1
  <2> QED
    BY <1>9, <2>1, <2>2, <2>3
<1>11. n \in [1..m -> Actions] /\ n \in Seq(Actions) /\ DOMAIN n = 1..m
  <2>1. DOMAIN n = 1..m /\ n = [j \in 1..m |-> n[j]]
    BY <1>7
  <2>2. n \in [1..m -> Actions]
    BY <1>10, <2>1
  <2> QED
    BY <1>5, <2>1, <2>2
<1>12. Chronological(n)
  BY <1>5, <1>10, <1>11 DEF Logs, Chronological
<1>13. \A j \in 1..m : n[j].index <= t /\ n[j].session <= d
  BY <1>3, <1>6, <1>10 DEF CutsAt
<1> QED
  BY <1>8, <1>11, <1>12, <1>13 DEF Logs

\* The session is rewound.
LEMMA RewindInv ==
  ASSUME IInv, NEW t \in Indices, Rewind(t)
  PROVE  IInv'
<1>1. PICK rng \in Streams :
        /\ idx' = t /\ status' = Status(t) /\ stream' = rng
        /\ UNCHANGED <<loaded, sid, unlogged>>
        /\ Becomes(Replay(t, rng)[t])
        /\ log' = Relogged(t, Replay(t, rng)[t])
  BY DEF Rewind
<1>2. PICK k : k = Replay(t, rng)[t]
  OBVIOUS
<1>3. k \in Books(t)
  <2>1. Replayable
    BY StateFacts
  <2>2. t \in -1..t
    BY BookAssumption DEF Indices
  <2>3. PICK book : book = Replay(t, rng) /\ \A b \in -1..t : book[b] \in Books(b)
    BY <2>1, ReplayBooks
  <2> QED
    BY <1>2, <2>2, <2>3
<1>4. Book' \in Books(t)
  BY <1>1, <1>2, <1>3, BecomesBook
<1>5. PICK d : d = sid
  OBVIOUS
<1>6. log \in Logs /\ \A j \in DOMAIN log : log[j].session <= d
  BY <1>5 DEF IInv
<1>7. log' \in Logs /\ \A j \in DOMAIN log' : log'[j].index <= t /\ log'[j].session <= d
  <2>1. PICK r : r = Relogged(t, k)
    OBVIOUS
  <2>2. r \in Logs /\ \A j \in DOMAIN r : r[j].index <= t /\ r[j].session <= d
    BY <1>3, <1>6, <2>1, ReloggedLog
  <2> QED
    BY <1>1, <1>2, <2>1, <2>2
<1>8. status' \in {"RUNNING", "FINISHED"} /\ Detours' <= MaxDetours
  <2>1. status' \in {"RUNNING", "FINISHED"} /\ unlogged' = unlogged /\ sid' = sid
    BY <1>1 DEF Status
  <2> QED
    BY <2>1, ReplayAssumption DEF IInv, Detours
<1> QED
  BY <1>1, <1>4, <1>5, <1>7, <1>8 DEF IInv

\* Every step keeps it.
LEMMA NextInv == IInv /\ [Next]_vars => IInv'
<1> SUFFICES ASSUME IInv, [Next]_vars PROVE IInv'
  OBVIOUS
<1>1. CASE Tick
  BY <1>1, TickInv
<1>2. CASE \E s \in Inputs, c \in Clients \cup {NoClient} : Place(s, c)
  BY <1>2, PlaceInv DEF Callers
<1>3. CASE \E i \in DOMAIN orders : Cancel(i)
  BY <1>3, CancelInv
<1>4. CASE \E i \in DOMAIN orders, q \in Orders!Quantities : Modify(i, q)
  BY <1>4, ModifyInv
<1>5. CASE \E instr \in Instruments : Load(instr)
  BY <1>5, LoadInv
<1>6. CASE Stop
  BY <1>6, StopInv
<1>7. CASE \E t \in Indices : Rewind(t)
  BY <1>7, RewindInv
<1>8. CASE Branch
  BY <1>8, BranchInv
<1>9. CASE \E i \in DOMAIN orders : ModifyRefused(i)
  BY <1>9, RefusedInv
<1>10. CASE UNCHANGED vars
  <2>1. Book' = Book /\ Detours' = Detours
    BY <1>10 DEF vars, Book, Detours
  <2> QED
    BY <1>10, <2>1 DEF vars, IInv
<1> QED
  BY <1>1, <1>2, <1>3, <1>4, <1>5, <1>6, <1>7, <1>8, <1>9, <1>10 DEF Next

\* The book and the log stay those of a session whose clock is at idx.
LEMMA ReplayInvariance == Spec => []IInv
<1> QED
  BY InitInv, NextInv, PTL DEF Spec

-----------------------------------------------------------------------------
(* Theorems.                                                               *)

\* Whatever is requested, rewound, replayed and restored, every variable holds
\* a value of its kind.
THEOREM ReplayTyped == Spec => []TypeOK
<1>1. ASSUME IInv PROVE TypeOK
  <2>1. /\ idx \in -1..LastBar /\ sid \in Sessions /\ unlogged \in 0..MaxDetours
        /\ DOMAIN orders \in SUBSET Ids /\ orders \in [DOMAIN orders -> Orders!Order]
        /\ tag \in [DOMAIN orders -> [client : Callers, session : Sessions]]
        /\ fills \in SUBSET Fill /\ Book.orders = orders /\ Book.fills = fills
    BY <1>1, StateFacts
  <2>2. fills \subseteq [order : DOMAIN orders, bar : 0..idx, qty : Orders!Quantities, stream : Streams]
    <3> SUFFICES ASSUME NEW f \in fills
                 PROVE  f \in [order : DOMAIN orders, bar : 0..idx, qty : Orders!Quantities, stream : Streams]
      OBVIOUS
    <3>1. f \in Fill /\ f.bar \in 0..LastBar
      BY <2>1 DEF Fill
    <3>2. f.order \in DOMAIN orders /\ f.bar <= idx
      BY <1>1, <2>1 DEF IInv, Books, BookOK
    <3>3. f.bar \in 0..idx
      BY <2>1, <3>1, <3>2
    <3> QED
      BY <3>1, <3>2, <3>3 DEF Fill
  <2>3. \A j \in DOMAIN log : log[j].id \in Nat \ {0} /\ log[j].session \in 1..sid
    <3>1. \A j \in DOMAIN log : log[j] \in Action /\ log[j].session <= sid
      BY <1>1 DEF IInv, Logs, Actions
    <3>2. \A j \in DOMAIN log : log[j].id \in Ids /\ log[j].session \in Sessions
      BY <3>1 DEF Action
    <3> QED
      BY <2>1, <3>1, <3>2 DEF Ids, Sessions
  <2>4. /\ idx \in Indices /\ status \in {"RUNNING", "STOPPED", "FINISHED"}
        /\ loaded \subseteq Instruments /\ stream \in Streams
    BY <1>1 DEF IInv
  <2> QED
    BY <2>1, <2>2, <2>3, <2>4 DEF TypeOK, Callers, Sessions, Ids
<1> QED
  BY <1>1, ReplayInvariance, PTL

\* However often it is cut and rewritten, the action log stays in the order of
\* the bars its actions were taken at, none of them ahead of the clock.
THEOREM LogStaysChronological == Spec => []LogIsChronological
<1>1. ASSUME IInv PROVE LogIsChronological
  BY <1>1 DEF IInv, Logs, Chronological, LogIsChronological
<1> QED
  BY <1>1, ReplayInvariance, PTL

\* A client_order_id names one order of the session, whatever was retried,
\* rewound, replayed and restored.
THEOREM RetriesAreOneOrder == Spec => []RetriesPlaceOneOrder
<1>1. ASSUME IInv PROVE RetriesPlaceOneOrder
  <2>1. Book.orders = orders /\ Book.tag = tag /\ ClientsOnce(Book)
    BY <1>1, StateFacts DEF IInv, Books, BookOK
  <2> QED
    BY <2>1 DEF ClientsOnce, RetriesPlaceOneOrder
<1> QED
  BY <1>1, ReplayInvariance, PTL

\* Time travel keeps what PmbOrders promises of the order book: DAY and GTD
\* orders lapse, expired contracts are not worked, executions add up.
THEOREM ReplayKeepsOrdersSound == Spec => []OrdersStaySound
<1>1. ASSUME IInv PROVE OrdersStaySound
  <2>1. /\ idx \in -1..LastBar /\ orders \in [DOMAIN orders -> Orders!Order]
        /\ fills \in SUBSET Fill /\ Book.orders = orders /\ Book.fills = fills
    BY <1>1, StateFacts
  <2>2. BookOK(Book, idx)
    BY <1>1 DEF IInv, Books
  <2>3. \A i \in DOMAIN orders : OrderOK(orders[i], idx)
    BY <2>1, <2>2 DEF BookOK
  <2>4. Orders!DayOrdersHaveBarLeft
    BY <2>3 DEF OrderOK, Orders!DayOrdersHaveBarLeft
  <2>5. Orders!GtdOrdersLapse
    BY <2>3 DEF OrderOK, Orders!GtdOrdersLapse
  <2>6. Orders!ExpiredContractsNotWorked
    <3>1. \A i \in DOMAIN orders : \A c \in 0..idx :
            Orders!LastOfDate(c) /\ Orders!IsOpen(orders[i]) /\ Orders!OnExpiringContract(orders[i], c) =>
              orders[i].placed >= c
      BY <2>3 DEF OrderOK
    <3>2. \A f \in fills : Orders!LastOfDate(f.bar) => ~Orders!OnExpiringContract(orders[f.order], f.bar)
      BY <2>1, <2>2 DEF BookOK
    <3> QED
      BY <2>1, <3>1, <3>2 DEF Orders!ExpiredContractsNotWorked
  <2>7. Orders!FillAccounting
    <3> SUFFICES ASSUME NEW i \in DOMAIN orders
                 PROVE  /\ orders[i].filled = QtyOf(TradesFor(fills, i))
                        /\ orders[i].status = "FILLED" => orders[i].filled = orders[i].qty
                        /\ orders[i].qty # 0 /\ orders[i].filled = orders[i].qty =>
                             orders[i].status = "FILLED"
                        /\ orders[i].status = "PARTIALLY_FILLED" =>
                             0 < orders[i].filled /\ orders[i].filled < orders[i].qty
                        /\ orders[i].status = "ACCEPTED" => orders[i].filled = 0
      <4> DEFINE Executed(i) ==
                   SumFunction([t \in {u \in {[order |-> f.order, bar |-> f.bar, qty |-> f.qty] : f \in fills} :
                                         u.order = i} |-> t.qty])
      <4>1. \A i \in DOMAIN orders : QtyOf(TradesFor(fills, i)) = Executed(i)
        BY DEF TradesFor, QtyOf
      <4>2. (\A i \in DOMAIN orders : /\ orders[i].filled = Executed(i)
                                      /\ orders[i].status = "FILLED" => orders[i].filled = orders[i].qty
                                      /\ orders[i].qty # 0 /\ orders[i].filled = orders[i].qty =>
                                           orders[i].status = "FILLED"
                                      /\ orders[i].status = "PARTIALLY_FILLED" =>
                                           0 < orders[i].filled /\ orders[i].filled < orders[i].qty
                                      /\ orders[i].status = "ACCEPTED" => orders[i].filled = 0)
              => Orders!FillAccounting
        <5>1. \A f : Orders!SumFunction(f) = SumFunction(f)
          BY DEF SumFunction, SumFunctionOnSet, FoldFunctionOnSet, MapThenFoldSet,
                 Orders!SumFunction, Orders!SumFunctionOnSet, Orders!FoldFunctionOnSet,
                 Orders!MapThenFoldSet
        <5> QED
          BY <5>1, Zenon DEF Orders!FillAccounting
      <4> HIDE DEF Executed
      <4> QED
        BY <4>1, <4>2
    <3> QED
      BY <2>1, <2>2, <2>3 DEF BookOK, OrderOK, StatusMatchesFill
  <2> QED
    BY <2>4, <2>5, <2>6, <2>7 DEF OrdersStaySound
<1> QED
  BY <1>1, ReplayInvariance, PTL

-----------------------------------------------------------------------------
(* What a log says of the orders of a session.                             *)

\* What the market decides for an order while no instrument is loaded later.
FirstDecision(o, b) ==
  LET r == Orders!Ready(o, b) IN
  IF Orders!Eligible(r, b) /\ r.instr \in LoadedFirst
  THEN Share(Liquidity[r.instr][b], Orders!Remaining(r))
  ELSE Orders!Wait

\* The life of an order of spec s placed at bar p that nobody cancels.
Life(s, p) ==
  LET h[b \in Indices] ==
        IF b <= p THEN Orders!Accepted(s, p)
        ELSE Orders!AfterBar(h[b - 1], b, FirstDecision(h[b - 1], b))
  IN  h

\* The bar up to which an order lives that was cancelled at the bars C, as seen
\* from bar b.
EndOf(C, b) == IF C = {} THEN b ELSE CHOOSE c \in C : TRUE

\* What it is then, and the executions it has, drawn from stream rng.
StateAt(s, p, C, b) ==
  IF C = {} THEN Life(s, p)[b] ELSE Orders!Cancelled(Life(s, p)[EndOf(C, b)])

FillsAt(rng, s, p, C, b) ==
  {<<x, FirstDecision(Life(s, p)[x - 1], x), rng>> :
     x \in {y \in (p + 1)..EndOf(C, b) : Orders!Executes(FirstDecision(Life(s, p)[y - 1], y))}}

\* The bars at which the first n actions of a log cancel the order that its
\* action m places.
CancelBars(l, n, m) ==
  {l[c].index : c \in {x \in 1..n : l[x].kind = "cancel" /\ l[x].id = l[m].id}}

Placed(l, n) == {m \in 1..n : l[m].kind = "place"}

\* What the first n actions of a log make of a session at bar b.
Seen(rng, l, n, b, m) ==
  [order  |-> StateAt(l[m].spec, l[m].index, CancelBars(l, n, m), b),
   client |-> l[m].client,
   fills  |-> FillsAt(rng, l[m].spec, l[m].index, CancelBars(l, n, m), b)]

LogBag(rng, l, n, b) ==
  LET all == {Seen(rng, l, n, b, m) : m \in Placed(l, n)}
  IN  [a \in all |-> Cardinality({m \in Placed(l, n) : Seen(rng, l, n, b, m) = a})]

Drawn(fs, i) == {<<f.bar, f.qty, f.stream>> : f \in {g \in fs : g.order = i}}

\* Order i of book k is what action a of the log placed.
Meets(rng, k, i, a, C, b) ==
  /\ k.orders[i] = StateAt(a.spec, a.index, C, b)
  /\ k.orders[i].placed = a.index
  /\ C # {} => k.orders[i].status = "CANCELLED"
  /\ k.tag[i].client = a.client
  /\ Drawn(k.fills, i) = FillsAt(rng, a.spec, a.index, C, b)

\* Book k is what the first n actions of a log have made of a session at bar b.
Tracks(rng, k, l, n, b) ==
  /\ \A m \in Placed(l, n) :
       /\ l[m].id \in DOMAIN k.live /\ k.live[l[m].id] \in DOMAIN k.orders
       /\ Meets(rng, k, k.live[l[m].id], l[m], CancelBars(l, n, m), b)
  /\ \A j, m \in Placed(l, n) : k.live[l[j].id] = k.live[l[m].id] => j = m
  /\ \A i \in DOMAIN k.orders : \E m \in Placed(l, n) : k.live[l[m].id] = i

\* A log can be replayed.
PlaceOK(l, m) ==
  /\ Orders!Valid(l[m].spec)
  /\ \A j \in Placed(l, m - 1) :
       /\ l[j].id # l[m].id
       /\ l[j].client # l[m].client \/ l[m].client = NoClient
CancelOK(l, c) ==
  /\ \E m \in Placed(l, c - 1) :
       /\ l[m].id = l[c].id
       /\ Orders!IsOpen(Life(l[m].spec, l[m].index)[l[c].index])
  /\ \A j \in 1..(c - 1) : l[j].kind = "cancel" => l[j].id # l[c].id
Faithful(l) ==
  \A m \in DOMAIN l : IF l[m].kind = "place" THEN PlaceOK(l, m) ELSE CancelOK(l, m)

\* The book of a session: its orders have the ids of its log.
SessionBook == [orders |-> orders, tag |-> tag, fills |-> fills,
            live |-> [i \in DOMAIN orders |-> i]]

\* The bars make of an order that nobody cancels what its life says.
IsLife(h, s, p) ==
  h = [b \in Indices |->
         IF b <= p THEN Orders!Accepted(s, p)
         ELSE Orders!AfterBar(h[b - 1], b, FirstDecision(h[b - 1], b))]

\* The market decides as if nothing was loaded when nothing was.
LEMMA FirstDecides ==
  ASSUME loaded = LoadedFirst, NEW o, NEW b
  PROVE  FirstDecision(o, b) = Decision(o, b)
BY DEF FirstDecision, Decision

\* An order has a life.
LEMMA LifeExists ==
  ASSUME loaded = LoadedFirst, NEW s \in Orders!OrderSpec, NEW p \in Indices
  PROVE  \E h : IsLife(h, s, p)
<1>1. LastBar \in Nat /\ p \in -1..LastBar
  BY BookAssumption DEF Indices
<1>2. PICK n : n = LastBar + 1
  OBVIOUS
<1>3. PICK a : a = Orders!Accepted(s, p)
  OBVIOUS
<1> DEFINE A == {o \in Orders!Order : StatusMatchesFill(o)}
           step == [x \in A \X (1..n) |->
                      IF x[2] - 1 <= p THEN a
                      ELSE Orders!AfterBar(x[1], x[2] - 1, FirstDecision(x[1], x[2] - 1))]
<1>4. a \in A
  BY <1>1, <1>3, AcceptedOK DEF OrderOK
<1>5. \A o \in A, b \in 0..LastBar : Orders!AfterBar(o, b, FirstDecision(o, b)) \in A
  <2> SUFFICES ASSUME NEW o \in A, NEW b \in 0..LastBar
               PROVE  Orders!AfterBar(o, b, FirstDecision(o, b)) \in A
    OBVIOUS
  <2>1. o \in Orders!Order /\ StatusMatchesFill(o)
    OBVIOUS
  <2>2. Possible(o, b, FirstDecision(o, b))
    BY <2>1, FirstDecides, DecisionPossible
  <2> QED
    BY <2>1, <2>2, AfterBarFacts
<1> HIDE DEF A
<1>6. step \in [A \X (1..n) -> A]
  <2> SUFFICES ASSUME NEW o \in A, NEW m \in 1..n
               PROVE  (IF m - 1 <= p THEN a
                       ELSE Orders!AfterBar(o, m - 1, FirstDecision(o, m - 1))) \in A
    OBVIOUS
  <2>1. PICK b : b = m - 1
    OBVIOUS
  <2>2. b \in 0..LastBar
    BY <1>1, <1>2, <2>1
  <2> QED
    BY <1>4, <1>5, <2>1, <2>2
<1>7. n \in Nat
  BY <1>1, <1>2
<1>8. PICK v \in [0..n -> A] : v[0] = a /\ \A m \in 1..n : v[m] = step[<<v[m - 1], m>>]
  <2> HIDE DEF step
  <2>1. PICK v \in [0..n -> A] : StepsFrom(v, n, a, step)
    BY <1>4, <1>6, <1>7, IndexRecursion
  <2> QED
    BY <2>1 DEF StepsFrom
<1>9. \A m \in 1..n : v[m] = IF m - 1 <= p THEN a
                             ELSE Orders!AfterBar(v[m - 1], m - 1, FirstDecision(v[m - 1], m - 1))
  <2> SUFFICES ASSUME NEW m \in 1..n
               PROVE  v[m] = IF m - 1 <= p THEN a
                             ELSE Orders!AfterBar(v[m - 1], m - 1, FirstDecision(v[m - 1], m - 1))
    OBVIOUS
  <2>1. v[m - 1] \in A /\ v[m] = step[<<v[m - 1], m>>]
    <3> HIDE DEF step
    <3> QED
      BY <1>7, <1>8
  <2> QED
    BY <2>1
<1> HIDE DEF step
<1>10. PICK h : h = [b \in Indices |-> v[b + 1]]
  OBVIOUS
<1>11. ASSUME NEW b \in Indices
       PROVE  h[b] = IF b <= p THEN a
                     ELSE Orders!AfterBar(h[b - 1], b, FirstDecision(h[b - 1], b))
  <2>1. CASE b = -1
    <3>1. h[b] = v[0] /\ b <= p
      BY <1>1, <1>10, <2>1
    <3> QED
      BY <1>8, <3>1
  <2>2. CASE b # -1
    <3>1. PICK m : m = b + 1
      OBVIOUS
    <3>2. m \in 1..n /\ b - 1 \in Indices /\ b = m - 1 /\ (b - 1) + 1 = m - 1
      BY <1>1, <1>2, <2>2, <3>1 DEF Indices
    <3>3. h[b] = v[m] /\ h[b - 1] = v[m - 1]
      BY <1>10, <3>1, <3>2
    <3> QED
      BY <1>9, <3>2, <3>3
  <2> QED
    BY <2>1, <2>2
<1>12. h = [b \in Indices |->
              IF b <= p THEN a ELSE Orders!AfterBar(h[b - 1], b, FirstDecision(h[b - 1], b))]
  BY <1>10, <1>11
<1> QED
  BY <1>3, <1>12 DEF IsLife

\* An order starts as it is accepted, and a bar changes it as the market decides.
LEMMA LifeFacts ==
  ASSUME loaded = LoadedFirst, NEW s \in Orders!OrderSpec, NEW p \in Indices
  PROVE  /\ Life(s, p)[p] = Orders!Accepted(s, p)
         /\ \A b \in Indices : b > p =>
              Life(s, p)[b] = Orders!AfterBar(Life(s, p)[b - 1], b, FirstDecision(Life(s, p)[b - 1], b))
<1>1. Life(s, p) = CHOOSE h : IsLife(h, s, p)
  BY DEF Life, IsLife
<1>2. PICK h : h = Life(s, p) /\ IsLife(h, s, p)
  BY <1>1, LifeExists
<1>3. \A b \in Indices :
        h[b] = IF b <= p THEN Orders!Accepted(s, p)
               ELSE Orders!AfterBar(h[b - 1], b, FirstDecision(h[b - 1], b))
  BY <1>2 DEF IsLife
<1>4. \A b \in Indices : b \in Int /\ p \in Int
  BY BookAssumption DEF Indices
<1>5. h[p] = Orders!Accepted(s, p)
  BY <1>3, <1>4
<1>6. \A b \in Indices : b > p => ~(b <= p)
  BY <1>4
<1> QED
  BY <1>2, <1>3, <1>5, <1>6

\* A bar makes of an order of the log what the log says.
LEMMA MeetsBar ==
  ASSUME loaded = LoadedFirst, NEW b \in 0..LastBar, NEW k \in Books(b - 1), NEW rng \in Streams,
         NEW i \in DOMAIN k.orders, NEW a \in Actions, a.kind = "place", a.index <= b - 1,
         NEW C, Meets(rng, k, i, a, C, b - 1)
  PROVE  Meets(rng, AtBar(k, b, rng), i, a, C, b)
<1>1. /\ k \in BookType /\ BookOK(k, b - 1) /\ b \in Int /\ LastBar \in Nat
      /\ b \in Indices /\ b - 1 \in Indices
  BY BookAssumption DEF Books, BookType, Indices
<1>2. PICK o : o = k.orders[i]
  OBVIOUS
<1>3. OrderOK(o, b - 1)
  BY <1>1, <1>2 DEF BookOK
<1>4. PICK q : q = Decision(o, b)
  OBVIOUS
<1>5. /\ q \in Orders!Rejected..MaxQty /\ Barred(o, b).placed = o.placed
      /\ ~Orders!IsOpen(o) => Barred(o, b) = o /\ ~(Orders!Executes(q))
  BY <1>3, <1>4, BarredFacts
<1>6. PICK n : n = AtBar(k, b, rng)
  OBVIOUS
<1> DEFINE New == {[order |-> j, bar |-> b, qty |-> Decision(k.orders[j], b), stream |-> rng] :
                     j \in {l \in DOMAIN k.orders : Orders!Executes(Decision(k.orders[l], b))}}
<1>7. /\ n.orders = [j \in DOMAIN k.orders |-> Barred(k.orders[j], b)] /\ n.fills = k.fills \cup New
      /\ n.tag = k.tag
  BY <1>1, <1>6 DEF AtBar, BookType, Barred
<1>8. n.orders[i] = Barred(o, b)
  BY <1>2, <1>7
<1>9. Drawn(n.fills, i) = Drawn(k.fills, i) \cup {x \in {<<b, q, rng>>} : Orders!Executes(q)}
  <2>1. Drawn(New, i) = {x \in {<<b, q, rng>>} : Orders!Executes(q)}
    <3>1. ASSUME NEW f \in New, f.order = i PROVE Orders!Executes(q) /\ <<f.bar, f.qty, f.stream>> = <<b, q, rng>>
      <4>1. PICK j \in DOMAIN k.orders :
              /\ Orders!Executes(Decision(k.orders[j], b))
              /\ f = [order |-> j, bar |-> b, qty |-> Decision(k.orders[j], b), stream |-> rng]
        OBVIOUS
      <4>2. j = i /\ f.bar = b /\ f.qty = q /\ f.stream = rng
        BY <1>2, <1>4, <3>1, <4>1
      <4> QED
        BY <1>2, <1>4, <4>1, <4>2
    <3>2. ASSUME Orders!Executes(q) PROVE \E f \in New : f.order = i /\ <<f.bar, f.qty, f.stream>> = <<b, q, rng>>
      <4>1. PICK f : f = [order |-> i, bar |-> b, qty |-> Decision(k.orders[i], b), stream |-> rng]
        OBVIOUS
      <4>2. f \in New
        BY <1>2, <1>4, <3>2, <4>1
      <4>3. f.order = i /\ f.bar = b /\ f.qty = q /\ f.stream = rng
        BY <1>2, <1>4, <4>1
      <4> QED
        BY <4>2, <4>3
    <3> HIDE DEF New
    <3> QED
      BY <3>1, <3>2 DEF Drawn
  <2>2. Drawn(n.fills, i) = Drawn(k.fills, i) \cup Drawn(New, i)
    <3> HIDE DEF New
    <3> QED
      BY <1>7 DEF Drawn
  <2> QED
    BY <2>1, <2>2
<1> HIDE DEF New
<1>10. /\ o = StateAt(a.spec, a.index, C, b - 1) /\ o.placed = a.index
       /\ C # {} => o.status = "CANCELLED"
       /\ k.tag[i].client = a.client
       /\ Drawn(k.fills, i) = FillsAt(rng, a.spec, a.index, C, b - 1)
  BY <1>2 DEF Meets
<1>11. CASE C # {}
  <2>1. ~Orders!IsOpen(o)
    BY <1>10, <1>11 DEF Orders!IsOpen, Orders!Active
  <2>2. n.orders[i] = o /\ Drawn(n.fills, i) = Drawn(k.fills, i)
    BY <1>5, <1>8, <1>9, <2>1
  <2>3. EndOf(C, b) = EndOf(C, b - 1)
    BY <1>11 DEF EndOf
  <2>4. /\ StateAt(a.spec, a.index, C, b) = StateAt(a.spec, a.index, C, b - 1)
        /\ FillsAt(rng, a.spec, a.index, C, b) = FillsAt(rng, a.spec, a.index, C, b - 1)
    BY <1>11, <2>3 DEF StateAt, FillsAt
  <2> QED
    BY <1>6, <1>7, <1>10, <2>2, <2>4 DEF Meets
<1>12. CASE C = {}
  <2>1. PICK h : h = Life(a.spec, a.index)
    OBVIOUS
  <2>2. a.spec \in Orders!OrderSpec /\ a.index \in Indices /\ a.index \in Int
    BY <1>1, BookAssumption DEF Actions, ActionOK, Action, Indices
  <2>3. h[b] = Orders!AfterBar(h[b - 1], b, FirstDecision(h[b - 1], b))
    BY <1>1, <2>1, <2>2, LifeFacts
  <2>4. o = h[b - 1]
    BY <1>10, <1>12, <2>1 DEF StateAt
  <2>5. FirstDecision(o, b) = q
    BY <1>4, FirstDecides
  <2>6. n.orders[i] = h[b]
    BY <1>4, <1>8, <2>3, <2>4, <2>5 DEF Barred
  <2>7. StateAt(a.spec, a.index, C, b) = h[b]
    BY <1>12, <2>1 DEF StateAt
  <2>8. FillsAt(rng, a.spec, a.index, C, b)
          = FillsAt(rng, a.spec, a.index, C, b - 1) \cup {x \in {<<b, q, rng>>} : Orders!Executes(q)}
    <3>1. EndOf(C, b) = b /\ EndOf(C, b - 1) = b - 1
      BY <1>12 DEF EndOf
    <3>2. (a.index + 1)..b = ((a.index + 1)..(b - 1)) \cup {b} /\ b \notin (a.index + 1)..(b - 1)
      BY <1>1, <2>2
    <3>3. FirstDecision(h[b - 1], b) = q
      BY <2>4, <2>5
    <3> DEFINE Executed(S) == {<<x, FirstDecision(h[x - 1], x), rng>> :
                               x \in {y \in S : Orders!Executes(FirstDecision(h[y - 1], y))}}
    <3>4. /\ FillsAt(rng, a.spec, a.index, C, b) = Executed((a.index + 1)..b)
          /\ FillsAt(rng, a.spec, a.index, C, b - 1) = Executed((a.index + 1)..(b - 1))
      BY <2>1, <3>1 DEF FillsAt
    <3>5. \A S : Executed(S \cup {b}) = Executed(S) \cup Executed({b})
      OBVIOUS
    <3>6. Executed({b}) = {x \in {<<b, q, rng>>} : Orders!Executes(q)}
      BY <3>3
    <3> HIDE DEF Executed
    <3> QED
      BY <3>2, <3>4, <3>5, <3>6
  <2>9. o.placed = Barred(o, b).placed
    BY <1>5
  <2> QED
    BY <1>6, <1>7, <1>8, <1>9, <1>10, <1>12, <2>6, <2>7, <2>8, <2>9 DEF Meets
<1> QED
  BY <1>11, <1>12

\* An order that is placed is what the log says.
LEMMA MeetsPlace ==
  ASSUME loaded = LoadedFirst, NEW b \in Indices, NEW k, NEW rng,
         NEW i, NEW a \in Actions, a.kind = "place", a.index = b,
         k.orders[i] = Orders!Accepted(a.spec, b), k.tag[i].client = a.client,
         Drawn(k.fills, i) = {}
  PROVE  Meets(rng, k, i, a, {}, b)
<1>1. a.spec \in Orders!OrderSpec /\ b \in Int
  BY BookAssumption DEF Actions, ActionOK, Action, Indices
<1>2. Life(a.spec, b)[b] = Orders!Accepted(a.spec, b)
  BY <1>1, LifeFacts
<1>3. EndOf({}, b) = b
  BY DEF EndOf
<1>4. StateAt(a.spec, b, {}, b) = k.orders[i]
  BY <1>2, <1>3 DEF StateAt
<1>5. FillsAt(rng, a.spec, b, {}, b) = {}
  <2>1. (b + 1)..b = {}
    BY <1>1
  <2> QED
    BY <1>3, <2>1 DEF FillsAt
<1>6. k.orders[i].placed = b
  BY DEF Orders!Accepted
<1> QED
  BY <1>4, <1>5, <1>6 DEF Meets

\* An order that is cancelled is what the log says.
LEMMA MeetsCancel ==
  ASSUME NEW b \in Indices, NEW k \in Books(b), NEW rng, NEW i \in DOMAIN k.orders,
         NEW a, Meets(rng, k, i, a, {}, b), Orders!IsOpen(k.orders[i]),
         NEW n, n.orders[i] = Orders!Cancelled(k.orders[i]), n.tag = k.tag, n.fills = k.fills
  PROVE  Meets(rng, n, i, a, {b}, b)
<1>1. EndOf({}, b) = b /\ EndOf({b}, b) = b
  <2>1. \A c \in {b} : c = b
    OBVIOUS
  <2> QED
    BY <2>1 DEF EndOf
<1>2. OrderOK(k.orders[i], b)
  BY DEF Books, BookOK
<1>3. n.orders[i].placed = k.orders[i].placed /\ n.orders[i].status = "CANCELLED"
  BY <1>2, CancelledOK
<1>4. k.orders[i] = Life(a.spec, a.index)[b]
  BY DEF Meets, StateAt
<1>5. StateAt(a.spec, a.index, {b}, b) = n.orders[i]
  BY <1>1, <1>4 DEF StateAt
<1>6. FillsAt(rng, a.spec, a.index, {b}, b) = FillsAt(rng, a.spec, a.index, {}, b)
  BY <1>1 DEF FillsAt
<1> QED
  BY <1>3, <1>5, <1>6 DEF Meets

\* An order that is left alone stays what the log says.
LEMMA MeetsStill ==
  ASSUME NEW rng, NEW k, NEW i, NEW a, NEW C, NEW b, Meets(rng, k, i, a, C, b),
         NEW n, n.orders[i] = k.orders[i], n.tag[i].client = k.tag[i].client,
         Drawn(n.fills, i) = Drawn(k.fills, i)
  PROVE  Meets(rng, n, i, a, C, b)
BY DEF Meets

-----------------------------------------------------------------------------
(* What the log says of a session, one action after the other.             *)

\* What the next action of a log adds to what is placed and cancelled.
LEMMA NextAction ==
  ASSUME NEW l, NEW m \in Nat \ {0}
  PROVE  /\ l[m].kind = "place" =>
              /\ Placed(l, m) = Placed(l, m - 1) \cup {m}
              /\ \A j : CancelBars(l, m, j) = CancelBars(l, m - 1, j)
         /\ l[m].kind = "cancel" =>
              /\ Placed(l, m) = Placed(l, m - 1)
              /\ \A j : l[j].id # l[m].id => CancelBars(l, m, j) = CancelBars(l, m - 1, j)
              /\ \A j : l[j].id = l[m].id =>
                   CancelBars(l, m, j) = CancelBars(l, m - 1, j) \cup {l[m].index}
<1>1. 1..m = 1..(m - 1) \cup {m}
  OBVIOUS
<1>2. l[m].kind = "place" => Placed(l, m) = Placed(l, m - 1) \cup {m}
  BY <1>1 DEF Placed
<1>3. l[m].kind = "cancel" => Placed(l, m) = Placed(l, m - 1)
  BY <1>1 DEF Placed
<1> DEFINE Ending(n, j) == {x \in 1..n : l[x].kind = "cancel" /\ l[x].id = l[j].id}
<1>4. \A n, j : CancelBars(l, n, j) = {l[c].index : c \in Ending(n, j)}
  BY DEF CancelBars
<1>5. \A j : IF l[m].kind = "cancel" /\ l[m].id = l[j].id THEN Ending(m, j) = Ending(m - 1, j) \cup {m}
             ELSE Ending(m, j) = Ending(m - 1, j)
  BY <1>1
<1> HIDE DEF Ending
<1>6. \A j : l[m].kind = "place" \/ l[j].id # l[m].id => CancelBars(l, m, j) = CancelBars(l, m - 1, j)
  <2> SUFFICES ASSUME NEW j, l[m].kind = "place" \/ l[j].id # l[m].id
               PROVE  CancelBars(l, m, j) = CancelBars(l, m - 1, j)
    OBVIOUS
  <2>1. Ending(m, j) = Ending(m - 1, j)
    BY <1>5
  <2> QED
    BY <1>4, <2>1
<1>7. ASSUME NEW j, l[m].kind = "cancel", l[j].id = l[m].id
      PROVE  CancelBars(l, m, j) = CancelBars(l, m - 1, j) \cup {l[m].index}
  <2>1. Ending(m, j) = Ending(m - 1, j) \cup {m}
    BY <1>5, <1>7
  <2> QED
    BY <1>4, <2>1
<1> QED
  BY <1>2, <1>3, <1>6, <1>7

\* No order is cancelled by no action.
LEMMA NoCancel ==
  ASSUME NEW l, NEW n, NEW m, \A j \in 1..n : l[j].kind = "cancel" => l[j].id # l[m].id
  PROVE  CancelBars(l, n, m) = {}
BY DEF CancelBars

\* A bar keeps a book what the log says.
LEMMA TracksBar ==
  ASSUME loaded = LoadedFirst, NEW b \in 0..LastBar, NEW k \in Books(b - 1), NEW rng \in Streams,
         NEW l \in Logs, NEW n \in 0..Len(l), \A j \in 1..n : l[j].index <= b - 1,
         Tracks(rng, k, l, n, b - 1)
  PROVE  Tracks(rng, AtBar(k, b, rng), l, n, b)
<1>1. PICK x : x = AtBar(k, b, rng)
  OBVIOUS
<1>2. k \in BookType
  BY DEF Books
<1>3. DOMAIN x.orders = DOMAIN k.orders /\ x.live = k.live
  BY <1>1, <1>2 DEF AtBar, BookType
<1>4. l \in Seq(Actions) /\ Len(l) \in Nat /\ DOMAIN l = 1..Len(l)
  BY DEF Logs
<1>5. ASSUME NEW m \in Placed(l, n)
      PROVE  /\ l[m].id \in DOMAIN x.live /\ x.live[l[m].id] \in DOMAIN x.orders
             /\ Meets(rng, x, x.live[l[m].id], l[m], CancelBars(l, n, m), b)
  <2>1. PICK i : i = k.live[l[m].id]
    OBVIOUS
  <2>2. m \in 1..n /\ m \in 1..Len(l) /\ l[m].kind = "place"
    BY <1>4 DEF Placed
  <2>3. l[m] \in Actions /\ l[m].index <= b - 1
    BY <1>4, <2>2
  <2>4. l[m].id \in DOMAIN k.live /\ i \in DOMAIN k.orders /\ Meets(rng, k, i, l[m], CancelBars(l, n, m), b - 1)
    BY <2>1 DEF Tracks
  <2>5. Meets(rng, x, i, l[m], CancelBars(l, n, m), b)
    BY <1>1, <2>2, <2>3, <2>4, MeetsBar
  <2> QED
    BY <1>3, <2>1, <2>4, <2>5
<1> QED
  BY <1>1, <1>3, <1>5 DEF Tracks

\* Book n is book k with order i, which action a placed at bar b.
Adds(n, k, i, a, b) ==
  /\ i \notin DOMAIN k.orders /\ DOMAIN n.orders = DOMAIN k.orders \cup {i}
  /\ n.orders[i] = Orders!Accepted(a.spec, b) /\ n.tag[i].client = a.client
  /\ \A j \in DOMAIN k.orders : n.orders[j] = k.orders[j] /\ n.tag[j].client = k.tag[j].client
  /\ n.fills = k.fills
  /\ DOMAIN n.live = DOMAIN k.live \cup {a.id} /\ n.live[a.id] = i
  /\ \A j \in DOMAIN k.live : j # a.id => n.live[j] = k.live[j]

\* The next action places an order.
LEMMA TracksPlace ==
  ASSUME loaded = LoadedFirst, NEW b \in Indices, NEW k \in Books(b), NEW rng,
         NEW l \in Logs, NEW m \in DOMAIN l, Faithful(l), l[m].kind = "place", l[m].index = b,
         Tracks(rng, k, l, m - 1, b), NEW n, NEW i, Adds(n, k, i, l[m], b)
  PROVE  Tracks(rng, n, l, m, b)
<1>1. /\ l \in Seq(Actions) /\ Len(l) \in Nat /\ DOMAIN l = 1..Len(l) /\ m \in Nat \ {0}
      /\ l[m] \in Actions
  BY DEF Logs
<1>2. PICK a : a = l[m]
  OBVIOUS
<1>3. PICK P : P = Placed(l, m - 1)
  OBVIOUS
<1>4. Placed(l, m) = P \cup {m} /\ \A j : CancelBars(l, m, j) = CancelBars(l, m - 1, j)
  BY <1>1, <1>3, NextAction
<1>5. Adds(n, k, i, a, b) /\ a \in Actions /\ a.kind = "place" /\ a.index = b
  BY <1>1, <1>2
<1>6. \A j \in P : l[j].id # a.id
  BY <1>2, <1>3 DEF Faithful, PlaceOK
<1>7. \A f \in k.fills : f.order # i
  BY <1>5 DEF Books, BookOK, Adds
<1>8. CancelBars(l, m, m) = {}
  <2>1. ASSUME NEW c \in 1..(m - 1), l[c].kind = "cancel" PROVE l[c].id # l[m].id
    <3>1. c \in DOMAIN l /\ l[c].kind # "place"
      BY <1>1, <2>1
    <3>2. CancelOK(l, c)
      BY <3>1 DEF Faithful
    <3>3. PICK j \in Placed(l, c - 1) : l[j].id = l[c].id
      BY <3>2 DEF CancelOK
    <3>4. j \in P
      BY <1>1, <1>3, <3>3 DEF Placed
    <3> QED
      BY <1>2, <1>6, <3>3, <3>4
  <2>2. CancelBars(l, m - 1, m) = {}
    BY <2>1, NoCancel
  <2> QED
    BY <1>4, <2>2
<1>9. Meets(rng, n, i, a, {}, b)
  <2>1. n.orders[i] = Orders!Accepted(a.spec, b) /\ n.tag[i].client = a.client /\ n.fills = k.fills
    BY <1>5 DEF Adds
  <2>2. Drawn(n.fills, i) = {}
    BY <1>7, <2>1 DEF Drawn
  <2> QED
    BY <1>5, <2>1, <2>2, MeetsPlace
<1>10. ASSUME NEW j \in P
       PROVE  /\ l[j].id \in DOMAIN k.live /\ k.live[l[j].id] \in DOMAIN k.orders
              /\ l[j].id \in DOMAIN n.live /\ n.live[l[j].id] = k.live[l[j].id]
              /\ Meets(rng, n, n.live[l[j].id], l[j], CancelBars(l, m, j), b)
  <2>1. PICK g : g = k.live[l[j].id]
    OBVIOUS
  <2>2. /\ l[j].id \in DOMAIN k.live /\ g \in DOMAIN k.orders
        /\ Meets(rng, k, g, l[j], CancelBars(l, m - 1, j), b)
    BY <1>3, <2>1 DEF Tracks
  <2>3. l[j].id \in DOMAIN n.live /\ n.live[l[j].id] = g
    BY <1>5, <1>6, <2>1, <2>2 DEF Adds
  <2>4. n.orders[g] = k.orders[g] /\ n.tag[g].client = k.tag[g].client /\ n.fills = k.fills
    BY <1>5, <2>2 DEF Adds
  <2>5. Meets(rng, n, g, l[j], CancelBars(l, m - 1, j), b)
    BY <2>2, <2>4, MeetsStill
  <2>6. CancelBars(l, m, j) = CancelBars(l, m - 1, j)
    BY <1>4
  <2> QED
    BY <2>1, <2>2, <2>3, <2>5, <2>6
<1>11. a.id \in DOMAIN n.live /\ n.live[a.id] = i /\ DOMAIN n.orders = DOMAIN k.orders \cup {i}
       /\ i \notin DOMAIN k.orders
  BY <1>5 DEF Adds
<1>12. \A j \in P \cup {m} :
         /\ l[j].id \in DOMAIN n.live /\ n.live[l[j].id] \in DOMAIN n.orders
         /\ Meets(rng, n, n.live[l[j].id], l[j], CancelBars(l, m, j), b)
  BY <1>2, <1>8, <1>9, <1>10, <1>11
<1>13. \A g, j \in P \cup {m} : n.live[l[g].id] = n.live[l[j].id] => g = j
  <2>1. \A g, j \in P : k.live[l[g].id] = k.live[l[j].id] => g = j
    BY <1>3 DEF Tracks
  <2>2. \A j \in P : n.live[l[j].id] # i
    BY <1>10, <1>11
  <2> QED
    BY <1>2, <1>10, <1>11, <2>1, <2>2
<1>14. \A g \in DOMAIN n.orders : \E j \in P \cup {m} : n.live[l[j].id] = g
  <2>1. \A g \in DOMAIN k.orders : \E j \in P : k.live[l[j].id] = g
    BY <1>3 DEF Tracks
  <2> QED
    BY <1>2, <1>10, <1>11, <2>1
<1> QED
  BY <1>4, <1>12, <1>13, <1>14 DEF Tracks

\* Action m of a log cancels an order that no action before it does.
Targets(l, m) == \E p \in Placed(l, m - 1) : l[p].id = l[m].id /\ CancelBars(l, m - 1, p) = {}

\* The order an action cancels is open.
LEMMA CancelsOpen ==
  ASSUME NEW b, NEW k, NEW rng, NEW l \in Logs, NEW m \in DOMAIN l,
         Faithful(l), l[m].kind = "cancel", l[m].index = b, Tracks(rng, k, l, m - 1, b)
  PROVE  /\ l[m].id \in DOMAIN k.live /\ k.live[l[m].id] \in DOMAIN k.orders
         /\ Orders!IsOpen(k.orders[k.live[l[m].id]])
         /\ Targets(l, m)
<1>1. CancelOK(l, m)
  BY DEF Faithful
<1>2. PICK p \in Placed(l, m - 1) :
        l[p].id = l[m].id /\ Orders!IsOpen(Life(l[p].spec, l[p].index)[b])
  BY <1>1 DEF CancelOK
<1>3. CancelBars(l, m - 1, p) = {}
  BY <1>1, <1>2, NoCancel DEF CancelOK
<1>4. /\ l[p].id \in DOMAIN k.live /\ k.live[l[p].id] \in DOMAIN k.orders
      /\ Meets(rng, k, k.live[l[p].id], l[p], {}, b)
  <2>1. /\ l[p].id \in DOMAIN k.live /\ k.live[l[p].id] \in DOMAIN k.orders
        /\ Meets(rng, k, k.live[l[p].id], l[p], CancelBars(l, m - 1, p), b)
    BY <1>2 DEF Tracks
  <2> QED
    BY <1>3, <2>1
<1>5. k.orders[k.live[l[p].id]] = Life(l[p].spec, l[p].index)[b]
  BY <1>4 DEF Meets, StateAt
<1>6. Targets(l, m)
  BY <1>2, <1>3 DEF Targets
<1> QED
  BY <1>2, <1>4, <1>5, <1>6

\* Book n is book k with order i cancelled.
Closes(n, k, i) ==
  /\ DOMAIN n.orders = DOMAIN k.orders /\ n.orders[i] = Orders!Cancelled(k.orders[i])
  /\ \A j \in DOMAIN k.orders \ {i} : n.orders[j] = k.orders[j]
  /\ n.tag = k.tag /\ n.fills = k.fills /\ n.live = k.live

\* The next action cancels an order.
LEMMA TracksCancel ==
  ASSUME NEW b \in Indices, NEW k \in Books(b), NEW rng, NEW l \in Logs, NEW m \in DOMAIN l,
         Faithful(l), l[m].kind = "cancel", l[m].index = b, Tracks(rng, k, l, m - 1, b),
         NEW n, Closes(n, k, k.live[l[m].id])
  PROVE  Tracks(rng, n, l, m, b)
<1>1. /\ l \in Seq(Actions) /\ Len(l) \in Nat /\ DOMAIN l = 1..Len(l) /\ m \in Nat \ {0}
  BY DEF Logs
<1>2. PICK i : i = k.live[l[m].id]
  OBVIOUS
<1>3. PICK P : P = Placed(l, m - 1)
  OBVIOUS
<1>4. PICK p \in P : l[p].id = l[m].id /\ CancelBars(l, m - 1, p) = {}
  <2>1. Targets(l, m)
    BY CancelsOpen
  <2> QED
    BY <1>3, <2>1 DEF Targets
<1>5. i \in DOMAIN k.orders /\ Orders!IsOpen(k.orders[i])
  BY <1>2, CancelsOpen
<1>6. /\ DOMAIN n.orders = DOMAIN k.orders /\ n.orders[i] = Orders!Cancelled(k.orders[i])
      /\ \A j \in DOMAIN k.orders \ {i} : n.orders[j] = k.orders[j]
      /\ n.tag = k.tag /\ n.fills = k.fills /\ n.live = k.live
  BY <1>2 DEF Closes
<1>7. /\ Placed(l, m) = P
      /\ \A j : l[j].id # l[m].id => CancelBars(l, m, j) = CancelBars(l, m - 1, j)
      /\ CancelBars(l, m, p) = {b}
  BY <1>1, <1>3, <1>4, NextAction
<1>8. /\ \A g, j \in P : k.live[l[g].id] = k.live[l[j].id] => g = j
      /\ \A g \in DOMAIN k.orders : \E j \in P : k.live[l[j].id] = g
  BY <1>3 DEF Tracks
<1>9. ASSUME NEW j \in P
      PROVE  /\ l[j].id \in DOMAIN k.live /\ k.live[l[j].id] \in DOMAIN k.orders
             /\ Meets(rng, n, k.live[l[j].id], l[j], CancelBars(l, m, j), b)
  <2>1. PICK g : g = k.live[l[j].id]
    OBVIOUS
  <2>2. /\ l[j].id \in DOMAIN k.live /\ g \in DOMAIN k.orders
        /\ Meets(rng, k, g, l[j], CancelBars(l, m - 1, j), b)
    BY <1>3, <2>1 DEF Tracks
  <2>3. CASE j = p
    <3>1. g = i /\ Meets(rng, k, i, l[j], {}, b)
      BY <1>2, <1>4, <2>1, <2>2, <2>3
    <3>2. Meets(rng, n, i, l[j], {b}, b)
      BY <1>5, <1>6, <3>1, MeetsCancel
    <3> QED
      BY <1>7, <2>1, <2>2, <2>3, <3>1, <3>2
  <2>4. CASE j # p
    <3>1. g # i /\ l[j].id # l[m].id
      BY <1>2, <1>4, <1>8, <2>1, <2>4
    <3>2. n.orders[g] = k.orders[g]
      BY <1>6, <2>2, <3>1
    <3>3. Meets(rng, n, g, l[j], CancelBars(l, m - 1, j), b)
      BY <1>6, <2>2, <3>2, MeetsStill
    <3> QED
      BY <1>7, <2>1, <2>2, <3>1, <3>3
  <2> QED
    BY <2>3, <2>4
<1> QED
  BY <1>6, <1>7, <1>8, <1>9 DEF Tracks

\* An action of the log makes of a book what the log says.
LEMMA TracksAction ==
  ASSUME loaded = LoadedFirst, NEW b \in Indices, NEW k \in Books(b), NEW rng,
         NEW l \in Logs, NEW m \in DOMAIN l, Faithful(l), l[m].index = b,
         Tracks(rng, k, l, m - 1, b), IsFiniteSet(DOMAIN orders), IsFiniteSet(DOMAIN log)
  PROVE  Tracks(rng, ApplyAction(k, l[m]), l, m, b)
<1>1. /\ l \in Seq(Actions) /\ Len(l) \in Nat /\ DOMAIN l = 1..Len(l) /\ m \in Nat \ {0}
      /\ k \in BookType /\ k.live \in [DOMAIN k.live -> Ids]
  BY TableFacts DEF Logs, Books, BookType
<1>2. PICK a : a = l[m]
  OBVIOUS
<1>3. a \in Actions /\ a.kind \in {"place", "cancel"} /\ a.index = b
  BY <1>1, <1>2 DEF Actions, Action
<1>4. PICK n : n = ApplyAction(k, a)
  OBVIOUS
<1>5. CASE a.kind = "place"
  <2>1. Orders!Valid(a.spec)
    BY <1>2, <1>5 DEF Faithful, PlaceOK
  <2>2. PlacedBy(k, a.client) = {}
    <3> SUFFICES ASSUME NEW i \in DOMAIN k.orders, a.client # NoClient PROVE k.tag[i].client # a.client
      BY DEF PlacedBy
    <3>1. PICK j \in Placed(l, m - 1) : k.live[l[j].id] = i
      BY DEF Tracks
    <3>2. k.tag[k.live[l[j].id]].client = l[j].client
      BY DEF Tracks, Meets
    <3>3. l[j].client # a.client
      BY <1>2, <1>5 DEF Faithful, PlaceOK
    <3> QED
      BY <3>1, <3>2, <3>3
  <2>3. PICK i : i = FreshId(Taken(k))
    OBVIOUS
  <2>4. i \notin DOMAIN k.orders
    BY <2>3, TakenFinite, FreshIds DEF Taken
  <2>5. PICK f : f = [j \in DOMAIN k.live \cup {a.id} |-> IF j = a.id THEN i ELSE k.live[j]]
    OBVIOUS
  <2>6. PICK x : x = [k EXCEPT !.live = f]
    OBVIOUS
  <2>7. /\ x.orders = k.orders /\ x.tag = k.tag /\ x.fills = k.fills /\ x.live = f
        /\ x = [orders |-> x.orders, tag |-> x.tag, fills |-> x.fills, live |-> x.live]
    BY <1>1, <2>6 DEF BookType
  <2>8. n = Submitted(x, i, a.spec, a.client, a.session, b)
    BY <1>3, <1>4, <1>5, <2>1, <2>2, <2>3, <2>5, <2>6 DEF ApplyAction, Taken
  <2>9. DOMAIN k.tag = DOMAIN k.orders
    BY DEF Books, BookOK
  <2>10. /\ n.orders = [j \in DOMAIN k.orders \cup {i} |->
                          IF j = i THEN Orders!Accepted(a.spec, b) ELSE k.orders[j]]
         /\ n.tag = [j \in DOMAIN k.orders \cup {i} |->
                       IF j = i THEN [client |-> a.client, session |-> a.session] ELSE k.tag[j]]
         /\ n.fills = k.fills /\ n.live = f
    BY <2>7, <2>8, <2>9 DEF Submitted
  <2>11. Adds(n, k, i, a, b)
    BY <2>4, <2>5, <2>10 DEF Adds
  <2> QED
    BY <1>2, <1>3, <1>4, <1>5, <2>11, TracksPlace
<1>6. CASE a.kind = "cancel"
  <2>1. PICK i : i = k.live[a.id]
    OBVIOUS
  <2>2. a.id \in DOMAIN k.live /\ i \in DOMAIN k.orders /\ Orders!IsOpen(k.orders[i])
    BY <1>2, <1>3, <1>6, <2>1, CancelsOpen
  <2>3. n = [k EXCEPT !.orders[i] = Orders!Cancelled(@)]
    BY <1>4, <1>6, <2>1, <2>2 DEF ApplyAction, Live
  <2>4. Closes(n, k, i)
    <3>1. /\ n.orders = [k.orders EXCEPT ![i] = Orders!Cancelled(@)]
          /\ n.tag = k.tag /\ n.fills = k.fills /\ n.live = k.live
      BY <1>1, <2>3 DEF BookType
    <3>2. k.orders \in [DOMAIN k.orders -> Orders!Order]
      BY <1>1, TableFacts DEF BookType
    <3> QED
      BY <2>2, <3>1, <3>2 DEF Closes
  <2> QED
    BY <1>2, <1>3, <1>4, <1>6, <2>1, <2>4, TracksCancel
<1> QED
  BY <1>3, <1>5, <1>6

\* The actions of a bar make of a book what the log says.
LEMMA AppliedTracks ==
  ASSUME loaded = LoadedFirst, Replayable, NEW b \in Indices, NEW k \in Books(b), NEW rng,
         NEW l \in Logs, Faithful(l), Tracks(rng, k, l, Upto(l, b - 1), b)
  PROVE  Tracks(rng, Applied(k, AtBarOf(l, b)), l, Upto(l, b), b)
<1>1. b \in -1..LastBar /\ b \in Int /\ b - 1 \in Int
  BY BookAssumption DEF Indices
<1>2. PICK lo : lo = Upto(l, b - 1)
  OBVIOUS
<1>3. PICK hi : hi = Upto(l, b)
  OBVIOUS
<1>4. /\ lo \in 0..Len(l) /\ hi \in 0..Len(l) /\ Len(l) \in Nat /\ DOMAIN l = 1..Len(l)
      /\ CutsAt(l, lo, b - 1) /\ CutsAt(l, hi, b)
  BY <1>1, <1>2, <1>3, UptoFacts DEF Logs
<1>5. PICK n : n = hi - lo
  OBVIOUS
<1>6. PICK as : as = AtBarOf(l, b)
  OBVIOUS
<1>7. /\ n \in Nat /\ as \in [1..n -> Actions] /\ \A j \in 1..n : as[j].index = b
      /\ as = Stretch(l, lo, hi)
  BY <1>1, <1>2, <1>3, <1>5, <1>6, AtBarActions DEF AtBarOf
<1>8. \A j \in 1..n : as[j] = l[lo + j]
  BY <1>5, <1>7 DEF Stretch
<1>9. IsFiniteSet(DOMAIN orders) /\ IsFiniteSet(DOMAIN log)
  <2>1. log \in Logs /\ DOMAIN log = 1..Len(log) /\ Len(log) \in Nat
    BY DEF Replayable, Logs
  <2> QED
    BY <2>1, FS_Interval DEF Replayable
<1>10. PICK v \in [0..n -> Books(b)] : Applies(v, k, n, as)
  BY <1>1, <1>7, <1>9, AppliedSteps
<1>11. v[0] = k /\ v[n] = Applied(k, as) /\ \A j \in 1..n : v[j] = ApplyAction(v[j - 1], as[j])
  BY <1>10 DEF Applies
<1> DEFINE Good == {j \in 0..n : Tracks(rng, v[j], l, lo + j, b)}
<1>12. 0 \in Good
  <2>1. lo + 0 = lo /\ 0 \in 0..n
    BY <1>4, <1>7
  <2> QED
    BY <1>2, <1>11, <2>1
<1>13. ASSUME NEW j \in 1..n, j - 1 \in Good PROVE j \in Good
  <2>1. PICK m : m = lo + j
    OBVIOUS
  <2>2. m \in DOMAIN l /\ m - 1 = lo + (j - 1) /\ j \in 0..n
    BY <1>4, <1>5, <1>7, <2>1
  <2>3. PICK x : x = v[j - 1]
    OBVIOUS
  <2>4. x \in Books(b) /\ Tracks(rng, x, l, m - 1, b)
    BY <1>10, <1>13, <2>2, <2>3
  <2>5. l[m].index = b /\ v[j] = ApplyAction(x, l[m])
    BY <1>7, <1>8, <1>11, <2>1, <2>3
  <2>6. Tracks(rng, ApplyAction(x, l[m]), l, m, b)
    BY <1>9, <2>2, <2>4, <2>5, TracksAction
  <2> QED
    BY <2>1, <2>2, <2>5, <2>6
<1>14. Good = 0..n
  <2>1. Good \in SUBSET (0..n)
    OBVIOUS
  <2> HIDE DEF Good
  <2> QED
    BY <1>7, <1>12, <1>13, <2>1, IndexInduction
<1>15. Tracks(rng, v[n], l, lo + n, b)
  <2>1. n \in 0..n
    BY <1>7
  <2> QED
    BY <1>14, <2>1
<1>16. lo + n = hi
  BY <1>4, <1>5
<1> QED
  BY <1>3, <1>6, <1>11, <1>15, <1>16

\* The books of a replay are what the log says.
LEMMA ReplayTracks ==
  ASSUME loaded = LoadedFirst, Replayable, Faithful(log), NEW t \in Indices, NEW rng \in Streams,
         NEW book, IsReplay(book, t, rng), \A b \in -1..t : book[b] \in Books(b)
  PROVE  \A b \in -1..t : Tracks(rng, book[b], log, Upto(log, b), b)
<1>1. t \in Int /\ t >= -1 /\ t <= LastBar /\ LastBar \in Nat
  BY BookAssumption DEF Indices
<1>2. PICK l : l = log
  OBVIOUS
<1>3. l \in Logs /\ Faithful(l) /\ l \in Seq(Actions) /\ DOMAIN l = 1..Len(l) /\ Len(l) \in Nat
  BY <1>2 DEF Replayable, Logs
<1>4. \A b \in -1..t : book[b] = Onward(book[b - 1], b, t, rng)
  BY DEF IsReplay
<1>5. \A b \in -1..t : TakenAt(Kept(t), {b}) = AtBarOf(l, b)
  BY <1>2, <1>3, TakenAtBar
<1>6. ASSUME NEW b \in -1..t, NEW k \in Books(b), Tracks(rng, k, l, Upto(l, b - 1), b)
      PROVE  Tracks(rng, Applied(k, TakenAt(Kept(t), {b})), l, Upto(l, b), b)
  <2>1. b \in Indices
    BY <1>1 DEF Indices
  <2>2. Tracks(rng, Applied(k, AtBarOf(l, b)), l, Upto(l, b), b)
    BY <1>3, <1>6, <2>1, AppliedTracks
  <2>3. TakenAt(Kept(t), {b}) = AtBarOf(l, b)
    BY <1>5
  <2> QED
    BY <2>2, <2>3
<1>7. PICK n : n = t + 1
  OBVIOUS
<1> DEFINE Good == {m \in 0..n : Tracks(rng, book[m - 1], l, Upto(l, m - 1), m - 1)}
<1>8. 0 \in Good
  <2>1. -1 \in -1..t /\ 0 \in 0..n /\ 0 - 1 = -1 /\ -2 \in Int /\ -1 - 1 = -2
    BY <1>1, <1>7
  <2>2. Upto(l, -2) = 0
    <3>1. Upto(l, -2) \in 0..Len(l) /\ CutsAt(l, Upto(l, -2), -2)
      BY <1>3, <2>1, UptoFacts
    <3>2. \A j \in DOMAIN l : ~(l[j].index <= -2)
      BY <1>1, <1>3 DEF Actions, Action
    <3> QED
      BY <1>3, <3>1, <3>2 DEF CutsAt
  <2>3. Tracks(rng, EmptyBook, l, 0, -1)
    <3>1. Placed(l, 0) = {} /\ DOMAIN EmptyBook.orders = {}
      BY DEF Placed, EmptyBook
    <3> QED
      BY <3>1 DEF Tracks
  <2>4. book[-1] = Applied(EmptyBook, TakenAt(Kept(t), {-1}))
    BY <1>4, <2>1 DEF Onward
  <2>5. Tracks(rng, Applied(EmptyBook, TakenAt(Kept(t), {-1})), l, Upto(l, -1), -1)
    BY <1>6, <2>1, <2>2, <2>3, EmptyBooks
  <2> QED
    BY <2>1, <2>4, <2>5
<1>9. ASSUME NEW m \in 1..n, m - 1 \in Good PROVE m \in Good
  <2>1. PICK b : b = m - 1
    OBVIOUS
  <2>2. b \in 0..LastBar /\ b \in -1..t /\ b - 1 \in -1..t /\ m \in 0..n /\ b # -1 /\ b - 1 \in Int
    BY <1>1, <1>7, <2>1
  <2>3. PICK k : k = book[b - 1]
    OBVIOUS
  <2>4. PICK c : c = Upto(l, b - 1)
    OBVIOUS
  <2>5. k \in Books(b - 1) /\ Tracks(rng, k, l, c, b - 1)
    BY <1>9, <2>1, <2>2, <2>3, <2>4
  <2>6. c \in 0..Len(l) /\ \A j \in 1..c : l[j].index <= b - 1
    <3>1. c \in 0..Len(l) /\ CutsAt(l, c, b - 1)
      BY <1>3, <2>2, <2>4, UptoFacts
    <3> QED
      BY <1>3, <3>1 DEF CutsAt
  <2>7. AtBar(k, b, rng) \in Books(b) /\ Tracks(rng, AtBar(k, b, rng), l, c, b)
    BY <1>3, <2>2, <2>5, <2>6, AtBarBooks, TracksBar
  <2>8. Tracks(rng, Applied(AtBar(k, b, rng), TakenAt(Kept(t), {b})), l, Upto(l, b), b)
    BY <1>6, <2>2, <2>4, <2>7
  <2>9. book[b] = Applied(AtBar(k, b, rng), TakenAt(Kept(t), {b}))
    BY <1>4, <2>2, <2>3 DEF Onward
  <2> QED
    BY <2>1, <2>2, <2>8, <2>9
<1>10. Good = 0..n
  <2>1. Good \in SUBSET (0..n) /\ n \in Nat
    BY <1>1, <1>7
  <2> HIDE DEF Good
  <2> QED
    BY <1>8, <1>9, <2>1, IndexInduction
<1>11. ASSUME NEW b \in -1..t PROVE Tracks(rng, book[b], l, Upto(l, b), b)
  <2>1. b + 1 \in 0..n /\ (b + 1) - 1 = b
    BY <1>1, <1>7
  <2>2. b + 1 \in Good
    <3> HIDE DEF Good
    <3> QED
      BY <1>10, <2>1
  <2> QED
    BY <2>1, <2>2
<1> QED
  BY <1>2, <1>11

\* Two sets with a bijection between them have as many elements.
LEMMA AsMany ==
  ASSUME NEW S, IsFiniteSet(S), NEW T, NEW f, f \in [S -> T],
         \A x, y \in S : f[x] = f[y] => x = y, \A y \in T : \E x \in S : f[x] = y
  PROVE  Cardinality(S) = Cardinality(T)
<1>1. f \in Injection(S, T)
  BY DEF Injection, IsInjective
<1>2. f \in Surjection(S, T)
  BY DEF Surjection
<1>3. f \in Bijection(S, T)
  BY <1>1, <1>2 DEF Bijection
<1> QED
  BY <1>3, FS_Bijection DEF ExistsBijection

\* What an order of a book looks like with its id left out.
Shown(k, i) ==
  [order |-> k.orders[i], client |-> k.tag[i].client, fills |-> Drawn(k.fills, i)]

\* A book looks like what its log says.
LEMMA ViewIsBag ==
  ASSUME NEW rng, NEW k, NEW l, NEW n \in Nat, NEW b, Tracks(rng, k, l, n, b)
  PROVE  ViewOf(k) = LogBag(rng, l, n, b)
<1>1. PICK D : D = DOMAIN k.orders
  OBVIOUS
<1>2. PICK P : P = Placed(l, n)
  OBVIOUS
<1>3. PICK f : f = [m \in P |-> k.live[l[m].id]]
  OBVIOUS
<1>4. IsFiniteSet(P)
  BY <1>2, FS_Interval, FS_Subset DEF Placed
<1>5. /\ f \in [P -> D] /\ \A g, m \in P : f[g] = f[m] => g = m
      /\ \A i \in D : \E m \in P : f[m] = i
  BY <1>1, <1>2, <1>3 DEF Tracks
<1>6. \A m \in P : Seen(rng, l, n, b, m) = Shown(k, f[m])
  BY <1>2, <1>3 DEF Tracks, Meets, Seen, Shown
<1> DEFINE all == {Shown(k, i) : i \in D}
           Like(a) == {i \in D : Shown(k, i) = a}
           Same(a) == {m \in P : Seen(rng, l, n, b, m) = a}
<1>7. ViewOf(k) = [a \in all |-> Cardinality(Like(a))]
  BY <1>1 DEF ViewOf, Shown, Drawn
<1>8. {Seen(rng, l, n, b, m) : m \in P} = all
  BY <1>5, <1>6
<1>9. LogBag(rng, l, n, b) = [a \in all |-> Cardinality(Same(a))]
  BY <1>2, <1>8 DEF LogBag
<1>10. ASSUME NEW a PROVE Cardinality(Same(a)) = Cardinality(Like(a))
  <2>1. PICK g : g = [m \in Same(a) |-> f[m]]
    OBVIOUS
  <2>2. IsFiniteSet(Same(a))
    BY <1>4, FS_Subset
  <2>3. g \in [Same(a) -> Like(a)]
    BY <1>5, <1>6, <2>1
  <2>4. \A x, y \in Same(a) : g[x] = g[y] => x = y
    BY <1>5, <2>1
  <2>5. \A i \in Like(a) : \E m \in Same(a) : g[m] = i
    BY <1>5, <1>6, <2>1
  <2> HIDE DEF Same, Like
  <2> QED
    BY <2>2, <2>3, <2>4, <2>5, AsMany
<1> HIDE DEF all, Like, Same
<1> QED
  BY <1>7, <1>9, <1>10

\* The first n actions of two logs are the same but for the ids of the orders.
SameActions(w, l, n) ==
  \A j \in 1..n :
    /\ w[j].kind = l[j].kind /\ w[j].index = l[j].index
    /\ w[j].spec = l[j].spec /\ w[j].client = l[j].client
    /\ \A m \in 1..n : w[j].id = w[m].id <=> l[j].id = l[m].id

\* Such logs place and cancel alike.
LEMMA SamePlaces ==
  ASSUME NEW w, NEW l, NEW n \in Nat, SameActions(w, l, n), NEW u \in 0..n
  PROVE  /\ Placed(w, u) = Placed(l, u)
         /\ \A m \in 1..n : CancelBars(w, u, m) = CancelBars(l, u, m)
<1>1. \A j \in 1..u : j \in 1..n
  OBVIOUS
<1>2. Placed(w, u) = Placed(l, u)
  BY <1>1 DEF Placed, SameActions
<1>3. ASSUME NEW m \in 1..n PROVE CancelBars(w, u, m) = CancelBars(l, u, m)
  <2> DEFINE Ending(x) == {c \in 1..u : x[c].kind = "cancel" /\ x[c].id = x[m].id}
  <2>1. Ending(w) = Ending(l)
    BY <1>1 DEF SameActions
  <2>2. \A c \in Ending(l) : w[c].index = l[c].index
    BY <1>1 DEF SameActions
  <2>3. CancelBars(w, u, m) = {w[c].index : c \in Ending(w)}
    BY DEF CancelBars
  <2>4. CancelBars(l, u, m) = {l[c].index : c \in Ending(l)}
    BY DEF CancelBars
  <2> HIDE DEF Ending
  <2> QED
    BY <2>1, <2>2, <2>3, <2>4
<1> QED
  BY <1>2, <1>3

\* Such logs say the same of a session.
LEMMA SameBag ==
  ASSUME NEW w, NEW l, NEW n \in Nat, SameActions(w, l, n), NEW u \in 0..n, NEW rng, NEW b
  PROVE  LogBag(rng, w, u, b) = LogBag(rng, l, u, b)
<1>1. PICK P : P = Placed(l, u) /\ P = Placed(w, u)
  BY SamePlaces
<1>2. \A m \in P : m \in 1..n
  BY <1>1 DEF Placed
<1>3. ASSUME NEW m \in P PROVE Seen(rng, w, u, b, m) = Seen(rng, l, u, b, m)
  <2>1. CancelBars(w, u, m) = CancelBars(l, u, m)
    BY <1>2, SamePlaces
  <2>2. w[m].index = l[m].index /\ w[m].spec = l[m].spec /\ w[m].client = l[m].client
    BY <1>2 DEF SameActions
  <2> QED
    BY <2>1, <2>2 DEF Seen
<1> DEFINE all(x) == {Seen(rng, x, u, b, m) : m \in P}
           Same(x, a) == {m \in P : Seen(rng, x, u, b, m) = a}
<1>4. all(w) = all(l)
  BY <1>3
<1>5. \A a : Same(w, a) = Same(l, a)
  BY <1>3
<1>6. /\ LogBag(rng, w, u, b) = [a \in all(w) |-> Cardinality(Same(w, a))]
      /\ LogBag(rng, l, u, b) = [a \in all(l) |-> Cardinality(Same(l, a))]
  BY <1>1 DEF LogBag
<1> HIDE DEF all, Same
<1> QED
  BY <1>4, <1>5, <1>6

\* A log can be replayed if one like it can.
LEMMA SameFaithful ==
  ASSUME NEW w \in Logs, NEW l \in Logs, Len(w) <= Len(l), SameActions(w, l, Len(w)), Faithful(l)
  PROVE  Faithful(w)
<1>1. PICK n : n = Len(w)
  OBVIOUS
<1>2. /\ n \in Nat /\ DOMAIN w = 1..n /\ DOMAIN l = 1..Len(l) /\ Len(l) \in Nat /\ n <= Len(l)
      /\ SameActions(w, l, n)
  BY <1>1 DEF Logs
<1>3. ASSUME NEW m \in 1..n, w[m].kind = "place" PROVE PlaceOK(w, m)
  <2>1. l[m].kind = "place" /\ m \in DOMAIN l /\ m - 1 \in 0..n
    BY <1>2, <1>3 DEF SameActions
  <2>2. PlaceOK(l, m)
    BY <2>1 DEF Faithful
  <2>3. Placed(w, m - 1) = Placed(l, m - 1)
    BY <1>2, <2>1, SamePlaces
  <2>4. \A j \in Placed(l, m - 1) : j \in 1..n
    BY <1>2 DEF Placed
  <2> QED
    BY <1>2, <2>2, <2>3, <2>4 DEF PlaceOK, SameActions
<1>4. ASSUME NEW m \in 1..n, w[m].kind # "place" PROVE CancelOK(w, m)
  <2>1. l[m].kind # "place" /\ m \in DOMAIN l /\ m - 1 \in 0..n
    BY <1>2, <1>4 DEF SameActions
  <2>2. CancelOK(l, m)
    BY <2>1 DEF Faithful
  <2>3. Placed(w, m - 1) = Placed(l, m - 1)
    BY <1>2, <2>1, SamePlaces
  <2>4. \A j \in Placed(l, m - 1) : j \in 1..n
    BY <1>2 DEF Placed
  <2>5. \A j \in 1..(m - 1) : j \in 1..n
    BY <1>2
  <2>6. \E j \in Placed(w, m - 1) :
          /\ w[j].id = w[m].id
          /\ Orders!IsOpen(Life(w[j].spec, w[j].index)[w[m].index])
    <3>1. PICK j \in Placed(l, m - 1) :
            /\ l[j].id = l[m].id
            /\ Orders!IsOpen(Life(l[j].spec, l[j].index)[l[m].index])
      BY <2>2 DEF CancelOK
    <3>2. w[j].id = w[m].id /\ w[j].spec = l[j].spec /\ w[j].index = l[j].index /\ w[m].index = l[m].index
      BY <1>2, <2>4, <3>1 DEF SameActions
    <3> QED
      BY <2>3, <3>1, <3>2
  <2>7. \A j \in 1..(m - 1) : w[j].kind = "cancel" => w[j].id # w[m].id
    BY <1>2, <2>2, <2>5 DEF CancelOK, SameActions
  <2> QED
    BY <2>6, <2>7 DEF CancelOK
<1> QED
  BY <1>2, <1>3, <1>4 DEF Faithful

\* The first actions of a log that are taken up to a bar are as many as it says.
LEMMA UptoIs ==
  ASSUME NEW l \in Logs, NEW t \in Int, NEW m \in 0..Len(l), CutsAt(l, m, t)
  PROVE  Upto(l, t) = m
<1>1. PICK u : u = Upto(l, t)
  OBVIOUS
<1>2. u \in 0..Len(l) /\ CutsAt(l, u, t) /\ DOMAIN l = 1..Len(l) /\ Len(l) \in Nat
  BY <1>1, UptoFacts DEF Logs
<1>3. \A j \in 1..Len(l) : j \in 1..u <=> j \in 1..m
  BY <1>2 DEF CutsAt
<1>4. ~(u < m)
  <2>1. u < m => m \in 1..Len(l) /\ m \in 1..m /\ m \notin 1..u
    BY <1>2
  <2> QED
    BY <1>3, <2>1
<1>5. ~(m < u)
  <2>1. m < u => u \in 1..Len(l) /\ u \in 1..u /\ u \notin 1..m
    BY <1>2
  <2> QED
    BY <1>3, <2>1
<1> QED
  BY <1>1, <1>2, <1>4, <1>5

\* The bars up to t are as many actions in one log as in another that starts with it.
LEMMA UptoSame ==
  ASSUME NEW w \in Logs, NEW l \in Logs, Len(w) <= Len(l),
         \A j \in 1..Len(w) : w[j].index = l[j].index,
         NEW t \in Int, Upto(l, t) <= Len(w)
  PROVE  Upto(w, t) = Upto(l, t)
<1>1. PICK u : u = Upto(l, t)
  OBVIOUS
<1>2. /\ u \in 0..Len(l) /\ CutsAt(l, u, t) /\ DOMAIN l = 1..Len(l) /\ Len(l) \in Nat
      /\ DOMAIN w = 1..Len(w) /\ Len(w) \in Nat
  <2>1. u \in 0..Len(l) /\ CutsAt(l, u, t)
    BY <1>1, UptoFacts
  <2> QED
    BY <2>1 DEF Logs
<1>3. \A j \in 1..Len(w) : j \in 1..Len(l)
  BY <1>2
<1>4. CutsAt(w, u, t)
  BY <1>2, <1>3 DEF CutsAt
<1>5. u \in 0..Len(w)
  BY <1>1, <1>2
<1> QED
  BY <1>1, <1>4, <1>5, UptoIs

\* Up to the clock, these are all.
LEMMA UptoAll ==
  ASSUME NEW l \in Logs, NEW t \in Int, \A j \in DOMAIN l : l[j].index <= t
  PROVE  Upto(l, t) = Len(l)
<1>1. Len(l) \in Nat /\ DOMAIN l = 1..Len(l)
  BY DEF Logs
<1>2. CutsAt(l, Len(l), t)
  BY <1>1 DEF CutsAt
<1> QED
  BY <1>1, <1>2, UptoIs

\* Other clients' names, a longer log: what was said stays so.
LEMMA TracksStill ==
  ASSUME NEW rng, NEW k, NEW l, NEW n, NEW b, Tracks(rng, k, l, n, b),
         NEW x, x.orders = k.orders, x.fills = k.fills, x.live = k.live,
         \A i \in DOMAIN k.orders : x.tag[i].client = k.tag[i].client,
         NEW w, \A j \in 1..n : w[j] = l[j]
  PROVE  Tracks(rng, x, w, n, b)
<1>1. Placed(w, n) = Placed(l, n) /\ \A m \in Placed(l, n) : m \in 1..n
  BY DEF Placed
<1>2. ASSUME NEW m \in Placed(l, n)
      PROVE  /\ w[m].id \in DOMAIN x.live /\ x.live[w[m].id] \in DOMAIN x.orders
             /\ x.live[w[m].id] = k.live[l[m].id]
             /\ Meets(rng, x, x.live[w[m].id], w[m], CancelBars(w, n, m), b)
  <2>1. PICK i : i = k.live[l[m].id]
    OBVIOUS
  <2>2. l[m].id \in DOMAIN k.live /\ i \in DOMAIN k.orders /\ Meets(rng, k, i, l[m], CancelBars(l, n, m), b)
    BY <2>1 DEF Tracks
  <2>3. w[m] = l[m]
    BY <1>1
  <2>4. CancelBars(w, n, m) = CancelBars(l, n, m)
    <3> DEFINE Ending(y) == {c \in 1..n : y[c].kind = "cancel" /\ y[c].id = y[m].id}
    <3>1. Ending(w) = Ending(l) /\ \A c \in Ending(l) : w[c] = l[c]
      BY <2>3
    <3>2. CancelBars(w, n, m) = {w[c].index : c \in Ending(w)}
      BY DEF CancelBars
    <3>3. CancelBars(l, n, m) = {l[c].index : c \in Ending(l)}
      BY DEF CancelBars
    <3> HIDE DEF Ending
    <3> QED
      BY <3>1, <3>2, <3>3
  <2>5. Meets(rng, x, i, l[m], CancelBars(l, n, m), b)
    BY <2>2, MeetsStill
  <2> QED
    BY <2>1, <2>2, <2>3, <2>4, <2>5
<1>3. \A j, m \in Placed(l, n) : x.live[w[j].id] = x.live[w[m].id] => j = m
  BY <1>2 DEF Tracks
<1>4. \A i \in DOMAIN x.orders : \E m \in Placed(l, n) : x.live[w[m].id] = i
  BY <1>2 DEF Tracks
<1> QED
  BY <1>1, <1>2, <1>3, <1>4 DEF Tracks

\* A log that can be replayed and one more action that can.
LEMMA FaithfulAppend ==
  ASSUME NEW l \in Logs, Faithful(l), NEW w \in Logs, NEW n, n = Len(l), Len(w) = n + 1,
         \A j \in 1..n : w[j] = l[j],
         IF w[n + 1].kind = "place" THEN PlaceOK(w, n + 1) ELSE CancelOK(w, n + 1)
  PROVE  Faithful(w)
<1>1. n \in Nat /\ DOMAIN l = 1..n /\ DOMAIN w = 1..(n + 1)
  BY DEF Logs
<1>2. ASSUME NEW m \in 1..n
      PROVE  IF w[m].kind = "place" THEN PlaceOK(w, m) ELSE CancelOK(w, m)
  <2>1. Placed(w, m - 1) = Placed(l, m - 1) /\ \A j \in 1..(m - 1) : w[j] = l[j]
    <3>1. \A j \in 1..(m - 1) : w[j] = l[j]
      BY <1>1
    <3> QED
      BY <3>1 DEF Placed
  <2>2. w[m] = l[m] /\ m \in DOMAIN l
    BY <1>1
  <2>3. \A j \in Placed(l, m - 1) : w[j] = l[j]
    BY <2>1 DEF Placed
  <2>4. IF l[m].kind = "place" THEN PlaceOK(l, m) ELSE CancelOK(l, m)
    BY <2>2 DEF Faithful
  <2>5. CASE l[m].kind = "place"
    BY <2>1, <2>2, <2>3, <2>4, <2>5 DEF PlaceOK
  <2>6. CASE l[m].kind # "place"
    BY <2>1, <2>2, <2>3, <2>4, <2>6 DEF CancelOK
  <2> QED
    BY <2>2, <2>5, <2>6
<1>3. \A m \in DOMAIN w : m \in 1..n \/ m = n + 1
  BY <1>1
<1> QED
  BY <1>2, <1>3 DEF Faithful

\* What a session remembers of the bars before i is what its log says of them.
Recalled(rng, was, l, i) ==
  \A b \in Indices : b < i => was[b] = LogBag(rng, l, Upto(l, b), b)

\* It stays so when the log grows.
LEMMA RecalledAppend ==
  ASSUME NEW l \in Logs, NEW w \in Logs, Len(w) = Len(l) + 1, \A j \in 1..Len(l) : w[j] = l[j],
         NEW i \in Indices, w[Len(l) + 1].index = i, NEW rng, NEW was, Recalled(rng, was, l, i)
  PROVE  Recalled(rng, was, w, i)
<1> SUFFICES ASSUME NEW b \in Indices, b < i
             PROVE  was[b] = LogBag(rng, w, Upto(w, b), b)
  BY DEF Recalled
<1>1. b \in Int /\ i \in Int
  BY BookAssumption DEF Indices
<1>2. PICK n : n = Len(l)
  OBVIOUS
<1>3. n \in Nat /\ DOMAIN w = 1..(n + 1) /\ Len(w) = n + 1
  BY <1>2 DEF Logs
<1>4. PICK u : u = Upto(w, b)
  OBVIOUS
<1>5. u \in 0..(n + 1) /\ CutsAt(w, u, b)
  BY <1>1, <1>3, <1>4, UptoFacts
<1>6. u \in 0..n
  <2>1. n + 1 \notin 1..u
    BY <1>1, <1>2, <1>3, <1>5 DEF CutsAt
  <2> QED
    BY <1>3, <1>5, <2>1
<1>7. Upto(l, b) = u
  <2>1. \A j \in 1..Len(l) : l[j].index = w[j].index
    OBVIOUS
  <2>2. Len(l) <= Len(w) /\ Upto(w, b) <= Len(l)
    BY <1>2, <1>3, <1>4, <1>6
  <2> QED
    BY <1>1, <1>4, <2>1, <2>2, UptoSame
<1>8. SameActions(w, l, n)
  BY <1>2 DEF SameActions
<1>9. LogBag(rng, w, u, b) = LogBag(rng, l, u, b)
  BY <1>3, <1>6, <1>8, SameBag
<1> QED
  BY <1>4, <1>7, <1>9 DEF Recalled

-----------------------------------------------------------------------------
(* A session in which everything is logged is what its log says.           *)

\* As long as everything that happened is logged, the log can be replayed, the
\* orders are what it says, and so is what the session looked like before.
SInv ==
  unlogged = 0 =>
    /\ loaded = LoadedFirst /\ Faithful(log)
    /\ Tracks(stream, SessionBook, log, Len(log), idx)
    /\ DOMAIN past = Indices
    /\ Streams = {stream} => Recalled(stream, past, log, idx)

\* The book of a session whose orders have the ids of its log.
LEMMA SessionFacts ==
  ASSUME IInv
  PROVE  /\ SessionBook \in Books(idx)
         /\ SessionBook.orders = orders /\ SessionBook.tag = tag /\ SessionBook.fills = fills
         /\ DOMAIN SessionBook.live = DOMAIN orders /\ \A i \in DOMAIN orders : SessionBook.live[i] = i
<1>1. PICK k : k = Book
  OBVIOUS
<1>2. PICK n : n = SessionBook
  OBVIOUS
<1>3. /\ n.orders = orders /\ n.tag = tag /\ n.fills = fills /\ n.live = [i \in DOMAIN orders |-> i]
      /\ n = [orders |-> n.orders, tag |-> n.tag, fills |-> n.fills, live |-> n.live]
  BY <1>2 DEF SessionBook
<1>4. k.orders = orders /\ k.tag = tag /\ k.fills = fills /\ k \in BookType /\ BookOK(k, idx)
  BY <1>1 DEF IInv, Books, Book
<1>5. DOMAIN orders \in SUBSET Ids
  BY StateFacts
<1>6. n.live \in [DOMAIN orders -> Ids]
  BY <1>3, <1>5
<1>7. n.live \in Table(Ids)
  BY <1>5, <1>6, TableFacts
<1>8. n \in BookType
  BY <1>3, <1>4, <1>7 DEF BookType
<1>9. BookOK(n, idx)
  BY <1>3, <1>4 DEF BookOK, ClientsOnce
<1> QED
  BY <1>2, <1>3, <1>8, <1>9 DEF Books

\* A session starts so.
LEMMA InitSession == Init => SInv
<1> SUFFICES ASSUME Init PROVE SInv
  OBVIOUS
<1>1. /\ loaded = LoadedFirst /\ log = <<>> /\ Len(log) = 0 /\ DOMAIN log = {} /\ DOMAIN past = Indices
      /\ DOMAIN SessionBook.orders = {} /\ idx = -1
  BY DEF Init, SessionBook
<1>2. Faithful(log)
  BY <1>1 DEF Faithful
<1>3. Placed(log, 0) = {}
  BY DEF Placed
<1>4. Tracks(stream, SessionBook, log, Len(log), idx)
  BY <1>1, <1>3 DEF Tracks
<1>5. Recalled(stream, past, log, idx)
  <2>1. \A b \in Indices : ~(b < -1)
    BY BookAssumption DEF Indices
  <2> QED
    BY <1>1, <2>1 DEF Recalled
<1> QED
  BY <1>1, <1>2, <1>4, <1>5 DEF SInv

\* One bar.
LEMMA TickSession ==
  ASSUME IInv, SInv, Tick
  PROVE  SInv'
<1> SUFFICES ASSUME unlogged' = 0
             PROVE  /\ loaded' = LoadedFirst /\ Faithful(log')
                    /\ Tracks(stream', SessionBook', log', Len(log'), idx')
                    /\ DOMAIN past' = Indices
                    /\ Streams = {stream'} => Recalled(stream', past', log', idx')
  BY DEF SInv
<1>1. /\ loaded' = loaded /\ log' = log /\ stream' = stream /\ unlogged = 0
      /\ Becomes(AtBar(Book, idx + 1, stream)) /\ idx' = idx + 1
      /\ past' = [past EXCEPT ![idx] = View]
  BY DEF Tick
<1>2. /\ loaded = LoadedFirst /\ Faithful(log)
      /\ Tracks(stream, SessionBook, log, Len(log), idx)
      /\ DOMAIN past = Indices
      /\ Streams = {stream} => Recalled(stream, past, log, idx)
  BY <1>1 DEF SInv
<1>3. PICK b : b = idx + 1
  OBVIOUS
<1>4. PICK l : l = log
  OBVIOUS
<1>5. PICK k : k = SessionBook
  OBVIOUS
<1>6. PICK rng : rng = stream
  OBVIOUS
<1>7. /\ b \in 0..LastBar /\ b - 1 = idx /\ idx \in Indices /\ idx \in Int /\ k \in Books(b - 1)
      /\ rng \in Streams /\ l \in Logs
      /\ \A j \in DOMAIN l : l[j].index <= idx
  BY <1>3, <1>4, <1>5, <1>6, StateFacts, SessionFacts DEF Tick, IInv
<1>8. Len(l) \in Nat /\ DOMAIN l = 1..Len(l)
  BY <1>7 DEF Logs
<1>9. PICK n : n = AtBar(k, b, rng)
  OBVIOUS
<1>10. Tracks(rng, n, l, Len(l), b)
  <2>1. PICK m : m = Len(l)
    OBVIOUS
  <2>2. m \in 0..Len(l) /\ \A j \in 1..m : l[j].index <= b - 1
    BY <1>7, <1>8, <2>1
  <2>3. Tracks(rng, k, l, m, b - 1)
    BY <1>2, <1>4, <1>5, <1>6, <1>7, <2>1
  <2>4. Tracks(rng, AtBar(k, b, rng), l, m, b)
    BY <1>2, <1>7, <2>2, <2>3, TracksBar
  <2> QED
    BY <1>9, <2>1, <2>4
<1>11. SessionBook' = n
  <2>1. /\ k.orders = orders /\ k.tag = tag /\ k.fills = fills /\ k.live = [i \in DOMAIN orders |-> i]
        /\ k = [orders |-> k.orders, tag |-> k.tag, fills |-> k.fills, live |-> k.live]
    BY <1>5 DEF SessionBook
  <2>2. PICK x : x = AtBar(Book, b, rng)
    OBVIOUS
  <2>3. x.orders = n.orders /\ x.tag = n.tag /\ x.fills = n.fills
    BY <1>9, <2>1, <2>2 DEF AtBar, Book
  <2>4. n = [orders |-> n.orders, tag |-> n.tag, fills |-> n.fills, live |-> n.live]
    BY <1>9, <2>1 DEF AtBar
  <2>5. n.live = k.live /\ DOMAIN n.orders = DOMAIN orders
    BY <1>9, <2>1 DEF AtBar
  <2>6. orders' = n.orders /\ tag' = n.tag /\ fills' = n.fills
    BY <1>1, <1>3, <1>6, <2>2, <2>3 DEF Becomes
  <2> QED
    BY <2>1, <2>4, <2>5, <2>6 DEF SessionBook
<1>12. ASSUME Streams = {stream} PROVE Recalled(stream, past', log, idx')
  <2> SUFFICES ASSUME NEW c \in Indices, c < b
               PROVE  past'[c] = LogBag(rng, l, Upto(l, c), c)
    BY <1>1, <1>3, <1>4, <1>6 DEF Recalled
  <2>1. c \in Int
    BY BookAssumption DEF Indices
  <2>2. CASE c < idx
    <3>1. past'[c] = past[c]
      BY <1>1, <1>2, <1>7, <2>1, <2>2
    <3> QED
      BY <1>2, <1>4, <1>6, <1>12, <2>2, <3>1 DEF Recalled
  <2>3. CASE ~(c < idx)
    <3>1. c = idx
      BY <1>3, <1>7, <2>1, <2>3
    <3>2. past'[c] = View
      BY <1>1, <1>2, <3>1
    <3>3. View = ViewOf(k)
      BY <1>5 DEF View, ViewOf, Book, SessionBook
    <3>4. Upto(l, c) = Len(l)
      BY <1>7, <3>1, UptoAll
    <3>5. ViewOf(k) = LogBag(rng, l, Len(l), c)
      BY <1>2, <1>4, <1>5, <1>6, <1>8, <3>1, ViewIsBag
    <3> QED
      BY <3>2, <3>3, <3>4, <3>5
  <2> QED
    BY <2>2, <2>3
<1> QED
  BY <1>1, <1>2, <1>3, <1>4, <1>6, <1>10, <1>11, <1>12

\* What the log says of the orders of a session.
LEMMA SessionOrders ==
  ASSUME IInv, Tracks(stream, SessionBook, log, Len(log), idx)
  PROVE  /\ \A m \in Placed(log, Len(log)) :
              /\ log[m].id \in DOMAIN orders
              /\ Meets(stream, SessionBook, log[m].id, log[m], CancelBars(log, Len(log), m), idx)
         /\ \A j, m \in Placed(log, Len(log)) : log[j].id = log[m].id => j = m
         /\ \A i \in DOMAIN orders : \E m \in Placed(log, Len(log)) : log[m].id = i
<1>1. PICK k : k = SessionBook
  OBVIOUS
<1>2. k.orders = orders /\ DOMAIN k.live = DOMAIN orders /\ \A i \in DOMAIN orders : k.live[i] = i
  BY <1>1, SessionFacts
<1>3. Tracks(stream, k, log, Len(log), idx)
  BY <1>1
<1>4. \A m \in Placed(log, Len(log)) :
        /\ log[m].id \in DOMAIN orders /\ k.live[log[m].id] = log[m].id
        /\ Meets(stream, k, log[m].id, log[m], CancelBars(log, Len(log), m), idx)
  <2> SUFFICES ASSUME NEW m \in Placed(log, Len(log))
               PROVE  /\ log[m].id \in DOMAIN orders /\ k.live[log[m].id] = log[m].id
                      /\ Meets(stream, k, log[m].id, log[m], CancelBars(log, Len(log), m), idx)
    OBVIOUS
  <2>1. log[m].id \in DOMAIN k.live /\ Meets(stream, k, k.live[log[m].id], log[m], CancelBars(log, Len(log), m), idx)
    BY <1>3 DEF Tracks
  <2>2. k.live[log[m].id] = log[m].id
    BY <1>2, <2>1
  <2> QED
    BY <1>2, <2>1, <2>2
<1>5. \A j, m \in Placed(log, Len(log)) : k.live[log[j].id] = k.live[log[m].id] => j = m
  BY <1>3 DEF Tracks
<1>6. \A i \in DOMAIN k.orders : \E m \in Placed(log, Len(log)) : k.live[log[m].id] = i
  BY <1>3 DEF Tracks
<1> QED
  BY <1>1, <1>2, <1>4, <1>5, <1>6

\* A log with one more entry.
LEMMA AppendFacts ==
  ASSUME NEW l \in Logs, NEW e, e \in Actions
  PROVE  /\ Len(l) \in Nat /\ DOMAIN l = 1..Len(l) /\ Len(Append(l, e)) = Len(l) + 1
         /\ DOMAIN Append(l, e) = 1..(Len(l) + 1)
         /\ Append(l, e)[Len(l) + 1] = e /\ \A j \in 1..Len(l) : Append(l, e)[j] = l[j]
<1>1. l \in Seq(Actions)
  BY DEF Logs
<1> QED
  BY <1>1

\* A request places an order.
LEMMA PlaceSession ==
  ASSUME IInv, SInv, NEW s \in Inputs, NEW c \in Callers, Place(s, c)
  PROVE  SInv'
<1> SUFFICES ASSUME unlogged' = 0
             PROVE  /\ loaded' = LoadedFirst /\ Faithful(log')
                    /\ Tracks(stream', SessionBook', log', Len(log'), idx')
                    /\ DOMAIN past' = Indices
                    /\ Streams = {stream'} => Recalled(stream', past', log', idx')
  BY DEF SInv
<1>1. PICK i : i = FreshId(DOMAIN orders \cup LoggedIds)
  OBVIOUS
<1>2. PICK e : e = Entry("place", i, s, c)
  OBVIOUS
<1>3. /\ loaded' = loaded /\ stream' = stream /\ unlogged = 0 /\ idx' = idx /\ past' = past
      /\ Orders!Valid(s) /\ PlacedBy(Book, c) = {}
      /\ Becomes(Submitted(Book, i, s, c, sid, idx)) /\ log' = Append(log, e)
  BY <1>1, <1>2 DEF Place
<1>4. /\ loaded = LoadedFirst /\ Faithful(log)
      /\ Tracks(stream, SessionBook, log, Len(log), idx)
      /\ DOMAIN past = Indices
      /\ Streams = {stream} => Recalled(stream, past, log, idx)
  BY <1>3 DEF SInv
<1>5. /\ idx \in Indices /\ log \in Logs
      /\ IsFiniteSet(DOMAIN orders) /\ IsFiniteSet(LoggedIds) /\ DOMAIN tag = DOMAIN orders
  BY StateFacts DEF IInv, Replayable
<1>6. i \in Ids /\ i \notin DOMAIN orders /\ i \notin LoggedIds
  BY <1>1, <1>5, FS_Union, FreshIds
<1>7. e \in Actions /\ log' \in Logs
  BY <1>2, <1>3, <1>6, EntryFacts
<1>8. e.kind = "place" /\ e.index = idx /\ e.id = i /\ e.spec = s /\ e.client = c
  BY <1>2 DEF Entry
<1>9. PICK l : l = log
  OBVIOUS
<1>10. PICK w : w = log'
  OBVIOUS
<1>11. PICK n : n = Len(l)
  OBVIOUS
<1>12. /\ n \in Nat /\ DOMAIN l = 1..n /\ Len(w) = n + 1 /\ DOMAIN w = 1..(n + 1)
       /\ w[n + 1] = e /\ \A j \in 1..n : w[j] = l[j]
  <2>1. /\ Len(l) \in Nat /\ DOMAIN l = 1..Len(l) /\ Len(Append(l, e)) = Len(l) + 1
        /\ DOMAIN Append(l, e) = 1..(Len(l) + 1)
        /\ Append(l, e)[Len(l) + 1] = e /\ \A j \in 1..Len(l) : Append(l, e)[j] = l[j]
    BY <1>5, <1>7, <1>9, AppendFacts
  <2> QED
    BY <1>3, <1>9, <1>10, <1>11, <2>1
<1>13. PICK k : k = SessionBook
  OBVIOUS
<1>14. /\ k \in Books(idx) /\ k.orders = orders /\ k.tag = tag /\ k.fills = fills
       /\ DOMAIN k.live = DOMAIN orders /\ \A j \in DOMAIN orders : k.live[j] = j
  BY <1>13, SessionFacts
<1>15. PICK rng : rng = stream
  OBVIOUS
<1>16. Placed(w, n) = Placed(l, n) /\ \A j \in Placed(l, n) : j \in 1..n /\ w[j] = l[j]
  BY <1>12 DEF Placed
<1>17. \A m \in Placed(l, n) : l[m].id \in DOMAIN orders /\ tag[l[m].id].client = l[m].client
  <2>1. \A m \in Placed(log, Len(log)) :
          /\ log[m].id \in DOMAIN orders
          /\ Meets(stream, SessionBook, log[m].id, log[m], CancelBars(log, Len(log), m), idx)
    BY <1>4, SessionOrders
  <2> QED
    BY <1>9, <1>11, <1>13, <1>14, <2>1 DEF Meets
<1>18. PlaceOK(w, n + 1)
  <2>1. \A m \in Placed(l, n) : l[m].id # i
    BY <1>6, <1>17
  <2>2. \A m \in Placed(l, n) : l[m].client # c \/ c = NoClient
    BY <1>3, <1>17 DEF PlacedBy, Book
  <2>3. (n + 1) - 1 = n
    BY <1>12
  <2> QED
    BY <1>3, <1>8, <1>12, <1>16, <2>1, <2>2, <2>3 DEF PlaceOK
<1>19. Faithful(w)
  BY <1>4, <1>5, <1>7, <1>8, <1>9, <1>10, <1>11, <1>12, <1>18, FaithfulAppend
<1>20. Tracks(rng, k, w, n, idx)
  <2>1. Tracks(rng, k, l, n, idx)
    BY <1>4, <1>9, <1>11, <1>13, <1>15
  <2> QED
    BY <1>12, <2>1, TracksStill
<1>21. PICK x : x = SessionBook'
  OBVIOUS
<1>22. Adds(x, k, i, e, idx)
  <2>1. /\ x.orders = orders' /\ x.tag = tag' /\ x.fills = fills' /\ x.live = [j \in DOMAIN orders' |-> j]
    BY <1>21 DEF SessionBook
  <2>2. /\ orders' = [j \in DOMAIN orders \cup {i} |-> IF j = i THEN Orders!Accepted(s, idx) ELSE orders[j]]
        /\ tag' = [j \in DOMAIN orders \cup {i} |->
                     IF j = i THEN [client |-> c, session |-> sid] ELSE tag[j]]
        /\ fills' = fills
    BY <1>3, <1>5 DEF Becomes, Submitted, Book
  <2> QED
    BY <1>6, <1>8, <1>14, <2>1, <2>2 DEF Adds
<1>23. Tracks(rng, x, w, n + 1, idx)
  <2>1. PICK m : m = n + 1
    OBVIOUS
  <2>2. m \in DOMAIN w /\ w[m] = e /\ m - 1 = n /\ w \in Logs
    BY <1>7, <1>10, <1>12, <2>1
  <2>3. Tracks(rng, k, w, m - 1, idx) /\ Adds(x, k, i, w[m], idx)
    BY <1>20, <1>22, <2>2
  <2>4. w[m].kind = "place" /\ w[m].index = idx
    BY <1>8, <2>2
  <2>5. Tracks(rng, x, w, m, idx)
    BY <1>4, <1>5, <1>14, <1>19, <2>2, <2>3, <2>4, TracksPlace
  <2> QED
    BY <2>1, <2>5
<1>24. ASSUME Streams = {stream} PROVE Recalled(rng, past, w, idx)
  <2>1. Recalled(rng, past, l, idx)
    BY <1>4, <1>9, <1>15, <1>24
  <2>2. l \in Logs /\ w \in Logs /\ w[Len(l) + 1].index = idx /\ Len(w) = Len(l) + 1
        /\ \A j \in 1..Len(l) : w[j] = l[j]
    BY <1>5, <1>7, <1>8, <1>9, <1>10, <1>11, <1>12
  <2> QED
    BY <1>5, <2>1, <2>2, RecalledAppend
<1> QED
  BY <1>3, <1>4, <1>10, <1>12, <1>15, <1>19, <1>21, <1>23, <1>24

\* A request cancels one.
LEMMA CancelSession ==
  ASSUME IInv, SInv, NEW i \in DOMAIN orders, Cancel(i)
  PROVE  SInv'
<1> SUFFICES ASSUME unlogged' = 0
             PROVE  /\ loaded' = LoadedFirst /\ Faithful(log')
                    /\ Tracks(stream', SessionBook', log', Len(log'), idx')
                    /\ DOMAIN past' = Indices
                    /\ Streams = {stream'} => Recalled(stream', past', log', idx')
  BY DEF SInv
<1>1. PICK e : e = Entry("cancel", i, 0, NoClient)
  OBVIOUS
<1>2. /\ loaded' = loaded /\ stream' = stream /\ unlogged = 0 /\ idx' = idx /\ past' = past
      /\ Orders!IsOpen(orders[i]) /\ log' = Append(log, e) /\ tag' = tag /\ fills' = fills
      /\ orders' = [orders EXCEPT ![i] = Orders!Cancelled(@)]
  BY <1>1 DEF Cancel
<1>3. /\ loaded = LoadedFirst /\ Faithful(log)
      /\ Tracks(stream, SessionBook, log, Len(log), idx)
      /\ DOMAIN past = Indices
      /\ Streams = {stream} => Recalled(stream, past, log, idx)
  BY <1>2 DEF SInv
<1>4. idx \in Indices /\ log \in Logs /\ i \in Ids
  BY StateFacts DEF IInv
<1>5. e \in Actions /\ log' \in Logs
  BY <1>1, <1>2, <1>4, EntryFacts DEF Callers
<1>6. e.kind = "cancel" /\ e.index = idx /\ e.id = i
  BY <1>1 DEF Entry
<1>7. PICK l : l = log
  OBVIOUS
<1>8. PICK w : w = log'
  OBVIOUS
<1>9. PICK n : n = Len(l)
  OBVIOUS
<1>10. /\ n \in Nat /\ DOMAIN l = 1..n /\ Len(w) = n + 1 /\ DOMAIN w = 1..(n + 1)
       /\ w[n + 1] = e /\ \A j \in 1..n : w[j] = l[j]
  <2>1. /\ Len(l) \in Nat /\ DOMAIN l = 1..Len(l) /\ Len(Append(l, e)) = Len(l) + 1
        /\ DOMAIN Append(l, e) = 1..(Len(l) + 1)
        /\ Append(l, e)[Len(l) + 1] = e /\ \A j \in 1..Len(l) : Append(l, e)[j] = l[j]
    BY <1>4, <1>5, <1>7, AppendFacts
  <2> QED
    BY <1>2, <1>7, <1>8, <1>9, <2>1
<1>11. PICK k : k = SessionBook
  OBVIOUS
<1>12. /\ k \in Books(idx) /\ k.orders = orders /\ k.tag = tag /\ k.fills = fills
       /\ DOMAIN k.live = DOMAIN orders /\ \A j \in DOMAIN orders : k.live[j] = j
  BY <1>11, SessionFacts
<1>13. PICK rng : rng = stream
  OBVIOUS
<1>14. Placed(w, n) = Placed(l, n) /\ \A j \in Placed(l, n) : j \in 1..n /\ w[j] = l[j]
  BY <1>10 DEF Placed
<1>15. PICK p \in Placed(l, n) : l[p].id = i
  <2>1. \A j \in DOMAIN orders : \E m \in Placed(log, Len(log)) : log[m].id = j
    BY <1>3, SessionOrders
  <2> QED
    BY <1>7, <1>9, <2>1
<1>16. Meets(rng, k, i, l[p], CancelBars(l, n, p), idx)
  <2>1. \A m \in Placed(log, Len(log)) :
          Meets(stream, SessionBook, log[m].id, log[m], CancelBars(log, Len(log), m), idx)
    BY <1>3, SessionOrders
  <2> QED
    BY <1>7, <1>9, <1>11, <1>13, <1>15, <2>1
<1>17. CancelBars(l, n, p) = {}
  <2>1. orders[i].status # "CANCELLED"
    BY <1>2 DEF Orders!IsOpen, Orders!Active
  <2> QED
    BY <1>12, <1>16, <2>1 DEF Meets
<1>18. orders[i] = Life(l[p].spec, l[p].index)[idx]
  BY <1>12, <1>16, <1>17 DEF Meets, StateAt
<1>19. CancelOK(w, n + 1)
  <2>1. \A j \in 1..n : l[j].kind = "cancel" => l[j].id # i
    <3> SUFFICES ASSUME NEW j \in 1..n, l[j].kind = "cancel", l[j].id = i PROVE FALSE
      OBVIOUS
    <3>1. l[j].index \in CancelBars(l, n, p)
      BY <1>15 DEF CancelBars
    <3> QED
      BY <1>17, <3>1
  <2>2. (n + 1) - 1 = n
    BY <1>10
  <2>3. \E m \in Placed(w, n) :
          w[m].id = i /\ Orders!IsOpen(Life(w[m].spec, w[m].index)[idx])
    BY <1>2, <1>14, <1>15, <1>18
  <2> QED
    BY <1>6, <1>10, <2>1, <2>2, <2>3 DEF CancelOK
<1>20. Faithful(w)
  BY <1>3, <1>4, <1>5, <1>6, <1>7, <1>8, <1>9, <1>10, <1>19, FaithfulAppend
<1>21. Tracks(rng, k, w, n, idx)
  <2>1. Tracks(rng, k, l, n, idx)
    BY <1>3, <1>7, <1>9, <1>11, <1>13
  <2> QED
    BY <1>10, <2>1, TracksStill
<1>22. PICK x : x = SessionBook'
  OBVIOUS
<1>23. Closes(x, k, i)
  <2>1. /\ x.orders = orders' /\ x.tag = tag' /\ x.fills = fills' /\ x.live = [j \in DOMAIN orders' |-> j]
    BY <1>22 DEF SessionBook
  <2>2. orders \in [DOMAIN orders -> Orders!Order]
    BY StateFacts
  <2>3. x.live = k.live
    BY <1>2, <1>11, <2>1, <2>2 DEF SessionBook
  <2> QED
    BY <1>2, <1>12, <2>1, <2>2, <2>3 DEF Closes
<1>24. Tracks(rng, x, w, n + 1, idx)
  <2>1. PICK m : m = n + 1
    OBVIOUS
  <2>2. m \in DOMAIN w /\ w[m] = e /\ m - 1 = n /\ w \in Logs
    BY <1>5, <1>8, <1>10, <2>1
  <2>3. Tracks(rng, k, w, m - 1, idx) /\ Closes(x, k, k.live[w[m].id])
    BY <1>6, <1>12, <1>21, <1>23, <2>2
  <2>4. w[m].kind = "cancel" /\ w[m].index = idx
    BY <1>6, <2>2
  <2>5. Tracks(rng, x, w, m, idx)
    BY <1>4, <1>12, <1>20, <2>2, <2>3, <2>4, TracksCancel
  <2> QED
    BY <2>1, <2>5
<1>25. ASSUME Streams = {stream} PROVE Recalled(rng, past, w, idx)
  <2>1. Recalled(rng, past, l, idx)
    BY <1>3, <1>7, <1>13, <1>25
  <2>2. l \in Logs /\ w \in Logs /\ w[Len(l) + 1].index = idx /\ Len(w) = Len(l) + 1
        /\ \A j \in 1..Len(l) : w[j] = l[j]
    BY <1>4, <1>5, <1>6, <1>7, <1>8, <1>9, <1>10
  <2> QED
    BY <1>4, <2>1, <2>2, RecalledAppend
<1> QED
  BY <1>2, <1>3, <1>8, <1>10, <1>13, <1>20, <1>22, <1>24, <1>25

\* What leaves the orders, but for the session they belong to, and the log alone.
LEMMA StillSession ==
  ASSUME IInv, SInv, orders' = orders, fills' = fills, log' = log, idx' = idx, loaded' = loaded,
         stream' = stream, past' = past, unlogged' = unlogged,
         \A i \in DOMAIN orders : tag'[i].client = tag[i].client
  PROVE  SInv'
<1> SUFFICES ASSUME unlogged' = 0
             PROVE  /\ loaded' = LoadedFirst /\ Faithful(log')
                    /\ Tracks(stream', SessionBook', log', Len(log'), idx')
                    /\ DOMAIN past' = Indices
                    /\ Streams = {stream'} => Recalled(stream', past', log', idx')
  BY DEF SInv
<1>1. /\ loaded = LoadedFirst /\ Faithful(log)
      /\ Tracks(stream, SessionBook, log, Len(log), idx)
      /\ DOMAIN past = Indices
      /\ Streams = {stream} => Recalled(stream, past, log, idx)
  BY DEF SInv
<1>2. PICK k : k = SessionBook
  OBVIOUS
<1>3. PICK x : x = SessionBook'
  OBVIOUS
<1>4. /\ x.orders = k.orders /\ x.fills = k.fills /\ x.live = k.live
      /\ \A i \in DOMAIN k.orders : x.tag[i].client = k.tag[i].client
  BY <1>2, <1>3 DEF SessionBook
<1>5. Tracks(stream, x, log, Len(log), idx)
  BY <1>1, <1>2, <1>4, TracksStill
<1> QED
  BY <1>1, <1>3, <1>5

\* The orders get the id of a new session.
LEMMA BranchSession ==
  ASSUME IInv, SInv, Branch
  PROVE  SInv'
<1>1. \A i \in DOMAIN orders : tag'[i].client = tag[i].client
  <2>1. /\ DOMAIN tag = DOMAIN orders
        /\ \A i \in DOMAIN tag : tag[i] \in [client : Callers, session : Sessions]
    BY StateFacts
  <2>2. tag' = [i \in DOMAIN tag |-> [tag[i] EXCEPT !.session = sid + 1]]
    BY DEF Branch
  <2> QED
    BY <2>1, <2>2
<1> QED
  BY <1>1, StillSession DEF Branch

\* The session becomes the last book of a replay, whose books are what the log says.
Rewinds(rng, book, t) ==
  /\ rng \in Streams /\ stream' = rng /\ idx' = t
  /\ Becomes(book[t]) /\ log' = Relogged(t, book[t])
  /\ past' = [b \in Indices |->
                CASE b < t /\ b < idx  -> past[b]
                  [] b < t /\ b >= idx -> ViewOf(book[b])
                  [] OTHER             -> EmptyBag]
  /\ \A b \in -1..t : book[b] \in Books(b) /\ Tracks(rng, book[b], log, Upto(log, b), b)

\* A rewind does this.
LEMMA RewindFacts ==
  ASSUME IInv, loaded = LoadedFirst, Faithful(log), NEW t \in Indices, Rewind(t)
  PROVE  \E rng, book : Rewinds(rng, book, t)
<1>1. PICK rng \in Streams :
        LET replay == Replay(t, rng) IN
        /\ idx' = t /\ status' = Status(t) /\ stream' = rng
        /\ UNCHANGED <<loaded, sid, unlogged>>
        /\ Becomes(replay[t])
        /\ log' = Relogged(t, replay[t])
        /\ past' = [b \in Indices |->
                      CASE b < t /\ b < idx  -> past[b]
                        [] b < t /\ b >= idx -> ViewOf(replay[b])
                        [] OTHER             -> EmptyBag]
  BY DEF Rewind
<1>2. Replayable
  BY StateFacts
<1>3. PICK book : /\ book = Replay(t, rng) /\ IsReplay(book, t, rng)
                  /\ \A b \in -1..t : book[b] \in Books(b)
  BY <1>2, ReplayBooks
<1>4. \A b \in -1..t : Tracks(rng, book[b], log, Upto(log, b), b)
  BY <1>2, <1>3, ReplayTracks
<1>5. Rewinds(rng, book, t)
  BY <1>1, <1>3, <1>4 DEF Rewinds
<1> QED
  BY <1>5

\* Each action of a log that can be replayed is about an order it placed.
LEMMA Origins ==
  ASSUME NEW l \in Logs, Faithful(l), NEW n \in 0..Len(l), NEW j \in 1..n
  PROVE  \E p \in Placed(l, n) : l[p].id = l[j].id
<1>1. DOMAIN l = 1..Len(l) /\ Len(l) \in Nat /\ j \in DOMAIN l
  BY DEF Logs
<1>2. CASE l[j].kind = "place"
  BY <1>2 DEF Placed
<1>3. CASE l[j].kind # "place"
  <2>1. PICK p \in Placed(l, j - 1) : l[p].id = l[j].id
    BY <1>1, <1>3 DEF Faithful, CancelOK
  <2>2. p \in Placed(l, n)
    BY <1>1, <2>1 DEF Placed
  <2> QED
    BY <2>1, <2>2
<1> QED
  BY <1>2, <1>3

\* The restored log has the actions up to the target, with the ids of the orders
\* the replay made.
Relogs(w, l, n, k) ==
  /\ w \in Logs /\ Len(w) = n
  /\ \A j \in 1..n :
       /\ w[j].kind = l[j].kind /\ w[j].index = l[j].index
       /\ w[j].spec = l[j].spec /\ w[j].client = l[j].client
       /\ w[j].id = k.live[l[j].id] /\ l[j].id \in DOMAIN k.live

\* So it is made.
LEMMA ReloggedFacts ==
  ASSUME log \in Logs, Faithful(log), NEW t \in Indices, NEW k \in Books(t), NEW rng,
         Tracks(rng, k, log, Upto(log, t), t), NEW d, \A j \in DOMAIN log : log[j].session <= d
  PROVE  Relogs(Relogged(t, k), log, Upto(log, t), k)
<1>1. PICK n : n = Upto(log, t)
  OBVIOUS
<1>2. PICK w : w = Relogged(t, k)
  OBVIOUS
<1>3. t \in Int
  BY BookAssumption DEF Indices
<1>4. n \in 0..Len(log) /\ Len(log) \in Nat /\ DOMAIN log = 1..Len(log) /\ \A j \in DOMAIN log : log[j] \in Actions
  <2>1. n \in 0..Len(log)
    BY <1>1, <1>3, UptoFacts
  <2> QED
    BY <2>1 DEF Logs
<1>5. Kept(t) = FirstOf(log, n)
  BY <1>1, KeptFirst
<1>6. w \in Logs
  BY <1>2, ReloggedLog
<1>7. w = [j \in 1..n |-> [log[j] EXCEPT !.id = Live(k, log[j].id)]]
  BY <1>2, <1>5 DEF Relogged, FirstOf
<1>8. Len(w) = n
  <2>1. DOMAIN w = 1..n /\ n \in Nat
    BY <1>4, <1>7
  <2>2. DOMAIN w = 1..Len(w) /\ Len(w) \in Nat
    BY <1>6 DEF Logs
  <2> QED
    BY <2>1, <2>2
<1>9. ASSUME NEW j \in 1..n
      PROVE  /\ w[j].kind = log[j].kind /\ w[j].index = log[j].index
             /\ w[j].spec = log[j].spec /\ w[j].client = log[j].client
             /\ w[j].id = k.live[log[j].id] /\ log[j].id \in DOMAIN k.live
  <2>1. log[j] \in Action
    BY <1>4 DEF Actions
  <2>2. PICK p \in Placed(log, n) : log[p].id = log[j].id
    BY <1>4, Origins
  <2>3. log[j].id \in DOMAIN k.live
    BY <1>1, <2>2 DEF Tracks
  <2>4. w[j] = [log[j] EXCEPT !.id = k.live[log[j].id]]
    BY <1>7, <2>3 DEF Live
  <2> QED
    BY <2>1, <2>3, <2>4 DEF Action
<1> QED
  BY <1>1, <1>2, <1>6, <1>8, <1>9 DEF Relogs

\* It is the same log but for the ids.
LEMMA RelogsSame ==
  ASSUME NEW l \in Logs, Faithful(l), NEW n \in 0..Len(l), NEW rng, NEW k, NEW t,
         Tracks(rng, k, l, n, t), NEW w, Relogs(w, l, n, k)
  PROVE  SameActions(w, l, n)
<1>1. \A j \in 1..n : \E p \in Placed(l, n) : l[p].id = l[j].id
  BY Origins
<1>2. \A p, q \in Placed(l, n) : k.live[l[p].id] = k.live[l[q].id] => p = q
  BY DEF Tracks
<1>3. \A j, m \in 1..n : w[j].id = w[m].id <=> l[j].id = l[m].id
  <2> SUFFICES ASSUME NEW j \in 1..n, NEW m \in 1..n
               PROVE  w[j].id = w[m].id <=> l[j].id = l[m].id
    OBVIOUS
  <2>1. w[j].id = k.live[l[j].id] /\ w[m].id = k.live[l[m].id]
    BY DEF Relogs
  <2>2. PICK p \in Placed(l, n) : l[p].id = l[j].id
    BY <1>1
  <2>3. PICK q \in Placed(l, n) : l[q].id = l[m].id
    BY <1>1
  <2>4. k.live[l[p].id] = k.live[l[q].id] => p = q
    BY <1>2
  <2> QED
    BY <2>1, <2>2, <2>3, <2>4
<1> QED
  BY <1>3 DEF Relogs, SameActions

\* The session is rewound.
LEMMA RewindSession ==
  ASSUME IInv, SInv, NEW t \in Indices, Rewind(t)
  PROVE  SInv'
<1> SUFFICES ASSUME unlogged' = 0
             PROVE  /\ loaded' = LoadedFirst /\ Faithful(log')
                    /\ Tracks(stream', SessionBook', log', Len(log'), idx')
                    /\ DOMAIN past' = Indices
                    /\ Streams = {stream'} => Recalled(stream', past', log', idx')
  BY DEF SInv
<1>1. loaded' = loaded /\ unlogged = 0
  BY DEF Rewind
<1>2. /\ loaded = LoadedFirst /\ Faithful(log)
      /\ DOMAIN past = Indices
      /\ Streams = {stream} => Recalled(stream, past, log, idx)
  BY <1>1 DEF SInv
<1>3. PICK rng, book : Rewinds(rng, book, t)
  BY <1>2, RewindFacts
<1>4. PICK k : k = book[t]
  OBVIOUS
<1>5. PICK l : l = log
  OBVIOUS
<1>6. PICK w : w = log'
  OBVIOUS
<1>7. PICK n : n = Upto(l, t)
  OBVIOUS
<1>8. /\ l \in Logs /\ Len(l) \in Nat /\ DOMAIN l = 1..Len(l) /\ t \in Int /\ t \in -1..t
      /\ idx \in Int /\ stream \in Streams
  BY <1>5, StateFacts, BookAssumption DEF IInv, Logs, Indices
<1>9. n \in 0..Len(l) /\ CutsAt(l, n, t)
  BY <1>7, <1>8, UptoFacts
<1>10. /\ rng \in Streams /\ stream' = rng /\ idx' = t
       /\ Becomes(k) /\ w = Relogged(t, k)
       /\ k \in Books(t) /\ Tracks(rng, k, l, n, t)
  BY <1>3, <1>4, <1>5, <1>6, <1>7, <1>8 DEF Rewinds
<1>11. Relogs(w, l, n, k)
  <2>1. \A j \in DOMAIN log : log[j].session <= sid
    BY DEF IInv
  <2>2. PICK d : d = sid
    OBVIOUS
  <2>3. Relogs(Relogged(t, k), log, Upto(log, t), k)
    BY <1>2, <1>5, <1>7, <1>8, <1>10, <2>1, <2>2, ReloggedFacts
  <2> QED
    BY <1>5, <1>7, <1>10, <2>3
<1>12. w \in Logs /\ Len(w) = n /\ \A j \in 1..n : w[j].index = l[j].index
  BY <1>11 DEF Relogs
<1>13. Faithful(l)
  BY <1>2, <1>5
<1>14. SameActions(w, l, n)
  BY <1>8, <1>9, <1>10, <1>11, <1>13, RelogsSame
<1>15. Faithful(w)
  <2>1. Len(w) <= Len(l) /\ SameActions(w, l, Len(w))
    BY <1>8, <1>9, <1>12, <1>14
  <2> QED
    BY <1>8, <1>12, <1>13, <2>1, SameFaithful
<1>16. PICK x : x = SessionBook'
  OBVIOUS
<1>17. x.orders = k.orders /\ x.tag = k.tag /\ x.fills = k.fills /\ x.live = [i \in DOMAIN k.orders |-> i]
  BY <1>10, <1>16 DEF SessionBook, Becomes
<1>18. /\ Placed(w, n) = Placed(l, n)
       /\ \A m \in 1..n : CancelBars(w, n, m) = CancelBars(l, n, m)
  BY <1>8, <1>9, <1>14, SamePlaces
<1>19. ASSUME NEW m \in Placed(l, n)
       PROVE  /\ w[m].id \in DOMAIN k.orders /\ w[m].id = k.live[l[m].id]
              /\ Meets(rng, x, w[m].id, w[m], CancelBars(w, n, m), t)
  <2>1. m \in 1..n
    BY DEF Placed
  <2>2. PICK i : i = k.live[l[m].id]
    OBVIOUS
  <2>3. i \in DOMAIN k.orders /\ Meets(rng, k, i, l[m], CancelBars(l, n, m), t)
    BY <1>10, <2>2 DEF Tracks
  <2>4. w[m].id = i /\ w[m].index = l[m].index /\ w[m].spec = l[m].spec /\ w[m].client = l[m].client
    BY <1>11, <2>1, <2>2 DEF Relogs
  <2>5. Meets(rng, x, i, w[m], CancelBars(l, n, m), t)
    BY <1>17, <2>3, <2>4 DEF Meets
  <2> QED
    BY <1>18, <2>1, <2>2, <2>3, <2>4, <2>5
<1>20. Tracks(rng, x, w, n, t)
  <2>1. \A m \in Placed(w, n) : w[m].id \in DOMAIN x.live /\ x.live[w[m].id] = w[m].id
    BY <1>17, <1>18, <1>19
  <2>2. \A m \in Placed(w, n) :
          /\ w[m].id \in DOMAIN x.live /\ x.live[w[m].id] \in DOMAIN x.orders
          /\ Meets(rng, x, x.live[w[m].id], w[m], CancelBars(w, n, m), t)
    BY <1>17, <1>18, <1>19, <2>1
  <2>3. \A j, m \in Placed(w, n) : x.live[w[j].id] = x.live[w[m].id] => j = m
    <3>1. \A j, m \in Placed(l, n) : k.live[l[j].id] = k.live[l[m].id] => j = m
      BY <1>10 DEF Tracks
    <3> QED
      BY <1>18, <1>19, <2>1, <3>1
  <2>4. \A i \in DOMAIN x.orders : \E m \in Placed(w, n) : x.live[w[m].id] = i
    <3>1. \A i \in DOMAIN k.orders : \E m \in Placed(l, n) : k.live[l[m].id] = i
      BY <1>10 DEF Tracks
    <3> QED
      BY <1>17, <1>18, <1>19, <2>1, <3>1
  <2> QED
    BY <2>2, <2>3, <2>4 DEF Tracks
<1>21. past' = [b \in Indices |->
                  CASE b < t /\ b < idx  -> past[b]
                    [] b < t /\ b >= idx -> ViewOf(book[b])
                    [] OTHER             -> EmptyBag]
  BY <1>3 DEF Rewinds
<1>22. ASSUME Streams = {rng} PROVE Recalled(rng, past', w, t)
  <2> SUFFICES ASSUME NEW b \in Indices, b < t
               PROVE  past'[b] = LogBag(rng, w, Upto(w, b), b)
    BY DEF Recalled
  <2>1. b \in Int /\ b \in -1..t
    BY <1>8, BookAssumption DEF Indices
  <2>2. PICK u : u = Upto(l, b)
    OBVIOUS
  <2>3. u \in 0..Len(l) /\ u <= n /\ u \in Nat
    BY <1>7, <1>8, <2>1, <2>2, UptoFacts, UptoGrows
  <2>4. Upto(w, b) = u
    <3>1. Len(w) <= Len(l) /\ Upto(l, b) <= Len(w) /\ \A j \in 1..Len(w) : w[j].index = l[j].index
      BY <1>8, <1>9, <1>12, <2>2, <2>3
    <3> QED
      BY <1>8, <1>12, <2>1, <2>2, <3>1, UptoSame
  <2>5. LogBag(rng, w, u, b) = LogBag(rng, l, u, b)
    BY <1>8, <1>9, <1>14, <2>3, SameBag
  <2>6. CASE b < idx
    <3>1. past'[b] = past[b]
      BY <1>8, <1>21, <2>1, <2>6
    <3>2. Streams = {stream} /\ stream = rng
      BY <1>8, <1>22
    <3>3. past[b] = LogBag(rng, l, u, b)
      BY <1>2, <1>5, <2>2, <2>6, <3>2 DEF Recalled
    <3> QED
      BY <2>4, <2>5, <3>1, <3>3
  <2>7. CASE ~(b < idx)
    <3>1. past'[b] = ViewOf(book[b])
      BY <1>8, <1>21, <2>1, <2>7
    <3>2. PICK y : y = book[b]
      OBVIOUS
    <3>3. Tracks(rng, y, l, u, b)
      BY <1>3, <1>5, <2>1, <2>2, <3>2 DEF Rewinds
    <3>4. ViewOf(y) = LogBag(rng, l, u, b)
      BY <2>3, <3>3, ViewIsBag
    <3> QED
      BY <2>4, <2>5, <3>1, <3>2, <3>4
  <2> QED
    BY <2>6, <2>7
<1>23. DOMAIN past' = Indices
  BY <1>21
<1> QED
  BY <1>1, <1>2, <1>6, <1>10, <1>12, <1>15, <1>16, <1>20, <1>22, <1>23

\* Every step keeps it.
LEMMA NextSession == IInv /\ SInv /\ [Next]_vars => SInv'
<1> SUFFICES ASSUME IInv, SInv, [Next]_vars PROVE SInv'
  OBVIOUS
<1>1. CASE Tick
  BY <1>1, TickSession
<1>2. ASSUME NEW s \in Inputs, NEW c \in Callers, Place(s, c) PROVE SInv'
  BY <1>2, PlaceSession
<1>3. ASSUME NEW i \in DOMAIN orders, Cancel(i) PROVE SInv'
  BY <1>3, CancelSession
<1>4. ASSUME NEW i \in DOMAIN orders, NEW q \in Orders!Quantities, Modify(i, q) PROVE SInv'
  <2>1. unlogged' # 0
    BY <1>4, StateFacts DEF Modify
  <2> QED
    BY <2>1 DEF SInv
<1>5. ASSUME NEW instr \in Instruments, Load(instr) PROVE SInv'
  <2>1. unlogged' # 0
    BY <1>5, StateFacts DEF Load
  <2> QED
    BY <2>1 DEF SInv
<1>6. CASE Stop
  BY <1>6, StillSession DEF Stop
<1>7. ASSUME NEW t \in Indices, Rewind(t) PROVE SInv'
  BY <1>7, RewindSession
<1>8. CASE Branch
  BY <1>8, BranchSession
<1>9. ASSUME NEW i \in DOMAIN orders, ModifyRefused(i) PROVE SInv'
  <2>1. unlogged' # 0
    BY <1>9, StateFacts DEF ModifyRefused
  <2> QED
    BY <2>1 DEF SInv
<1>10. CASE UNCHANGED vars
  BY <1>10, StillSession DEF vars
<1> QED
  BY <1>1, <1>2, <1>3, <1>4, <1>5, <1>6, <1>7, <1>8, <1>9, <1>10 DEF Next, Callers

\* The session stays what its log says.
LEMMA SessionInvariance == Spec => [](IInv /\ SInv)
<1>1. Init => IInv /\ SInv
  BY InitInv, InitSession
<1>2. (IInv /\ SInv) /\ [Next]_vars => (IInv /\ SInv)'
  BY NextInv, NextSession
<1> QED
  BY <1>1, <1>2, PTL DEF Spec

\* "Order ids are remapped so the restored log always references live ids": as
\* long as everything that happened is logged, each order has one entry that
\* places it, and what an entry cancels is cancelled.
THEOREM LogNamesTheOrders == Spec => []LogMatchesOrders
<1>1. IInv /\ SInv => LogMatchesOrders
  <2> SUFFICES ASSUME IInv, SInv, unlogged = 0
               PROVE  LET placed == {k \in DOMAIN log : log[k].kind = "place"} IN
                      /\ {log[k].id : k \in placed} = DOMAIN orders
                      /\ Cardinality(placed) = Cardinality(DOMAIN orders)
                      /\ \A k \in placed : /\ orders[log[k].id].placed = log[k].index
                                           /\ tag[log[k].id].client = log[k].client
                      /\ \A k \in DOMAIN log \ placed : /\ log[k].id \in DOMAIN orders
                                                       /\ orders[log[k].id].status = "CANCELLED"
    BY DEF LogMatchesOrders
  <2>1. PICK n : n = Len(log)
    OBVIOUS
  <2>2. PICK P : P = Placed(log, n)
    OBVIOUS
  <2>3. log \in Logs /\ n \in Nat /\ DOMAIN log = 1..n /\ P = {k \in DOMAIN log : log[k].kind = "place"}
    BY <2>1, <2>2 DEF IInv, Logs, Placed
  <2>4. Faithful(log) /\ Tracks(stream, SessionBook, log, n, idx)
    BY <2>1 DEF SInv
  <2>5. /\ \A m \in P : /\ log[m].id \in DOMAIN orders
                        /\ Meets(stream, SessionBook, log[m].id, log[m], CancelBars(log, n, m), idx)
        /\ \A j, m \in P : log[j].id = log[m].id => j = m
        /\ \A i \in DOMAIN orders : \E m \in P : log[m].id = i
    BY <2>1, <2>2, <2>4, SessionOrders
  <2>6. SessionBook.orders = orders /\ SessionBook.tag = tag
    BY SessionFacts
  <2>7. \A m \in P : /\ orders[log[m].id].placed = log[m].index
                     /\ tag[log[m].id].client = log[m].client
                     /\ CancelBars(log, n, m) # {} => orders[log[m].id].status = "CANCELLED"
    BY <2>5, <2>6 DEF Meets
  <2>8. Cardinality(P) = Cardinality(DOMAIN orders)
    <3>1. PICK f : f = [m \in P |-> log[m].id]
      OBVIOUS
    <3>2. IsFiniteSet(P)
      BY <2>2, <2>3, FS_Interval, FS_Subset
    <3>3. /\ f \in [P -> DOMAIN orders] /\ \A j, m \in P : f[j] = f[m] => j = m
          /\ \A i \in DOMAIN orders : \E m \in P : f[m] = i
      BY <2>5, <3>1
    <3> QED
      BY <3>2, <3>3, AsMany
  <2>9. ASSUME NEW c \in DOMAIN log \ P
        PROVE  log[c].id \in DOMAIN orders /\ orders[log[c].id].status = "CANCELLED"
    <3>1. c \in 1..n /\ n \in 0..Len(log) /\ log[c] \in Actions
      BY <2>1, <2>3 DEF Logs
    <3>2. log[c].kind = "cancel"
      BY <2>3, <3>1 DEF Actions, Action
    <3>3. PICK p \in P : log[p].id = log[c].id
      BY <2>2, <2>3, <2>4, <3>1, Origins
    <3>4. log[c].index \in CancelBars(log, n, p)
      BY <3>1, <3>2, <3>3 DEF CancelBars
    <3> QED
      BY <2>5, <2>7, <3>3, <3>4
  <2>10. {log[k].id : k \in P} = DOMAIN orders
    <3>1. \A m \in P : log[m].id \in DOMAIN orders
      BY <2>5
    <3>2. \A i \in DOMAIN orders : \E m \in P : log[m].id = i
      BY <2>5
    <3> QED
      BY <3>1, <3>2
  <2> QED
    BY <2>3, <2>7, <2>8, <2>9, <2>10
<1> QED
  BY <1>1, SessionInvariance, PTL

\* Rewinding to a bar, or to the bar the clock is at, as the log says it was.
LEMMA RewindShows ==
  ASSUME IInv, SInv, unlogged = 0, NEW t \in Indices, Rewind(t), Streams = {stream}
  PROVE  View' = LogBag(stream, log, Upto(log, t), t)
<1>1. loaded = LoadedFirst /\ Faithful(log)
  BY DEF SInv
<1>2. PICK rng, book : Rewinds(rng, book, t)
  BY <1>1, RewindFacts
<1>3. PICK k : k = book[t]
  OBVIOUS
<1>4. t \in Int /\ t \in -1..t /\ log \in Logs
  BY BookAssumption DEF Indices, IInv
<1>5. PICK u : u = Upto(log, t)
  OBVIOUS
<1>6. u \in Nat
  BY <1>4, <1>5, UptoFacts
<1>7. rng = stream /\ Becomes(k) /\ Tracks(rng, k, log, u, t)
  BY <1>2, <1>3, <1>4, <1>5 DEF Rewinds
<1>8. ViewOf(k) = LogBag(rng, log, u, t)
  BY <1>6, <1>7, ViewIsBag
<1>9. View' = ViewOf(k)
  BY <1>7 DEF View, ViewOf, Book, Becomes
<1> QED
  BY <1>5, <1>7, <1>8, <1>9

\* "Rewind undoes every action placed after the target": rewinding a seeded
\* session in which everything is logged brings back what it was when the clock
\* left that bar, whatever happened since, and to the current bar it changes
\* nothing.
THEOREM RewindsRestoreThePast == Spec => RewindRestoresThePast
<1>1. ASSUME IInv, SInv, [Next]_vars, Streams = {stream}, unlogged = 0
      PROVE  RestoresThePast
  <2>1. idx \in Indices /\ idx \in Int /\ log \in Logs
    <3>1. idx \in Indices /\ log \in Logs
      BY <1>1 DEF IInv
    <3> QED
      BY <3>1, BookAssumption DEF Indices
  <2>2. Recalled(stream, past, log, idx) /\ Tracks(stream, SessionBook, log, Len(log), idx)
    BY <1>1 DEF SInv
  <2>3. ASSUME idx' < idx PROVE View' = past[idx']
    <3>1. PICK t \in Indices : Rewind(t)
      <4>1. ~Tick
        BY <2>1, <2>3 DEF Tick
      <4>2. \A s, c : ~Place(s, c)
        BY <2>1, <2>3 DEF Place
      <4>3. \A i : ~Cancel(i)
        BY <2>1, <2>3 DEF Cancel
      <4>4. \A i, q : ~Modify(i, q)
        BY <2>1, <2>3 DEF Modify
      <4>5. \A i : ~Load(i) /\ ~ModifyRefused(i)
        BY <2>1, <2>3 DEF Load, ModifyRefused
      <4>6. ~Stop /\ ~Branch /\ ~UNCHANGED vars
        BY <2>1, <2>3 DEF Stop, Branch, vars
      <4> QED
        BY <1>1, <4>1, <4>2, <4>3, <4>4, <4>5, <4>6 DEF Next
    <3>2. idx' = t /\ t < idx
      BY <2>3, <3>1 DEF Rewind
    <3>3. View' = LogBag(stream, log, Upto(log, t), t)
      BY <1>1, <3>1, RewindShows
    <3>4. past[t] = LogBag(stream, log, Upto(log, t), t)
      BY <2>2, <3>2 DEF Recalled
    <3> QED
      BY <3>2, <3>3, <3>4
  <2>4. ASSUME Rewind(idx) PROVE View' = View
    <3>1. View' = LogBag(stream, log, Upto(log, idx), idx)
      BY <1>1, <2>1, <2>4, RewindShows
    <3>2. Upto(log, idx) = Len(log)
      <4>1. \A j \in DOMAIN log : log[j].index <= idx
        BY <1>1 DEF IInv
      <4> QED
        BY <2>1, <4>1, UptoAll
    <3>3. View = ViewOf(SessionBook)
      BY DEF View, ViewOf, Book, SessionBook
    <3>4. Len(log) \in Nat
      BY <2>1 DEF Logs
    <3>5. ViewOf(SessionBook) = LogBag(stream, log, Len(log), idx)
      BY <2>2, <3>4, ViewIsBag
    <3> QED
      BY <3>1, <3>2, <3>3, <3>5
  <2> QED
    BY <2>3, <2>4 DEF RestoresThePast
<1>2. (IInv /\ SInv) /\ [Next]_vars => [Streams = {stream} /\ unlogged = 0 => RestoresThePast]_vars
  BY <1>1
<1> QED
  BY <1>2, SessionInvariance, PTL DEF Spec, RewindRestoresThePast
=============================================================================
