--------------------------- MODULE PmbOrdersProofs --------------------------
(***************************************************************************)
(* Invariants of PmbOrders for every clock grid, every set of inputs and   *)
(* every number of orders.                                                 *)
(***************************************************************************)
EXTENDS PmbOrders, FoldFacts, TLAPS

-----------------------------------------------------------------------------
(* What one bar makes of one order.                                        *)

\* A status that agrees with the executed quantity.
StatusMatchesFill(o) ==
  /\ o.status = "FILLED" => o.filled = o.qty
  /\ o.qty # 0 /\ o.filled = o.qty => o.status = "FILLED"
  /\ o.status = "PARTIALLY_FILLED" => 0 < o.filled /\ o.filled < o.qty
  /\ o.status = "ACCEPTED" => o.filled = 0
  /\ o.qty > 0 => 0 <= o.filled /\ o.filled <= o.qty
  /\ o.qty <= 0 => o.filled \in {0, o.qty}

\* A matching decision the environment may take for order o at bar b.
Possible(o, b, q) ==
  /\ q \in Rejected..MaxQty
  /\ q # Wait => /\ Eligible(Ready(o, b), b)
                 /\ q \in {Rejected} \cup Executions(Ready(o, b))

\* Cancelling on expiry and stamping keep the identity of an order, never
\* reopen it and never move an existing stamp.
LEMMA ReadyFacts ==
  ASSUME NEW o \in Order, NEW b \in Bars
  PROVE  /\ Ready(o, b) \in Order
         /\ Ready(o, b).instr = o.instr /\ Ready(o, b).tif = o.tif
         /\ Ready(o, b).qty = o.qty /\ Ready(o, b).filled = o.filled
         /\ Ready(o, b).expire = o.expire /\ Ready(o, b).placed = o.placed
         /\ Ready(o, b).status \in {o.status, "CANCELLED"}
         /\ ~IsOpen(o) => Ready(o, b) = o
         /\ IsOpen(Ready(o, b)) => ~OnExpiringContract(o, b)
         /\ IsOpen(Ready(o, b)) => Ready(o, b).status = o.status
         /\ o.date # NoDate => Ready(o, b).date = o.date
         /\ Ready(o, b).date \in {o.date, TradingDate[b]}
         /\ EnforceHours /\ Eligible(Ready(o, b), b) =>
              Ready(o, b).date # NoDate
<1>1. TradingDate[b] \in Nat
  BY GridAssumption
<1> DEFINE c == CancelExpiring(o, b)
<1>2. /\ c \in Order
      /\ c.instr = o.instr /\ c.tif = o.tif /\ c.qty = o.qty
      /\ c.filled = o.filled /\ c.expire = o.expire /\ c.placed = o.placed
      /\ c.date = o.date /\ c.hours = o.hours
      /\ c.status \in {o.status, "CANCELLED"}
      /\ ~IsOpen(o) => c = o
      /\ IsOpen(c) => c = o /\ ~OnExpiringContract(o, b)
  BY DEF CancelExpiring, Cancelled, IsOpen, Active, Terminal, Order
<1> HIDE DEF c
<1>3. Ready(o, b) = Stamp(c, b)
  BY DEF Ready, c
<1>4. /\ Stamp(c, b) \in Order
      /\ Stamp(c, b).instr = c.instr /\ Stamp(c, b).tif = c.tif
      /\ Stamp(c, b).qty = c.qty /\ Stamp(c, b).filled = c.filled
      /\ Stamp(c, b).expire = c.expire /\ Stamp(c, b).placed = c.placed
      /\ Stamp(c, b).status = c.status /\ Stamp(c, b).hours = c.hours
      /\ ~IsOpen(c) => Stamp(c, b) = c
      /\ c.date # NoDate => Stamp(c, b) = c
      /\ Stamp(c, b).date \in {c.date, TradingDate[b]}
  BY <1>1, <1>2 DEF Stamp, Order, Eligible
<1>5. EnforceHours /\ Eligible(Stamp(c, b), b) => Stamp(c, b).date # NoDate
  <2>1. Eligible(Stamp(c, b), b) <=> Eligible(c, b)
    BY <1>4 DEF Eligible, IsOpen, MayExecute
  <2>2. EnforceHours /\ Eligible(c, b) /\ c.date = NoDate =>
          Stamp(c, b).date = TradingDate[b]
    BY <1>2 DEF Stamp, Order
  <2> QED
    BY <1>1, <1>4, <2>1, <2>2 DEF NoDate
<1> QED
  BY <1>2, <1>3, <1>4, <1>5 DEF IsOpen

\* One bar keeps the identity of an order and the agreement of its status with
\* its executed quantity, leaves closed orders alone, and leaves open only what
\* neither expires nor is on an expiring contract.
LEMMA AfterBarFacts ==
  ASSUME NEW o \in Order, NEW b \in Bars, NEW q,
         Possible(o, b, q), StatusMatchesFill(o)
  PROVE  /\ AfterBar(o, b, q) \in Order
         /\ AfterBar(o, b, q).instr = o.instr /\ AfterBar(o, b, q).tif = o.tif
         /\ AfterBar(o, b, q).qty = o.qty
         /\ AfterBar(o, b, q).expire = o.expire
         /\ AfterBar(o, b, q).placed = o.placed
         /\ StatusMatchesFill(AfterBar(o, b, q))
         /\ ~IsOpen(o) => AfterBar(o, b, q) = o /\ q = Wait
         /\ AfterBar(o, b, q).filled =
              IF Executes(q) THEN o.filled + q ELSE o.filled
         /\ o.qty > 0 => AfterBar(o, b, q).filled >= o.filled
         /\ IsOpen(AfterBar(o, b, q)) \/ Executes(q) => ~OnExpiringContract(o, b)
         /\ EnforceHours /\ IsOpen(AfterBar(o, b, q)) =>
              /\ ~PastExpiry(AfterBar(o, b, q), b)
              /\ ~DayIsOver(AfterBar(o, b, q), b)
         /\ o.date # NoDate => AfterBar(o, b, q).date = o.date
         /\ AfterBar(o, b, q).date \in {o.date, TradingDate[b]}
         /\ EnforceHours /\ Executes(q) => AfterBar(o, b, q).date # NoDate
<1> DEFINE r == Ready(o, b)
           m == Match(r, q)
           n == ExpireOrder(m, b)
<1>1. AfterBar(o, b, q) = n
  BY DEF AfterBar
<1>2. /\ r \in Order
      /\ r.instr = o.instr /\ r.tif = o.tif /\ r.qty = o.qty
      /\ r.filled = o.filled /\ r.expire = o.expire /\ r.placed = o.placed
      /\ r.status \in {o.status, "CANCELLED"}
      /\ ~IsOpen(o) => r = o
      /\ IsOpen(r) => ~OnExpiringContract(o, b) /\ r.status = o.status
      /\ o.date # NoDate => r.date = o.date
      /\ r.date \in {o.date, TradingDate[b]}
      /\ EnforceHours /\ Eligible(r, b) => r.date # NoDate
  BY ReadyFacts
<1>3. /\ q \in Rejected..MaxQty /\ MaxQty \in Nat
      /\ MinQty \in Int /\ MinQty <= 0
      /\ q # Wait => /\ IsOpen(r) /\ Eligible(r, b)
                     /\ q \in {Rejected} \cup Executions(r)
  BY InputAssumption DEF Possible, Eligible
<1>4. StatusMatchesFill(r)
  BY <1>2, <1>3 DEF StatusMatchesFill, IsOpen, Active, Order, Terminal
<1> HIDE DEF r
<1>5. /\ m \in Order
      /\ m.instr = r.instr /\ m.tif = r.tif /\ m.qty = r.qty
      /\ m.expire = r.expire /\ m.placed = r.placed /\ m.date = r.date
      /\ m.filled = IF Executes(q) THEN r.filled + q ELSE r.filled
      /\ r.qty > 0 => m.filled >= r.filled
      /\ StatusMatchesFill(m)
      /\ q = Wait => m = r
      /\ IsOpen(m) => IsOpen(r)
  <2>1. CASE q = Wait
    <3>1. q # Rejected /\ ~Executes(q)
      BY <2>1, <1>3 DEF Wait, Rejected, Executes, Quantities
    <3>2. m = r
      BY <2>1, <3>1 DEF Match
    <3> QED
      BY <2>1, <3>1, <3>2, <1>2, <1>4, <1>3 DEF Order, Quantities
  <2>2. CASE q = Rejected
    <3>1. IsOpen(r) /\ q # Wait /\ ~Executes(q)
      BY <2>2, <1>3 DEF Wait, Rejected, Executes, Quantities
    <3>2. m = [r EXCEPT !.status = "REJECTED"]
      BY <2>2, <3>1 DEF Match
    <3>3. /\ m \in Order /\ m.status = "REJECTED"
          /\ m.instr = r.instr /\ m.tif = r.tif /\ m.qty = r.qty
          /\ m.expire = r.expire /\ m.placed = r.placed /\ m.date = r.date
          /\ m.filled = r.filled /\ r.filled \in Int
      BY <3>2, <1>2, <1>3 DEF Order, Quantities, Terminal
    <3>4. StatusMatchesFill(m)
      BY <3>1, <3>3, <1>4 DEF StatusMatchesFill, IsOpen, Active
    <3> QED
      BY <3>1, <3>3, <3>4
  <2>3. CASE Executes(q)
    <3>1. q \in Quantities /\ q # Wait /\ q # Rejected
      BY <2>3, <1>3 DEF Executes, Quantities, Wait, Rejected
    <3>2. m = Filled(r, q) /\ IsOpen(r)
      BY <2>3, <3>1, <1>3 DEF Match
    <3>3. r.qty \in Quantities /\ r.filled \in Quantities
      BY <1>2 DEF Order
    <3>4. \/ /\ r.qty > 0 /\ q > 0 /\ r.filled >= 0 /\ r.filled + q <= r.qty
          \/ r.qty <= 0 /\ r.filled = 0 /\ q = r.qty
      <4>1. q \in Executions(r)
        BY <3>1, <1>3
      <4>2. r.status = "ACCEPTED" \/ r.status = "PARTIALLY_FILLED"
        BY <3>2 DEF IsOpen, Active
      <4> QED
        BY <4>1, <4>2, <3>3, <1>3, <1>4
           DEF Executions, Remaining, StatusMatchesFill, Quantities
    <3>5. r.filled + q \in Quantities
      BY <3>3, <3>4, <1>3 DEF Quantities
    <3>6. /\ m \in Order
          /\ m.instr = r.instr /\ m.tif = r.tif /\ m.qty = r.qty
          /\ m.expire = r.expire /\ m.placed = r.placed /\ m.date = r.date
          /\ m.filled = r.filled + q
          /\ m.status = IF r.filled + q >= r.qty THEN "FILLED"
                                                 ELSE "PARTIALLY_FILLED"
      BY <3>2, <3>5, <1>2 DEF Filled, Order, Terminal, Active
    <3>7. StatusMatchesFill(m)
      BY <3>1, <3>3, <3>4, <3>6, <1>3 DEF StatusMatchesFill, Quantities
    <3> QED
      BY <2>3, <3>1, <3>2, <3>3, <3>4, <3>6, <3>7 DEF Quantities
  <2> QED
    BY <2>1, <2>2, <2>3, <1>3 DEF Wait, Rejected, Executes, Quantities
<1> HIDE DEF m
<1>6. /\ n \in Order
      /\ n.instr = m.instr /\ n.tif = m.tif /\ n.qty = m.qty
      /\ n.expire = m.expire /\ n.placed = m.placed /\ n.date = m.date
      /\ n.filled = m.filled
      /\ StatusMatchesFill(n)
      /\ ~IsOpen(m) => n = m
      /\ IsOpen(n) => n = m
      /\ EnforceHours /\ IsOpen(n) => ~PastExpiry(n, b) /\ ~DayIsOver(n, b)
  <2>1. CASE EnforceHours /\ IsOpen(m) /\ (PastExpiry(m, b) \/ DayIsOver(m, b))
    <3>1. n = [m EXCEPT !.status = "EXPIRED"]
      BY <2>1 DEF ExpireOrder
    <3> QED
      BY <3>1, <2>1, <1>5
         DEF StatusMatchesFill, Order, Terminal, Active, IsOpen
  <2>2. CASE ~(/\ EnforceHours /\ IsOpen(m)
               /\ PastExpiry(m, b) \/ DayIsOver(m, b))
    BY <2>2, <1>5 DEF ExpireOrder
  <2> QED
    BY <2>1, <2>2
<1> HIDE DEF n
<1>7. ~IsOpen(o) => n = o /\ q = Wait
  BY <1>2, <1>3, <1>5, <1>6
<1>8. Executes(q) => q # Wait
  BY <1>3 DEF Wait, Executes, Quantities
<1>9. IsOpen(n) \/ Executes(q) => IsOpen(r)
  BY <1>3, <1>5, <1>6, <1>8
<1>10. EnforceHours /\ Executes(q) => n.date # NoDate
  BY <1>2, <1>3, <1>5, <1>6, <1>8
<1> QED
  BY <1>1, <1>2, <1>5, <1>6, <1>7, <1>9, <1>10

-----------------------------------------------------------------------------
(* The inductive invariant.                                                *)

\* A trade of a DAY order is on the date the order is stamped with.
TradesOnStampedDate ==
  EnforceHours =>
    \A t \in trades :
      orders[t.order].tif = "DAY" => TradingDate[t.bar] = orders[t.order].date

IInv ==
  /\ TypeOK
  /\ \A i \in DOMAIN orders : StatusMatchesFill(orders[i])
  /\ DayOrdersHaveBarLeft
  /\ TradesOnStampedDate
  /\ ExpiredContractsNotWorked
  /\ GtdOrdersLapse

\* What the requests have in common: some open orders are cancelled and at
\* most one new, unexecuted, unstamped order enters.
NewOrder(o) ==
  /\ o \in Order
  /\ o.filled = 0 /\ o.status = "ACCEPTED"
  /\ o.date = NoDate /\ o.placed = idx

Request ==
  /\ UNCHANGED <<idx, trades>>
  /\ status' \in {status, "STOPPED"}
  /\ DOMAIN orders \subseteq DOMAIN orders' /\ DOMAIN orders' \subseteq OrderIds
  /\ orders' = [i \in DOMAIN orders' |-> orders'[i]]
  /\ \A i \in DOMAIN orders :
       \/ orders'[i] = orders[i]
       \/ IsOpen(orders[i]) /\ orders'[i] = Cancelled(orders[i])
  /\ \A i \in DOMAIN orders' \ DOMAIN orders : NewOrder(orders'[i])
  /\ \A i, j \in DOMAIN orders' \ DOMAIN orders : i = j

\* An order that was just accepted is such a new one.
LEMMA AcceptedIsNew ==
  ASSUME TypeOK, NEW s \in OrderSpec
  PROVE  NewOrder(Accepted(s, idx))
<1>1. idx \in -1..LastBar /\ 0 \in Quantities /\ NoDate \in Int
  BY InputAssumption DEF TypeOK, NoDate, Quantities
<1>2. Accepted(s, idx) \in Order
  BY <1>1 DEF Accepted, OrderSpec, Order, Active
<1> QED
  BY <1>2 DEF NewOrder, Accepted

\* Every request is of that shape.
LEMMA RequestShape ==
  ASSUME TypeOK,
         \/ \E s \in Inputs : Place(s)
         \/ \E i \in DOMAIN orders : Cancel(i)
         \/ \E i \in DOMAIN orders, q \in Quantities : Modify(i, q)
         \/ \E i \in DOMAIN orders : ModifyRefused(i)
         \/ Stop
  PROVE  Request
<1>1. DOMAIN orders \subseteq OrderIds /\ orders \in [DOMAIN orders -> Order]
  BY DEF TypeOK
<1>2. ASSUME NEW s \in Inputs, Place(s)
      PROVE  Request
  <2>1. PICK n \in OrderIds \ DOMAIN orders :
          orders' = [j \in DOMAIN orders \cup {n} |->
                       IF j = n THEN Accepted(s, idx) ELSE orders[j]]
    BY <1>2 DEF Place
  <2>2. NewOrder(Accepted(s, idx))
    BY AcceptedIsNew, InputAssumption
  <2> QED
    BY <1>1, <1>2, <2>1, <2>2 DEF Place, Request
<1>3. ASSUME NEW i \in DOMAIN orders, Cancel(i)
      PROVE  Request
  BY <1>1, <1>3 DEF Cancel, Request
<1>4. ASSUME NEW i \in DOMAIN orders, NEW q \in Quantities, Modify(i, q)
      PROVE  Request
  <2>1. PICK n \in OrderIds \ DOMAIN orders :
          orders' = [j \in DOMAIN orders \cup {n} |->
                       CASE j = n -> Accepted(ModifiedSpec(orders[i], q), idx)
                         [] j = i -> Cancelled(orders[i])
                         [] OTHER -> orders[j]]
    BY <1>4 DEF Modify
  <2>2. ModifiedSpec(orders[i], q) \in OrderSpec
    BY <1>1, GridAssumption DEF ModifiedSpec, Order, OrderSpec, Hours, Never
  <2>3. NewOrder(Accepted(ModifiedSpec(orders[i], q), idx))
    BY <2>2, AcceptedIsNew
  <2>4. /\ DOMAIN orders' = DOMAIN orders \cup {n}
        /\ orders'[n] = Accepted(ModifiedSpec(orders[i], q), idx)
        /\ orders'[i] = Cancelled(orders[i])
        /\ \A j \in DOMAIN orders : j # i => orders'[j] = orders[j]
        /\ orders' = [j \in DOMAIN orders' |-> orders'[j]]
    BY <2>1
  <2> QED
    BY <1>1, <1>4, <2>3, <2>4 DEF Modify, Request
<1>5. ASSUME NEW i \in DOMAIN orders, ModifyRefused(i)
      PROVE  Request
  BY <1>1, <1>5 DEF ModifyRefused, Request
<1>6. CASE Stop
  BY <1>1, <1>6 DEF Stop, Request
<1> QED
  BY <1>2, <1>3, <1>4, <1>5, <1>6

\* Cancelling closes an open order and touches nothing else.
LEMMA CancelledFacts ==
  ASSUME NEW o \in Order, IsOpen(o), StatusMatchesFill(o)
  PROVE  /\ Cancelled(o) \in Order
         /\ Cancelled(o).instr = o.instr /\ Cancelled(o).tif = o.tif
         /\ Cancelled(o).qty = o.qty /\ Cancelled(o).filled = o.filled
         /\ Cancelled(o).date = o.date /\ ~IsOpen(Cancelled(o))
         /\ Cancelled(o).status = "CANCELLED"
         /\ StatusMatchesFill(Cancelled(o))
BY DEF Cancelled, Order, IsOpen, StatusMatchesFill, Active, Terminal

\* A request preserves the invariant.
LEMMA RequestPreserves ==
  ASSUME IInv, Request
  PROVE  IInv'
<1>1. /\ TypeOK
      /\ \A i \in DOMAIN orders : orders[i] \in Order
      /\ DOMAIN orders \subseteq DOMAIN orders'
      /\ idx' = idx /\ trades' = trades
  BY DEF IInv, TypeOK, Request
\* Every order afterwards is an old one, perhaps cancelled, or a new one.
<1>2. ASSUME NEW i \in DOMAIN orders
      PROVE  /\ orders'[i] \in Order
             /\ orders'[i].instr = orders[i].instr
             /\ orders'[i].tif = orders[i].tif
             /\ orders'[i].date = orders[i].date
             /\ IsOpen(orders'[i]) => orders'[i] = orders[i]
             /\ StatusMatchesFill(orders'[i])
  <2>1. StatusMatchesFill(orders[i]) /\ orders[i] \in Order
    BY <1>1 DEF IInv
  <2>2. CASE orders'[i] = orders[i]
    BY <2>1, <2>2
  <2>3. CASE IsOpen(orders[i]) /\ orders'[i] = Cancelled(orders[i])
    BY <2>1, <2>3, CancelledFacts
  <2> QED
    BY <2>2, <2>3 DEF Request
<1>3. ASSUME NEW i \in DOMAIN orders' \ DOMAIN orders
      PROVE  NewOrder(orders'[i]) /\ StatusMatchesFill(orders'[i])
  BY <1>3, InputAssumption
     DEF Request, NewOrder, StatusMatchesFill, Order, Quantities
<1>4. TypeOK'
  <2>1. orders' \in [DOMAIN orders' -> Order]
    BY <1>2, <1>3 DEF Request, NewOrder
  <2>2. trades' \subseteq [order : DOMAIN orders', bar : 0..idx', qty : Quantities]
    BY <1>1 DEF TypeOK
  <2> QED
    BY <2>1, <2>2, <1>1 DEF TypeOK, Request
<1>5. (\A i \in DOMAIN orders : StatusMatchesFill(orders[i]))'
  BY <1>2, <1>3
<1>6. DayOrdersHaveBarLeft'
  BY <1>1, <1>2, <1>3 DEF DayOrdersHaveBarLeft, IInv, NewOrder
<1>7. TradesOnStampedDate'
  BY <1>1, <1>2 DEF TradesOnStampedDate, IInv, TypeOK
<1>8. ExpiredContractsNotWorked'
  <2>1. ASSUME NEW b \in 0..idx, LastOfDate(b), NEW t \in trades, t.bar = b
        PROVE  ~OnExpiringContract(orders'[t.order], b)
    BY <2>1, <1>1, <1>2
       DEF ExpiredContractsNotWorked, IInv, TypeOK, OnExpiringContract
  <2>2. ASSUME NEW b \in 0..idx, LastOfDate(b), NEW i \in DOMAIN orders',
               IsOpen(orders'[i]), OnExpiringContract(orders'[i], b)
        PROVE  orders'[i].placed >= b
    <3>1. CASE i \in DOMAIN orders
      BY <3>1, <2>2, <1>2 DEF ExpiredContractsNotWorked, IInv
    <3>2. CASE i \notin DOMAIN orders
      BY <3>2, <1>1, <1>3 DEF NewOrder, TypeOK
    <3> QED
      BY <3>1, <3>2
  <2> QED
    BY <2>1, <2>2, <1>1 DEF ExpiredContractsNotWorked, LastOfDate,
                            OnExpiringContract
<1>9. GtdOrdersLapse'
  BY <1>1, <1>2, <1>3 DEF GtdOrdersLapse, IInv, NewOrder, PastExpiry
<1> QED
  BY <1>4, <1>5, <1>6, <1>7, <1>8, <1>9 DEF IInv

\* A bar, order by order: matching picks a possible decision for each order.
LEMMA TickShape ==
  ASSUME TypeOK, Tick
  PROVE  /\ idx + 1 \in Bars /\ idx' = idx + 1
         /\ status' \in {"RUNNING", "FINISHED"}
         /\ \E d \in [DOMAIN orders -> Rejected..MaxQty] :
              /\ \A i \in DOMAIN orders : Possible(orders[i], idx + 1, d[i])
              /\ orders' = [i \in DOMAIN orders |->
                              AfterBar(orders[i], idx + 1, d[i])]
              /\ trades' = trades \cup
                   {[order |-> i, bar |-> idx + 1, qty |-> d[i]] :
                      i \in {j \in DOMAIN orders : Executes(d[j])}}
<1> DEFINE b == idx + 1
           os == [i \in DOMAIN orders |-> Ready(orders[i], b)]
<1>1. b \in Bars /\ idx' = b /\ status' \in {"RUNNING", "FINISHED"}
  BY GridAssumption DEF TypeOK, Tick, Bars
<1>2. PICK d \in Decisions(b, os) :
        /\ orders' = [i \in DOMAIN orders |-> AfterBar(orders[i], b, d[i])]
        /\ trades' = trades \cup
             {[order |-> i, bar |-> b, qty |-> d[i]] :
                i \in {j \in DOMAIN orders : Executes(d[j])}}
  BY DEF Tick
<1>3. DOMAIN os = DOMAIN orders
  OBVIOUS
<1>4. /\ d \in [DOMAIN orders -> Rejected..MaxQty]
      /\ \A i \in DOMAIN orders :
           d[i] # Wait => /\ Eligible(os[i], b)
                          /\ d[i] \in {Rejected} \cup Executions(os[i])
  BY <1>2, <1>3 DEF Decisions
<1>5. \A i \in DOMAIN orders : Possible(orders[i], b, d[i])
  BY <1>4 DEF Possible
<1> QED
  BY <1>1, <1>2, <1>4, <1>5

\* A bar preserves the invariant.
LEMMA TickPreserves ==
  ASSUME IInv, Tick
  PROVE  IInv'
<1> DEFINE b == idx + 1
<1>1. TypeOK /\ \A i \in DOMAIN orders : orders[i] \in Order
  BY DEF IInv, TypeOK
<1>2. PICK d \in [DOMAIN orders -> Rejected..MaxQty] :
        /\ \A i \in DOMAIN orders : Possible(orders[i], b, d[i])
        /\ orders' = [i \in DOMAIN orders |-> AfterBar(orders[i], b, d[i])]
        /\ trades' = trades \cup
             {[order |-> i, bar |-> b, qty |-> d[i]] :
                i \in {j \in DOMAIN orders : Executes(d[j])}}
  BY <1>1, TickShape
<1>3. /\ b \in Bars /\ idx' = b /\ status' \in {"RUNNING", "FINISHED"}
      /\ DOMAIN orders' = DOMAIN orders
  BY <1>1, <1>2, TickShape
<1>4. /\ idx \in -1..LastBar /\ LastBar \in Nat
      /\ MinQty \in Int /\ MaxQty \in Nat
      /\ b \in Nat /\ b \in 0..LastBar
      /\ \A c \in Bars : TradingDate[c] \in Nat
  BY <1>1, <1>3, GridAssumption, InputAssumption DEF TypeOK, Bars
<1>5. ASSUME NEW i \in DOMAIN orders
      PROVE  /\ orders'[i] = AfterBar(orders[i], b, d[i])
             /\ orders'[i] \in Order
             /\ orders'[i].instr = orders[i].instr
             /\ orders'[i].tif = orders[i].tif
             /\ orders'[i].placed = orders[i].placed
             /\ StatusMatchesFill(orders'[i])
             /\ IsOpen(orders'[i]) \/ Executes(d[i]) => IsOpen(orders[i])
             /\ IsOpen(orders'[i]) \/ Executes(d[i]) =>
                  ~OnExpiringContract(orders[i], b)
             /\ EnforceHours /\ IsOpen(orders'[i]) =>
                  ~PastExpiry(orders'[i], b) /\ ~DayIsOver(orders'[i], b)
             /\ orders[i].date # NoDate => orders'[i].date = orders[i].date
             /\ orders'[i].date \in {orders[i].date, TradingDate[b]}
             /\ EnforceHours /\ Executes(d[i]) => orders'[i].date # NoDate
  <2>1. orders[i] \in Order /\ StatusMatchesFill(orders[i])
    BY <1>1 DEF IInv
  <2>2. Possible(orders[i], b, d[i]) /\ orders'[i] = AfterBar(orders[i], b, d[i])
    BY <1>2
  <2>3. Executes(d[i]) => d[i] # Wait
    BY <1>4 DEF Executes, Quantities, Wait
  <2> QED
    BY <2>1, <2>2, <2>3, <1>3, AfterBarFacts
<1>6. \A t \in trades : t.order \in DOMAIN orders /\ t.bar \in 0..idx
  BY <1>1 DEF TypeOK
\* Every trade afterwards is an old one or one of bar b.
<1>7. ASSUME NEW t \in trades', t \notin trades
      PROVE  /\ t \in [order : DOMAIN orders, bar : {b}, qty : Quantities]
             /\ Executes(d[t.order])
  <2>1. PICK i \in DOMAIN orders :
          Executes(d[i]) /\ t = [order |-> i, bar |-> b, qty |-> d[i]]
    BY <1>2, <1>7
  <2>2. d[i] \in Quantities
    BY <2>1 DEF Executes
  <2> QED
    BY <2>1, <2>2
<1>8. TypeOK'
  <2>1. orders' \in [DOMAIN orders' -> Order]
    BY <1>2, <1>3, <1>5
  <2>2. 0..idx \subseteq 0..b /\ b \in 0..b
    BY <1>4
  <2>3. trades' \subseteq [order : DOMAIN orders', bar : 0..idx', qty : Quantities]
    BY <1>1, <1>3, <1>7, <2>2 DEF TypeOK
  <2> QED
    BY <2>1, <2>3, <1>1, <1>3, <1>4 DEF TypeOK
<1>9. (\A i \in DOMAIN orders : StatusMatchesFill(orders[i]))'
  BY <1>3, <1>5
\* A stamp an open DAY order already had is today's date.
<1>10. ASSUME NEW i \in DOMAIN orders, EnforceHours, orders[i].tif = "DAY",
              IsOpen(orders[i]), orders'[i].date # NoDate
       PROVE  orders'[i].date = TradingDate[b]
  BY <1>10, <1>5 DEF IInv, DayOrdersHaveBarLeft
<1>11. DayOrdersHaveBarLeft'
  <2>1. ASSUME NEW i \in DOMAIN orders, EnforceHours, IsOpen(orders'[i]),
               orders'[i].tif = "DAY", orders'[i].date # NoDate
        PROVE  /\ b \in 0..(LastBar - 1)
               /\ TradingDate[b] = orders'[i].date
               /\ TradingDate[b + 1] = orders'[i].date
    <3>1. orders'[i].date = TradingDate[b]
      BY <2>1, <1>5, <1>10
    <3>2. ~LastOfDate(b)
      BY <2>1, <3>1, <1>5 DEF DayIsOver
    <3> QED
      BY <3>1, <3>2, <1>4 DEF LastOfDate
  <2> QED
    BY <2>1, <1>3 DEF DayOrdersHaveBarLeft
<1>12. TradesOnStampedDate'
  <2>1. ASSUME NEW t \in trades', EnforceHours, orders'[t.order].tif = "DAY"
        PROVE  TradingDate[t.bar] = orders'[t.order].date
    <3>1. CASE t \in trades
      <4>1. /\ t.order \in DOMAIN orders /\ orders[t.order].tif = "DAY"
            /\ TradingDate[t.bar] = orders[t.order].date
        BY <2>1, <3>1, <1>5, <1>6 DEF IInv, TradesOnStampedDate
      <4>2. TradingDate[t.bar] # NoDate
        BY <3>1, <1>4, <1>6 DEF Bars, NoDate
      <4> QED
        BY <4>1, <4>2, <1>5
    <3>2. CASE t \notin trades
      BY <2>1, <3>2, <1>5, <1>7, <1>10
    <3> QED
      BY <3>1, <3>2
  <2> QED
    BY <2>1 DEF TradesOnStampedDate
<1>13. ExpiredContractsNotWorked'
  <2>1. ASSUME NEW c \in 0..b, LastOfDate(c), NEW t \in trades', t.bar = c
        PROVE  ~OnExpiringContract(orders'[t.order], c)
    <3>1. CASE t \in trades
      <4>1. t.order \in DOMAIN orders /\ c \in 0..idx
        BY <2>1, <3>1, <1>6
      <4>2. ~OnExpiringContract(orders[t.order], c)
        BY <2>1, <3>1, <4>1 DEF IInv, ExpiredContractsNotWorked
      <4> QED
        BY <4>1, <4>2, <1>5 DEF OnExpiringContract
    <3>2. CASE t \notin trades
      BY <2>1, <3>2, <1>5, <1>7 DEF OnExpiringContract
    <3> QED
      BY <3>1, <3>2
  <2>2. ASSUME NEW c \in 0..b, LastOfDate(c), NEW i \in DOMAIN orders,
               IsOpen(orders'[i]), OnExpiringContract(orders'[i], c)
        PROVE  orders'[i].placed >= c
    <3>1. OnExpiringContract(orders[i], c) /\ IsOpen(orders[i])
      BY <2>2, <1>5 DEF OnExpiringContract
    <3>2. c # b
      BY <2>2, <3>1, <1>5
    <3>3. c \in 0..idx
      BY <3>2, <1>4
    <3> QED
      BY <2>2, <3>1, <3>3, <1>5 DEF IInv, ExpiredContractsNotWorked
  <2> QED
    BY <2>1, <2>2, <1>3 DEF ExpiredContractsNotWorked, LastOfDate,
                            OnExpiringContract
<1>14. GtdOrdersLapse'
  BY <1>3, <1>5 DEF GtdOrdersLapse, PastExpiry
<1> QED
  BY <1>8, <1>9, <1>11, <1>12, <1>13, <1>14 DEF IInv

-----------------------------------------------------------------------------
(* The theorems.                                                           *)

\* The strengthened invariant holds of every reachable state.
THEOREM Invariance == Spec => []IInv
<1>1. Init => IInv
  <2> SUFFICES ASSUME Init PROVE IInv
    OBVIOUS
  <2>1. DOMAIN orders = {} /\ trades = {} /\ idx = -1 /\ status = "RUNNING"
    BY DEF Init
  <2>2. TypeOK
    BY <2>1, GridAssumption DEF TypeOK, Init
  <2> QED
    BY <2>1, <2>2
       DEF IInv, DayOrdersHaveBarLeft, TradesOnStampedDate,
           ExpiredContractsNotWorked, GtdOrdersLapse
<1>2. IInv /\ [Next]_vars => IInv'
  <2> SUFFICES ASSUME IInv, [Next]_vars PROVE IInv'
    OBVIOUS
  <2>1. CASE Tick
    BY <2>1, TickPreserves
  <2>2. CASE \/ \E s \in Inputs : Place(s)
             \/ \E i \in DOMAIN orders : Cancel(i)
             \/ \E i \in DOMAIN orders, q \in Quantities : Modify(i, q)
             \/ \E i \in DOMAIN orders : ModifyRefused(i)
             \/ Stop
    BY <2>2, RequestShape, RequestPreserves DEF IInv
  <2>3. CASE UNCHANGED vars
    BY <2>3
       DEF vars, IInv, TypeOK, DayOrdersHaveBarLeft, TradesOnStampedDate,
           ExpiredContractsNotWorked, GtdOrdersLapse, LastOfDate,
           OnExpiringContract, PastExpiry, IsOpen, StatusMatchesFill
  <2> QED
    BY <2>1, <2>2, <2>3 DEF Next
<1> QED
  BY <1>1, <1>2, PTL DEF Spec

\* Every variable holds a value of its kind in every reachable state.
THEOREM TypeCorrectness == Spec => []TypeOK
BY Invariance, PTL DEF IInv

\* No DAY order is worked past the trading date it became eligible on.
THEOREM DayOrdersEndWithTheirDate == Spec => []DayOrdersHaveBarLeft
BY Invariance, PTL DEF IInv

\* The executions of a DAY order are all on one trading date.
THEOREM DayFillsNeverSpanDates == Spec => []DayFillsOnOneDate
<1>1. IInv => DayFillsOnOneDate
  BY DEF IInv, TradesOnStampedDate, DayFillsOnOneDate
<1> QED
  BY <1>1, Invariance, PTL

\* Orders on an option contract neither fill on its last bar nor outlive it.
THEOREM NoWorkOnExpiredContracts == Spec => []ExpiredContractsNotWorked
BY Invariance, PTL DEF IInv

\* An open GTD order is past its expiry only between two bars.
THEOREM GtdOrdersDoLapse == Spec => []GtdOrdersLapse
BY Invariance, PTL DEF IInv

-----------------------------------------------------------------------------
(* Executed quantities add up.                                             *)

\* The executions of an order.
FillsOf(i) == {u \in trades : u.order = i}

\* An order has finitely many executions, of its executed quantity.
FillsAddUp ==
  \A i \in DOMAIN orders :
    IsFiniteSet(FillsOf(i)) /\ orders[i].filled = QtyOf(FillsOf(i))

\* A request executes nothing.
LEMMA RequestFills ==
  ASSUME IInv, FillsAddUp, Request
  PROVE  FillsAddUp'
<1>1. trades' = trades /\ \A i : FillsOf(i)' = FillsOf(i)
  BY DEF Request, FillsOf
<1>2. ASSUME NEW i \in DOMAIN orders PROVE orders'[i].filled = orders[i].filled
  <2>1. orders[i] \in Order
    BY DEF IInv, TypeOK
  <2>2. Cancelled(orders[i]).filled = orders[i].filled
    BY <2>1 DEF Cancelled, Order
  <2> QED
    BY <2>2 DEF Request
<1>3. ASSUME NEW i \in DOMAIN orders' \ DOMAIN orders
      PROVE  FillsOf(i) = {} /\ orders'[i].filled = 0
  <2>1. \A t \in trades : t.order \in DOMAIN orders
    BY DEF IInv, TypeOK
  <2> QED
    BY <1>3, <2>1 DEF FillsOf, Request, NewOrder
<1> QED
  BY <1>1, <1>2, <1>3, NoQty, FS_EmptySet DEF FillsAddUp

\* A bar adds to an order what it executes of it, once.
LEMMA TickFills ==
  ASSUME IInv, FillsAddUp, Tick
  PROVE  FillsAddUp'
<1> DEFINE b == idx + 1
<1>1. TypeOK
  BY DEF IInv
<1>2. PICK d \in [DOMAIN orders -> Rejected..MaxQty] :
        /\ \A i \in DOMAIN orders : Possible(orders[i], b, d[i])
        /\ orders' = [i \in DOMAIN orders |-> AfterBar(orders[i], b, d[i])]
        /\ trades' = trades \cup
             {[order |-> i, bar |-> b, qty |-> d[i]] :
                i \in {j \in DOMAIN orders : Executes(d[j])}}
  BY <1>1, TickShape
<1>3. b \in Bars
  BY <1>1, TickShape
<1>4. \A t \in trades : t.order \in DOMAIN orders /\ t.bar \in 0..idx /\ t.qty \in Int
  BY <1>1, InputAssumption DEF TypeOK, Quantities
<1>5. idx \in Int /\ ~ (b \in 0..idx)
  BY <1>1, GridAssumption DEF TypeOK
<1>6. ASSUME NEW i \in DOMAIN orders
      PROVE  IsFiniteSet(FillsOf(i)') /\ orders'[i].filled = QtyOf(FillsOf(i)')
  <2> DEFINE n == [order |-> i, bar |-> b, qty |-> d[i]]
             F == FillsOf(i)
  <2>1. orders[i] \in Order /\ StatusMatchesFill(orders[i]) /\ Possible(orders[i], b, d[i])
    BY <1>1, <1>2 DEF IInv, TypeOK
  <2>2. orders'[i].filled = IF Executes(d[i]) THEN orders[i].filled + d[i] ELSE orders[i].filled
    BY <1>2, <1>3, <2>1, AfterBarFacts
  <2>3. IsFiniteSet(F) /\ orders[i].filled = QtyOf(F)
    BY DEF FillsAddUp
  <2>4. n \notin F /\ n.qty = d[i] /\ d[i] \in Int /\ \A t \in F : t.qty \in Int
    BY <1>2, <1>4, <1>5 DEF FillsOf, Rejected
  <2>5. trades' = trades \cup
          {[order |-> j, bar |-> b, qty |-> d[j]] : j \in {k \in DOMAIN orders : Executes(d[k])}}
    BY <1>2
  <2>6. CASE Executes(d[i])
    <3>1. FillsOf(i)' = F \cup {n}
      BY <2>5, <2>6 DEF FillsOf
    <3> HIDE DEF n, F
    <3>2. IsFiniteSet(F \cup {n}) /\ QtyOf(F \cup {n}) = QtyOf(F) + n.qty
      BY <2>3, <2>4, QtyGrows
    <3> QED
      BY <2>2, <2>3, <2>4, <2>6, <3>1, <3>2
  <2>7. CASE ~ (Executes(d[i]))
    <3>1. FillsOf(i)' = F
      BY <2>5, <2>7 DEF FillsOf
    <3> QED
      BY <2>2, <2>3, <2>7, <3>1
  <2> QED
    BY <2>6, <2>7
<1>7. DOMAIN orders' = DOMAIN orders
  BY <1>2
<1> QED
  BY <1>6, <1>7 DEF FillsAddUp

\* Executed quantity is accounted for: by the trades, and by the status.
THEOREM FillsAreAccountedFor == Spec => []FillAccounting
<1>1. Init => FillsAddUp
  BY DEF Init, FillsAddUp
<1>2. IInv /\ FillsAddUp /\ [Next]_vars => FillsAddUp'
  <2> SUFFICES ASSUME IInv, FillsAddUp, [Next]_vars PROVE FillsAddUp'
    OBVIOUS
  <2>1. CASE Tick
    BY <2>1, TickFills
  <2>2. CASE \/ \E s \in Inputs : Place(s)
             \/ \E i \in DOMAIN orders : Cancel(i)
             \/ \E i \in DOMAIN orders, q \in Quantities : Modify(i, q)
             \/ \E i \in DOMAIN orders : ModifyRefused(i)
             \/ Stop
    BY <2>2, RequestShape, RequestFills DEF IInv
  <2>3. CASE UNCHANGED vars
    BY <2>3 DEF vars, FillsAddUp, FillsOf
  <2> QED
    BY <2>1, <2>2, <2>3 DEF Next
<1>3. IInv /\ FillsAddUp => FillAccounting
  BY DEF IInv, FillsAddUp, FillsOf, QtyOf, FillAccounting, StatusMatchesFill
<1> QED
  BY <1>1, <1>2, <1>3, Invariance, PTL DEF Spec

-----------------------------------------------------------------------------
(* The refinement.                                                         *)

\* The session implements the promise of OrderPromise: initial states map to
\* initial states, every request and every bar to a step of the book.
THEOREM Implementation == Spec => KeepsPromise
<1> DEFINE Entry(o) ==
      [qty |-> o.qty, filled |-> o.filled,
       state |-> IF IsOpen(o) THEN "OPEN" ELSE o.status]
<1>1. Init => Promise!Init
  <2> SUFFICES ASSUME Init PROVE Book = [i \in {} |-> 0]
    BY DEF Promise!Init
  <2>1. DOMAIN orders = {}
    BY DEF Init
  <2> QED
    BY <2>1 DEF Book
<1>2. ASSUME IInv, NEW i \in DOMAIN orders
      PROVE  /\ orders[i] \in Order /\ Book[i] = Entry(orders[i])
             /\ StatusMatchesFill(orders[i])
  BY <1>2 DEF Book, IInv, TypeOK
<1>3. ASSUME NEW o \in Order
      PROVE  Entry(o) \in Promise!BookEntry
  BY <1>3 DEF Order, Quantities, Promise!BookEntry, Promise!Outcomes, IsOpen, Active,
              Terminal
<1>4. ASSUME NEW o \in Order, NEW n \in Order,
             StatusMatchesFill(o), StatusMatchesFill(n),
             ~IsOpen(o) => n = o, n.qty = o.qty,
             o.qty > 0 => n.filled >= o.filled
      PROVE  Promise!Evolves(Entry(o), Entry(n))
  <2>1. CASE ~IsOpen(o)
    BY <2>1, <1>4 DEF Promise!Evolves
  <2>2. CASE IsOpen(o)
    <3>1. /\ Entry(n).state = "FILLED" => n.filled = n.qty
          /\ n.filled = n.qty /\ n.qty # 0 => Entry(n).state = "FILLED"
      BY <1>4 DEF StatusMatchesFill, IsOpen, Active
    <3>2. n.filled \in Promise!Reachable(Entry(o))
      <4>1. /\ o.qty \in Int /\ o.filled \in Int /\ n.filled \in Int
            /\ o.status \in {"ACCEPTED", "PARTIALLY_FILLED"}
        BY <2>2 DEF Order, Quantities, IsOpen, Active
      <4>2. CASE o.qty > 0
        BY <4>1, <4>2, <1>4 DEF StatusMatchesFill, Promise!Reachable
      <4>3. CASE ~(o.qty > 0)
        BY <4>1, <4>3, <1>4 DEF StatusMatchesFill, Promise!Reachable
      <4> QED
        BY <4>2, <4>3
    <3> QED
      BY <2>2, <3>1, <3>2, <1>4 DEF Promise!Evolves
  <2> QED
    BY <2>1, <2>2
<1>5. ASSUME IInv, IInv', DOMAIN orders \subseteq DOMAIN orders',
             \A i \in DOMAIN orders :
               Promise!Evolves(Entry(orders[i]), Entry(orders'[i])),
             \A i, j \in DOMAIN orders' \ DOMAIN orders : i = j,
             \A i \in DOMAIN orders' \ DOMAIN orders : NewOrder(orders'[i])
      PROVE  Promise!Next
  <2>1. /\ DOMAIN orders' \in SUBSET OrderIds
        /\ \A i \in DOMAIN orders' : orders'[i] \in Order
    BY <1>5 DEF IInv, TypeOK
  <2>2. /\ Book' = [i \in DOMAIN orders' |-> Entry(orders'[i])]
        /\ Book = [i \in DOMAIN orders |-> Entry(orders[i])]
    BY DEF Book, IsOpen
  <2>3. Book' \in [DOMAIN orders' -> Promise!BookEntry]
    BY <2>1, <2>2, <1>3
  <2>4. \A i \in DOMAIN orders' \ DOMAIN orders : Promise!Fresh(Book'[i])
    BY <1>5, <2>2 DEF NewOrder, Promise!Fresh, IsOpen, Active
  <2>5. \A i \in DOMAIN Book : Promise!Evolves(Book[i], Book'[i])
    BY <1>5, <2>2
  <2> QED
    BY <1>5, <2>1, <2>2, <2>3, <2>4, <2>5 DEF Promise!Next
<1>6. ASSUME IInv, IInv', Request
      PROVE  Promise!Next
  <2>1. ASSUME NEW i \in DOMAIN orders
        PROVE  Promise!Evolves(Entry(orders[i]), Entry(orders'[i]))
    <3>1. orders[i] \in Order /\ StatusMatchesFill(orders[i])
      BY <1>2, <1>6
    <3>2. CASE orders'[i] = orders[i]
      BY <3>2 DEF Promise!Evolves
    <3>3. CASE IsOpen(orders[i]) /\ orders'[i] = Cancelled(orders[i])
      BY <3>1, <3>3, <1>4, CancelledFacts DEF Order, Quantities
    <3> QED
      BY <1>6, <3>2, <3>3 DEF Request
  <2> QED
    BY <1>5, <1>6, <2>1 DEF Request
<1>7. ASSUME IInv, IInv', Tick
      PROVE  Promise!Next
  <2>1. PICK d \in [DOMAIN orders -> Rejected..MaxQty] :
          /\ \A i \in DOMAIN orders : Possible(orders[i], idx + 1, d[i])
          /\ orders' = [i \in DOMAIN orders |->
                          AfterBar(orders[i], idx + 1, d[i])]
    BY <1>7, TickShape DEF IInv
  <2>2. idx + 1 \in Bars /\ DOMAIN orders' = DOMAIN orders
    BY <1>7, <2>1, TickShape DEF IInv
  <2>3. ASSUME NEW i \in DOMAIN orders
        PROVE  Promise!Evolves(Entry(orders[i]), Entry(orders'[i]))
    <3>1. orders[i] \in Order /\ StatusMatchesFill(orders[i])
      BY <1>2, <1>7
    <3>2. Possible(orders[i], idx + 1, d[i])
      BY <2>1
    <3>3. /\ orders'[i] \in Order /\ StatusMatchesFill(orders'[i])
          /\ orders'[i].qty = orders[i].qty
          /\ ~IsOpen(orders[i]) => orders'[i] = orders[i]
          /\ orders[i].qty > 0 => orders'[i].filled >= orders[i].filled
      BY <2>1, <2>2, <3>1, <3>2, AfterBarFacts
    <3> QED
      BY <3>1, <3>3, <1>4
  <2> QED
    BY <1>5, <1>7, <2>2, <2>3
<1>8. IInv /\ IInv' /\ [Next]_vars => [Promise!Next]_Book
  <2> SUFFICES ASSUME IInv, IInv', [Next]_vars PROVE [Promise!Next]_Book
    OBVIOUS
  <2>1. CASE Tick
    BY <2>1, <1>7
  <2>2. CASE \/ \E s \in Inputs : Place(s)
             \/ \E i \in DOMAIN orders : Cancel(i)
             \/ \E i \in DOMAIN orders, q \in Quantities : Modify(i, q)
             \/ \E i \in DOMAIN orders : ModifyRefused(i)
             \/ Stop
    BY <2>2, <1>6, RequestShape DEF IInv
  <2>3. CASE UNCHANGED vars
    BY <2>3 DEF vars, Book, IsOpen
  <2> QED
    BY <2>1, <2>2, <2>3 DEF Next
<1> QED
  BY <1>1, <1>8, Invariance, PTL DEF Spec, KeepsPromise, Promise!Spec
=============================================================================
