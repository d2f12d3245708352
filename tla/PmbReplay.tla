----------------------------- MODULE PmbReplay ------------------------------
(***************************************************************************)
(* Time travel of a PMB session (session_service.py): the action log of    *)
(* placed and cancelled orders, rewind by replaying that log from the      *)
(* first bar, and checkpoint/restore into a new session.                   *)
(*                                                                         *)
(* Bars and orders are those of PmbOrders, used through an instance.  The  *)
(* market is fixed and so is what it does to each order, up to the random  *)
(* stream that draws slippage: replaying a session meets the same bars.    *)
(***************************************************************************)
EXTENDS Integers, FiniteSets, FiniteSetsExt, SequencesExt

CONSTANTS
  LastBar, TradingDate, Segment, Instruments, Kind, Expiry, SpreadIds, Inputs,
  EnforceHours, MinQty, MaxQty, NoSpread,
  Clients,       \* the client_order_ids agents use
  NoClient,      \* a request without client_order_id
  Liquidity,     \* instrument -> bar -> what matching decides for its orders:
                 \* to wait, to reject, or how much it executes at most
  LoadedFirst,   \* instruments in the market cache when the session starts
  Streams,       \* slippage streams an engine may get: one when it is seeded
  MaxOrders,     \* bound on the live orders of the session
  MaxLog,        \* bound on the length of the action log
  MaxDetours     \* bound on unlogged requests, restores and stops together

VARIABLES
  idx, status, orders,
  tag,       \* order id -> its client_order_id and session_id
  fills,     \* the executions, each with the stream that drew its slippage
  log,       \* action_log
  loaded,    \* instruments in the market cache
  stream,    \* the random stream of the execution engine
  sid,       \* the session the client works in
  past,      \* history: the session as the clock left each bar
  unlogged   \* history: how many requests the action log does not record

vars == <<idx, status, orders, tag, fills, log, loaded, stream, sid, past,
          unlogged>>

Orders == INSTANCE PmbOrders WITH
  OrderIds <- Nat \ {0},
  trades <- {[order |-> f.order, bar |-> f.bar, qty |-> f.qty] : f \in fills}

\* The assumptions of PmbOrders, and those on what a replay adds.
ASSUME BookAssumption ==
  /\ LastBar \in Nat
  /\ TradingDate \in [0..LastBar -> Nat]
  /\ Segment \in [0..LastBar -> Orders!Segments]
  /\ Kind \in [Instruments -> Orders!Kinds]
  /\ Expiry \in [Instruments -> Int]
  /\ EnforceHours \in BOOLEAN
  /\ MinQty \in Int /\ MinQty <= 0
  /\ MaxQty \in Nat \ {0}
  /\ Inputs \subseteq Orders!OrderSpec
ASSUME ReplayAssumption ==
  /\ Liquidity \in [Instruments ->
                     [0..LastBar -> {Orders!Wait, Orders!Rejected} \cup 1..MaxQty]]
  /\ LoadedFirst \subseteq Instruments
  /\ Streams # {}
  /\ \A s \in Inputs : s.spread = NoSpread
  /\ MaxOrders \in Nat /\ MaxLog \in Nat /\ MaxDetours \in Nat

Indices == -1..LastBar

\* A book is the part of a session that a replay rebuilds; live maps the order
\* ids of the log to the ids the orders have now (rewind's id_map).
Book == [orders |-> orders, tag |-> tag, fills |-> fills,
         live |-> [i \in {} |-> 0]]

\* Mutant: the order manager survives the reset.
OldBook == Book

\* SessionService._reset_state: new order manager, engine and history.
EmptyBook == [orders |-> [i \in {} |-> 0], tag |-> [i \in {} |-> 0],
              fills |-> {}, live |-> [i \in {} |-> 0]]

\* What a session looks like with its order ids left out.
ViewOf(book) ==
  LET About(i) ==
        [order |-> book.orders[i], client |-> book.tag[i].client,
         fills |-> {<<f.bar, f.qty, f.stream>> :
                      f \in {g \in book.fills : g.order = i}}]
      all == {About(i) : i \in DOMAIN book.orders}
  IN  [a \in all |-> Cardinality({i \in DOMAIN book.orders : About(i) = a})]

View == ViewOf(Book)

-----------------------------------------------------------------------------
(* Orders and bars of a book.                                              *)

\* A fresh id for an order (uuid4): one that nothing refers to.
FreshId(taken) == Min(1..(Cardinality(taken) + 1) \ taken)

\* The order a client already placed under client id c.
PlacedBy(book, c) == {i \in DOMAIN book.orders : c # NoClient /\ book.tag[i].client = c}

\* OrderManager.submit of a new order, then accept.
Submitted(book, i, s, c, session, at) ==
  [book EXCEPT
     !.orders = [j \in DOMAIN @ \cup {i} |->
                   IF j = i THEN Orders!Accepted(s, at) ELSE @[j]],
     !.tag = [j \in DOMAIN @ \cup {i} |->
                IF j = i THEN [client |-> c, session |-> session] ELSE @[j]]]

\* What an order with so much remaining gets where matching decided l.
Share(l, remaining) == IF l \in 1..MaxQty THEN Min({l, remaining}) ELSE l

\* What the market does at bar b to order o, given the instruments loaded.
Decision(o, b) ==
  LET r == Orders!Ready(o, b) IN
  IF Orders!Eligible(r, b) /\ r.instr \in loaded
  THEN Share(Liquidity[r.instr][b], Orders!Remaining(r))
  ELSE Orders!Wait

\* _process_tick: one bar for every order of the book.
AtBar(book, b, rng) ==
  [book EXCEPT
     !.orders = [i \in DOMAIN @ |->
                   Orders!AfterBar(@[i], b, Decision(@[i], b))],
     !.fills = @ \cup
       {[order |-> i, bar |-> b, qty |-> Decision(book.orders[i], b),
         stream |-> rng] :
          i \in {j \in DOMAIN book.orders :
                   Orders!Executes(Decision(book.orders[j], b))}}]

Status(b) == IF b = LastBar THEN "FINISHED" ELSE "RUNNING"

-----------------------------------------------------------------------------
(* Requests.                                                               *)

Becomes(book) ==
  orders' = book.orders /\ tag' = book.tag /\ fills' = book.fills

Entry(kind, i, s, c) ==
  [kind |-> kind, index |-> idx, id |-> i, spec |-> s, client |-> c,
   session |-> sid]

LoggedIds == {log[k].id : k \in DOMAIN log}

Room == Cardinality(DOMAIN orders) < MaxOrders /\ Len(log) < MaxLog

Detours == unlogged + sid - 1 + (IF status = "STOPPED" THEN 1 ELSE 0)

\* SessionService.step for one bar.
Tick ==
  /\ status = "RUNNING" /\ idx < LastBar
  /\ Becomes(AtBar(Book, idx + 1, stream))
  /\ idx' = idx + 1 /\ status' = Status(idx + 1)
  /\ past' = [past EXCEPT ![idx] = View]
  /\ UNCHANGED <<log, loaded, stream, sid, unlogged>>

\* Mutant: a retried request is taken for a new order.
PlaceAgain(s, c) ==
  /\ Orders!Valid(s) /\ Room
  /\ LET i == FreshId(DOMAIN orders \cup LoggedIds) IN
     /\ Becomes(Submitted(Book, i, s, c, sid, idx))
     /\ log' = Append(log, Entry("place", i, s, c))
  /\ UNCHANGED <<idx, status, loaded, stream, sid, past, unlogged>>

\* OrderService.place_order: a client id seen before returns the order it
\* placed and is not logged.
Place(s, c) ==
  /\ Orders!Valid(s) /\ Room
  /\ PlacedBy(Book, c) = {}
  /\ LET i == FreshId(DOMAIN orders \cup LoggedIds) IN
     /\ Becomes(Submitted(Book, i, s, c, sid, idx))
     /\ log' = Append(log, Entry("place", i, s, c))
  /\ UNCHANGED <<idx, status, loaded, stream, sid, past, unlogged>>

\* OrderService.cancel_order
Cancel(i) ==
  /\ Orders!IsOpen(orders[i]) /\ Len(log) < MaxLog
  /\ orders' = [orders EXCEPT ![i] = Orders!Cancelled(@)]
  /\ log' = Append(log, Entry("cancel", i, 0, NoClient))
  /\ UNCHANGED <<idx, status, tag, fills, loaded, stream, sid, past, unlogged>>

\* OrderService.modify_order: cancels and submits without logging either.
Modify(i, q) ==
  /\ Orders!IsOpen(orders[i]) /\ Room /\ Detours < MaxDetours
  /\ LET n == FreshId(DOMAIN orders \cup LoggedIds) IN
     Becomes(Submitted([Book EXCEPT !.orders[i] = Orders!Cancelled(@)], n,
                       Orders!ModifiedSpec(orders[i], q), NoClient,
                       tag[i].session, idx))
  /\ unlogged' = unlogged + 1
  /\ UNCHANGED <<idx, status, log, loaded, stream, sid, past>>

\* modify_order with a value OrderSpec refuses: it raises after the cancel,
\* which is not logged either.
ModifyRefused(i) ==
  /\ Orders!IsOpen(orders[i]) /\ Detours < MaxDetours
  /\ orders' = [orders EXCEPT ![i] = Orders!Cancelled(@)]
  /\ unlogged' = unlogged + 1
  /\ UNCHANGED <<idx, status, tag, fills, log, loaded, stream, sid, past>>

\* add_stocks, add_option_contracts, add_futures: once the bars have arrived
\* they are in the cache, at the earlier bars of the session too.
Load(instr) ==
  /\ instr \notin loaded /\ Detours < MaxDetours
  /\ loaded' = loaded \cup {instr}
  /\ unlogged' = unlogged + 1
  /\ UNCHANGED <<idx, status, orders, tag, fills, log, stream, sid, past>>

Stop ==
  /\ status # "STOPPED" /\ Detours < MaxDetours
  /\ status' = "STOPPED"
  /\ UNCHANGED <<idx, orders, tag, fills, log, loaded, stream, sid, past,
                 unlogged>>

-----------------------------------------------------------------------------
(* Rewind.                                                                 *)

\* Mutant: an id the replay did not meet is mapped to nothing.
LiveOrNone(book, i) == IF i \in DOMAIN book.live THEN book.live[i] ELSE 0

\* The id an order of the log has in a replayed book.
Live(book, i) == IF i \in DOMAIN book.live THEN book.live[i] ELSE i

\* _apply_action: re-applies one logged action with the clock at its index.
ApplyAction(book, a) ==
  IF a.kind = "place" THEN
    LET seen == PlacedBy(book, a.client)
        i == IF seen # {} THEN Min(seen)
             ELSE FreshId(DOMAIN orders \cup LoggedIds \cup DOMAIN book.orders)
        mapped == [book EXCEPT !.live = [j \in DOMAIN @ \cup {a.id} |->
                                           IF j = a.id THEN i ELSE @[j]]]
    IN  CASE ~Orders!Valid(a.spec) -> book
          [] Orders!Valid(a.spec) /\ seen # {} -> mapped
          [] OTHER -> Submitted(mapped, i, a.spec, a.client, a.session, a.index)
  ELSE
    LET i == Live(book, a.id) IN
    IF i \in DOMAIN book.orders /\ Orders!IsOpen(book.orders[i])
    THEN [book EXCEPT !.orders[i] = Orders!Cancelled(@)]
    ELSE book

\* The actions taken at the given bars, in their order.
TakenAt(actions, bars) ==
  FoldLeft(LAMBDA kept, a : IF a.index \in bars THEN Append(kept, a) ELSE kept,
           <<>>, actions)

\* Mutant: actions taken while the clock was at the target bar are dropped.
KeptBefore(t) == TakenAt(log, -1..(t - 1))

\* Mutant: the log is not cut.
KeptAll(t) == log

\* The actions a rewind to index t keeps.
Kept(t) == TakenAt(log, -1..t)

\* A book after a sequence of logged actions.
Applied(book, actions) == FoldLeft(ApplyAction, book, actions)

\* The books of the replay after each bar up to t and the actions at it.
Replay(t, rng) ==
  LET kept == Kept(t)
      book[b \in -1..t] ==
        Applied(IF b = -1 THEN EmptyBook ELSE AtBar(book[b - 1], b, rng),
                TakenAt(kept, {b}))
  IN  book

\* Mutant: the log keeps the ids the orders had before the replay.
LogUnmapped(t, book) == Kept(t)

\* The restored log, with the ids of the replayed orders.
Relogged(t, book) ==
  LET kept == Kept(t) IN
  [k \in DOMAIN kept |-> [kept[k] EXCEPT !.id = Live(book, @)]]

\* SessionService.rewind to the last bar at or before the target time (-1 if
\* there is none), which may also lie ahead of the clock.
Rewind(t) ==
  \E rng \in Streams :
    LET replay == Replay(t, rng) IN
    /\ idx' = t /\ status' = Status(t) /\ stream' = rng
    /\ UNCHANGED <<loaded, sid, unlogged>>
    /\ Becomes(replay[t])
    /\ log' = Relogged(t, replay[t])
    /\ past' = [b \in Indices |->
                  CASE b < t /\ b < idx  -> past[b]
                    [] b < t /\ b >= idx -> ViewOf(replay[b])
                    [] OTHER             -> EmptyBag]

\* export_checkpoint and restore_checkpoint: the client goes on in a new
\* session, whose orders get its id while the requests in its log do not.
Branch ==
  /\ Detours < MaxDetours
  /\ sid' = sid + 1
  /\ tag' = [i \in DOMAIN tag |-> [tag[i] EXCEPT !.session = sid + 1]]
  /\ status' = Status(idx)
  /\ UNCHANGED <<idx, orders, fills, log, loaded, stream, past, unlogged>>

Init ==
  /\ idx = -1 /\ status = "RUNNING" /\ sid = 1
  /\ orders = [i \in {} |-> 0] /\ tag = [i \in {} |-> 0] /\ fills = {}
  /\ log = <<>> /\ loaded = LoadedFirst /\ stream \in Streams
  /\ past = [b \in Indices |-> EmptyBag] /\ unlogged = 0

Next ==
  \/ Tick
  \/ \E s \in Inputs, c \in Clients \cup {NoClient} : Place(s, c)
  \/ \E i \in DOMAIN orders : Cancel(i)
  \/ \E i \in DOMAIN orders, q \in Orders!Quantities : Modify(i, q)
  \/ \E i \in DOMAIN orders : ModifyRefused(i)
  \/ \E instr \in Instruments : Load(instr)
  \/ Stop
  \/ \E t \in Indices : Rewind(t)
  \/ Branch

Spec == Init /\ [][Next]_vars

-----------------------------------------------------------------------------
(* Properties.                                                             *)

\* Every variable holds a value of its kind.
TypeOK ==
  /\ idx \in Indices /\ status \in {"RUNNING", "STOPPED", "FINISHED"}
  /\ orders \in [DOMAIN orders -> Orders!Order] /\ DOMAIN orders \subseteq Nat \ {0}
  /\ tag \in [DOMAIN orders ->
               [client : Clients \cup {NoClient}, session : 1..(MaxDetours + 1)]]
  /\ fills \subseteq [order : DOMAIN orders, bar : 0..idx,
                     qty : Orders!Quantities, stream : Streams]
  /\ \A k \in DOMAIN log : log[k].id \in Nat \ {0} /\ log[k].session \in 1..sid
  /\ loaded \subseteq Instruments /\ stream \in Streams /\ sid \in 1..(MaxDetours + 1)
  /\ unlogged \in 0..MaxDetours

\* The logged actions are in the order of the bars they were taken at, none
\* of them ahead of the clock, also after a rewind cut the log.
LogIsChronological ==
  \A j, k \in DOMAIN log :
    log[k].index <= idx /\ (j < k => log[j].index <= log[k].index)

\* "Order ids are remapped so the restored log always references live ids":
\* as long as everything that happened is logged, each order has one entry
\* that places it, at the bar and for the client it was placed, and an entry
\* that cancels names a cancelled order.
LogMatchesOrders ==
  unlogged = 0 =>
    LET placed == {k \in DOMAIN log : log[k].kind = "place"} IN
    /\ {log[k].id : k \in placed} = DOMAIN orders
    /\ Cardinality(placed) = Cardinality(DOMAIN orders)
    /\ \A k \in placed : /\ orders[log[k].id].placed = log[k].index
                         /\ tag[log[k].id].client = log[k].client
    /\ \A k \in DOMAIN log \ placed : /\ log[k].id \in DOMAIN orders
                                     /\ orders[log[k].id].status = "CANCELLED"

\* A client_order_id names one order of the session, whatever was retried and
\* rewound.
RetriesPlaceOneOrder ==
  \A i, j \in DOMAIN orders :
    i # j => tag[i].client # tag[j].client \/ tag[i].client = NoClient

\* The invariants of the order book survive time travel: replayed DAY and GTD
\* orders still lapse, replayed fills still add up (PmbOrders).
OrdersStaySound ==
  /\ Orders!DayOrdersHaveBarLeft /\ Orders!ExpiredContractsNotWorked
  /\ Orders!GtdOrdersLapse /\ Orders!FillAccounting

\* Rewinding to a bar brings the session back to what it was when the clock
\* left that bar, or, for the current bar, changes nothing, except order ids.
RestoresThePast ==
  /\ idx' < idx => View' = past[idx']
  /\ Rewind(idx) => View' = View

\* "Rewind undoes every action placed after the target": holds of a seeded
\* session in which everything that happened is in the action log.
RewindRestoresThePast ==
  [][Streams = {stream} /\ unlogged = 0 => RestoresThePast]_vars

\* "Deterministic replay": rewinding restores the past of any session.
RewindIsDeterministic == [][RestoresThePast]_vars
=============================================================================
