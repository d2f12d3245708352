--------------------------- MODULE ChatRunsProofs ---------------------------
(***************************************************************************)
(* Proofs about ChatRuns for any number of threads, turns and compactions: *)
(* what a summary stands for, what the model gets, what is stored, and     *)
(* that the history implements Conversation.                               *)
(***************************************************************************)
EXTENDS ChatRuns, FiniteSetTheorems, TLAPS

Live(t) == threads[t].state = "live"

\* Summary s stands for the first messages of thread t, and knows which.
Good(s, t) == s.through <= Len(log[t]) /\ s.covers = 1..s.through

\* How a turn was asked to stop, and what its task knows of it.
StopOK(x) ==
  /\ x.pc = "scheduled" => (x.cancel <=> x.stop = "early") /\ x.stop \in {"no", "early"}
  /\ x.pc \in InTry => (x.cancel <=> x.stop = "in try") /\ x.stop \in {"no", "in try"}
  /\ x.pc = "closing" => /\ x.cancel <=> x.stop = "late"
                         /\ ~x.cancel => (x.status = "interrupted" <=> x.stop = "in try")
                         /\ x.stop # "early"

\* A turn at work is the only one of its thread, its question is the last
\* message, and what it read of the thread before an await still holds.
WorkOK(r) ==
  LET t == turn[r].thread IN
  /\ RUNS[t] = r
  /\ Len(log[t]) > 0 /\ log[t][Len(log[t])] = Question(r)
  /\ turn[r].pc \in {"scheduled", "compacting"} => Good(turn[r].summary, t)
  /\ turn[r].pc = "compacting" => turn[r].cut \in (turn[r].summary.through + 1)..Len(log[t])
  /\ turn[r].pc = "answering" => turn[r].seen = 1..Len(log[t])

\* The answer of a turn that ended is there, unless the stop or a restart took it.
EndOK(r) ==
  LET t == turn[r].thread IN
  r \notin restarted /\ turn[r].stop \in {"no", "in try"} =>
    /\ RUNS[t] # r
    /\ \E i \in 1..Len(log[t]) :
         /\ log[t][i].turn = r /\ log[t][i].role = "assistant"
         /\ log[t][i].status = "interrupted" <=> turn[r].stop = "in try"

TurnInv(r) ==
  turn[r].pc # "idle" =>
    /\ turn[r].thread \in Threads /\ threads[turn[r].thread].state # "new"
    /\ StopOK(turn[r])
    /\ Live(turn[r].thread) => IF turn[r].pc = "over" THEN EndOK(r) ELSE WorkOK(r)

ThreadInv(t) ==
  /\ threads[t].state = "new" => log[t] = <<>> /\ threads[t].summary = NoSummary
  /\ Live(t) => Good(threads[t].summary, t)
  /\ \A i \in 1..Len(log[t]) : turn[log[t][i].turn].pc # "idle"

CompactInv(k) ==
  compact[k].pc = "waiting" =>
    /\ compact[k].thread \in Threads /\ threads[compact[k].thread].state # "new"
    /\ Live(compact[k].thread) => Good(compact[k].summary, compact[k].thread)

\* Turns are started in the order of their ids.
CountInv == \E n \in 0..MaxTurns : Started = 1..n

\* The inductive invariant.
Inv ==
  /\ TypeOK
  /\ CountInv
  /\ \A r \in Turns : TurnInv(r)
  /\ \A t \in Threads : ThreadInv(t)
  /\ \A k \in Compactions : CompactInv(k)

-----------------------------------------------------------------------------
(* Lemmas about the data.                                                  *)

\* The types of one turn and one thread.
LEMMA Types ==
  ASSUME TypeOK
  PROVE  /\ \A r \in Turns : turn[r] \in TurnRecords /\ turn[r].summary \in Summaries
         /\ \A t \in Threads : /\ log[t] \in Seq(Messages) /\ Len(log[t]) \in Nat
                               /\ threads[t].summary \in Summaries
                               /\ threads[t].state \in {"new", "live", "gone"}
         /\ \A k \in Compactions : compact[k].summary \in Summaries
         /\ Turns \subseteq Nat
<1>1. \A r \in Turns : turn[r] \in TurnRecords /\ turn[r].summary \in Summaries
  BY DEF TypeOK, TurnRecords
<1>2. ASSUME NEW t \in Threads
      PROVE  /\ log[t] \in Seq(Messages) /\ Len(log[t]) \in Nat
             /\ threads[t].summary \in Summaries
             /\ threads[t].state \in {"new", "live", "gone"}
  <2>1. threads[t] \in [state : {"new", "live", "gone"}, summary : Summaries]
    BY DEF TypeOK
  <2>2. log[t] \in Seq(Messages)
    BY DEF TypeOK
  <2> QED
    BY <2>1, <2>2
<1>3. \A k \in Compactions : compact[k].summary \in Summaries
  BY DEF TypeOK
<1>4. Turns \subseteq Nat
  BY BoundAssumption DEF Turns
<1> QED
  BY <1>1, <1>2, <1>3, <1>4

\* A message is added to a history.
LEMMA AppendFacts ==
  ASSUME NEW q \in Seq(Messages), NEW m \in Messages
  PROVE  /\ Append(q, m) \in Seq(Messages) /\ Len(q) \in Nat
         /\ Len(Append(q, m)) = Len(q) + 1 /\ Append(q, m)[Len(q) + 1] = m
         /\ \A i \in 1..Len(q) : Append(q, m)[i] = q[i] /\ i \in 1..(Len(q) + 1)
         /\ \A i \in 1..(Len(q) + 1) : i = Len(q) + 1 \/ i \in 1..Len(q)
         /\ Len(q) + 1 \in 1..(Len(q) + 1) /\ Len(q) <= Len(q) + 1 /\ Len(q) + 1 \in Nat
OBVIOUS

\* The turns of a message and of a history.
LEMMA SeqTurns ==
  ASSUME NEW q \in Seq(Messages), NEW i \in 1..Len(q)
  PROVE  q[i].turn \in Turns
<1>1. PICK m \in Messages : m = q[i]
  OBVIOUS
<1>2. m.turn \in Turns
  BY DEF Messages
<1> QED
  BY <1>1, <1>2

\* ... and of the history of a thread.
LEMMA MessageTurns ==
  ASSUME TypeOK, NEW t \in Threads, NEW i \in 1..Len(log[t])
  PROVE  log[t][i].turn \in Turns
<1>1. log[t] \in Seq(Messages)
  BY Types
<1> QED
  BY <1>1, SeqTurns

\* A summary that stands for a prefix still does when messages are added.
LEMMA GoodGrows ==
  ASSUME NEW s \in Summaries, NEW t \in Threads, Good(s, t),
         Len(log[t]) \in Nat, Len(log'[t]) \in Nat, Len(log[t]) <= Len(log'[t])
  PROVE  s.through <= Len(log'[t]) /\ s.covers = 1..s.through
BY DEF Good, Summaries

\* Folding the messages up to a cut into a summary of the messages before.
LEMMA FoldGood ==
  ASSUME NEW s \in Summaries, NEW t \in Threads, Good(s, t), Len(log[t]) \in Nat,
         NEW cut \in (s.through + 1)..Len(log[t])
  PROVE  Fold(s, cut) \in Summaries /\ Good(Fold(s, cut), t)
<1>1. s.through \in Nat /\ cut \in Nat /\ cut > s.through /\ cut <= Len(log[t])
  BY DEF Summaries
<1>2. s.covers = 1..s.through
  BY DEF Good
<1>3. 1..s.through \cup (s.through + 1)..cut = 1..cut
  BY <1>1
<1>4. Fold(s, cut) = [through |-> cut, covers |-> 1..cut]
  BY <1>2, <1>3 DEF Fold
<1>5. 1..cut \in SUBSET Nat
  BY <1>1
<1> QED
  BY <1>1, <1>4, <1>5 DEF Summaries, Good

\* The context made with such a summary is the whole history.
LEMMA ContextWhole ==
  ASSUME NEW s \in Summaries, NEW t \in Threads, Good(s, t), Len(log[t]) \in Nat
  PROVE  ContextOf(t, s) = 1..Len(log[t])
<1>1. s.through \in Nat /\ s.through <= Len(log[t]) /\ s.covers = 1..s.through
  BY DEF Good, Summaries
<1> QED
  BY <1>1 DEF ContextOf

\* The id the next turn gets is of a turn that has not started.
LEMMA NextTurn ==
  ASSUME CountInv
  PROVE  Cardinality(Started) \in Nat /\ Started = 1..Cardinality(Started)
<1>1. PICK n \in 0..MaxTurns : Started = 1..n
  BY DEF CountInv
<1>2. n \in Nat
  BY BoundAssumption
<1>3. Cardinality(1..n) = n
  BY <1>2, FS_Interval
<1> QED
  BY <1>1, <1>2, <1>3

\* The invariant holds at the start.
LEMMA InitInv == Init => Inv
<1> SUFFICES ASSUME Init PROVE Inv
  OBVIOUS
<1> USE DEF Init
<1>1. NotAsked \in TurnRecords /\ NoSummary \in Summaries
  BY DEF NotAsked, TurnRecords, NoSummary, Summaries, Statuses, Pcs
<1>2. TypeOK
  BY <1>1 DEF TypeOK
<1>3. \A r \in Turns : turn[r].pc = "idle"
  BY DEF NotAsked
<1>4. CountInv
  <2>1. Started = 1..0
    BY <1>3 DEF Started
  <2> QED
    BY <2>1, BoundAssumption DEF CountInv
<1>5. \A r \in Turns : TurnInv(r)
  BY <1>3 DEF TurnInv
<1>6. \A t \in Threads : ThreadInv(t)
  BY DEF ThreadInv, Live
<1>7. \A k \in Compactions : CompactInv(k)
  BY DEF CompactInv
<1> QED
  BY <1>2, <1>4, <1>5, <1>6, <1>7 DEF Inv

-----------------------------------------------------------------------------
(* The task of a turn.                                                     *)

\* What a step that adds message m to thread t makes of the histories.
Appended(t, m) ==
  /\ log' \in [Threads -> Seq(Messages)]
  /\ \A z \in Threads \ {t} : log'[z] = log[z]
  /\ Len(log[t]) \in Nat /\ Len(log'[t]) \in Nat /\ Len(log'[t]) = Len(log[t]) + 1
  /\ Len(log'[t]) \in 1..Len(log'[t]) /\ log'[t][Len(log'[t])] = m
  /\ \A i \in 1..Len(log[t]) : i \in 1..Len(log'[t]) /\ log'[t][i] = log[t][i]
  /\ \A i \in 1..Len(log'[t]) : i = Len(log'[t]) \/ i \in 1..Len(log[t])

\* A message that is added to the log of a thread.
LEMMA LogAppended ==
  ASSUME TypeOK, NEW t \in Threads, NEW m \in Messages, log' = [log EXCEPT ![t] = Append(log[t], m)]
  PROVE  Appended(t, m)
<1>1. log \in [Threads -> Seq(Messages)]
  BY DEF TypeOK
<1>2. PICK q \in Seq(Messages) : q = log[t]
  BY <1>1
<1>3. Append(q, m) \in Seq(Messages)
  BY AppendFacts
<1>4. log'[t] = Append(q, m) /\ log' \in [Threads -> Seq(Messages)]
  BY <1>1, <1>2, <1>3
<1>5. \A z \in Threads \ {t} : log'[z] = log[z]
  BY <1>1
<1>6. /\ Len(q) \in Nat /\ Len(Append(q, m)) \in Nat /\ Len(Append(q, m)) = Len(q) + 1
      /\ Len(Append(q, m)) \in 1..Len(Append(q, m)) /\ Append(q, m)[Len(Append(q, m))] = m
      /\ \A i \in 1..Len(q) : i \in 1..Len(Append(q, m)) /\ Append(q, m)[i] = q[i]
      /\ \A i \in 1..Len(Append(q, m)) : i = Len(Append(q, m)) \/ i \in 1..Len(q)
  BY AppendFacts
<1> QED
  BY <1>2, <1>4, <1>5, <1>6 DEF Appended

\* A summary of any thread stays good.
LEMMA GoodStays ==
  ASSUME TypeOK, NEW t \in Threads, NEW m, Appended(t, m), NEW z \in Threads,
         NEW s \in Summaries, Good(s, z)
  PROVE  s.through <= Len(log'[z]) /\ s.covers = 1..s.through
<1>1. Len(log[z]) \in Nat /\ Len(log'[z]) \in Nat /\ Len(log[z]) <= Len(log'[z])
  <2>1. Len(log[z]) \in Nat
    BY Types
  <2>2. CASE z = t
    BY <2>2 DEF Appended
  <2>3. CASE z # t
    BY <2>1, <2>3 DEF Appended
  <2> QED
    BY <2>2, <2>3
<1> QED
  BY <1>1, GoodGrows

\* The answer of a turn that ended stays where it is.
LEMMA EndStays ==
  ASSUME NEW q \in Turns, NEW m, Appended(turn[q].thread, m), turn'[q] = turn[q],
         UNCHANGED restarted, RUNS'[turn[q].thread] # q, EndOK(q)
  PROVE  EndOK(q)'
BY ZenonT(40) DEF EndOK, Appended

\* A thread whose history gets a message of a turn that has started.
LEMMA ThreadStays ==
  ASSUME Inv, NEW t \in Threads, NEW m \in Messages, Appended(t, m), NEW z \in Threads,
         \A q \in Turns : turn[q].pc # "idle" => turn'[q].pc # "idle",
         turn'[m.turn].pc # "idle", threads'[t].state # "new",
         threads'[z].summary = threads[z].summary,
         z = t \/ threads'[z].state = threads[z].state,
         threads[t].state # "gone"
  PROVE  ThreadInv(z)'
<1>1. ThreadInv(z)
  BY DEF Inv
<1>2. \A i \in 1..Len(log[z]) : log[z][i].turn \in Turns
  BY MessageTurns DEF Inv
<1>3. Good(threads[z].summary, z) => Good(threads[z].summary, z)'
  <2>1. threads[z].summary \in Summaries
    BY Types DEF Inv
  <2> SUFFICES ASSUME Good(threads[z].summary, z)
               PROVE  Good(threads[z].summary, z)'
    OBVIOUS
  <2>2. /\ threads[z].summary.through <= Len(log'[z])
        /\ threads[z].summary.covers = 1..threads[z].summary.through
    BY <2>1, GoodStays DEF Inv
  <2> QED
    BY <2>2 DEF Good
<1>4. CASE z # t
  <2>1. log'[z] = log[z] /\ threads'[z].state = threads[z].state
    BY <1>4 DEF Appended
  <2>2. \A i \in 1..Len(log'[z]) : turn'[log'[z][i].turn].pc # "idle"
    BY <1>1, <1>2, <2>1 DEF ThreadInv
  <2> QED
    BY <1>1, <1>3, <2>1, <2>2 DEF ThreadInv, Live
<1>5. CASE z = t
  <2>1. Good(threads[t].summary, t)
    <3>1. CASE threads[t].state = "new"
      <4>1. threads[t].summary = NoSummary /\ Len(log[t]) \in Nat
        BY <1>1, <1>5, <3>1 DEF ThreadInv, Appended
      <4> QED
        BY <4>1 DEF Good, NoSummary
    <3>2. CASE threads[t].state = "live"
      BY <1>1, <1>5, <3>2 DEF ThreadInv, Live
    <3> QED
      BY <3>1, <3>2, Types DEF Inv
  <2>2. \A i \in 1..Len(log'[t]) : turn'[log'[t][i].turn].pc # "idle"
    BY <1>1, <1>2, <1>5 DEF ThreadInv, Appended
  <2> QED
    BY <1>3, <1>5, <2>1, <2>2 DEF ThreadInv, Live, Good
<1> QED
  BY <1>4, <1>5

\* A compact request that waits while a thread gets a message.
LEMMA CompactStays ==
  ASSUME Inv, NEW t \in Threads, NEW m, Appended(t, m), NEW k \in Compactions,
         UNCHANGED compact,
         \A z \in Threads : threads[z].state # "new" => threads'[z].state = threads[z].state
  PROVE  CompactInv(k)'
<1>1. CompactInv(k) /\ compact[k].summary \in Summaries
  BY Types DEF Inv
<1> SUFFICES ASSUME compact[k].pc = "waiting"
             PROVE  /\ compact[k].thread \in Threads /\ threads'[compact[k].thread].state # "new"
                    /\ Live(compact[k].thread)' => Good(compact[k].summary, compact[k].thread)'
  BY DEF CompactInv
<1>2. /\ compact[k].thread \in Threads
      /\ threads'[compact[k].thread].state = threads[compact[k].thread].state
      /\ threads[compact[k].thread].state # "new"
  BY <1>1 DEF CompactInv
<1>3. ASSUME Live(compact[k].thread)
      PROVE  Good(compact[k].summary, compact[k].thread)'
  <2>1. Good(compact[k].summary, compact[k].thread)
    BY <1>1, <1>3 DEF CompactInv
  <2>2. /\ compact[k].summary.through <= Len(log'[compact[k].thread])
        /\ compact[k].summary.covers = 1..compact[k].summary.through
    BY <1>1, <1>2, <2>1, GoodStays DEF Inv
  <2> QED
    BY <2>2 DEF Good
<1> QED
  BY <1>2, <1>3 DEF Live

\* A task that changes no history and no other thread.
LEMMA TaskKeeps ==
  ASSUME Inv, NEW r \in Turns, Alive(r), NEW x \in TurnRecords,
         turn' = [turn EXCEPT ![r] = x], x.pc # "idle", x.thread = turn[r].thread,
         UNCHANGED <<log, RUNS, compact, restarted>>,
         stream' \in [Turns -> {"none", "open", "done", "interrupted", "error", "closed"}],
         NEW s \in Summaries,
         threads' = threads \/ (threads' = [threads EXCEPT ![turn[r].thread].summary = s]
                                /\ Good(s, turn[r].thread)),
         TurnInv(r)'
  PROVE  Inv'
<1> DEFINE t == turn[r].thread
<1>1. turn[r].pc # "idle" /\ turn[r].pc # "over" /\ t \in Threads /\ threads[t].state # "new"
  BY DEF Alive, Inv, TurnInv
<1>2. turn'[r] = x /\ \A q \in Turns \ {r} : turn'[q] = turn[q]
  BY DEF Inv, TypeOK
<1>3. /\ threads' \in [Threads -> [state : {"new", "live", "gone"}, summary : Summaries]]
      /\ \A z \in Threads : threads'[z].state = threads[z].state
      /\ \A z \in Threads \ {t} : threads'[z] = threads[z]
  <2>1. CASE threads' = threads
    BY <2>1 DEF Inv, TypeOK
  <2>2. CASE threads' = [threads EXCEPT ![t].summary = s]
    BY <1>1, <2>2 DEF Inv, TypeOK
  <2> QED
    BY <2>1, <2>2
<1>4. TypeOK'
  <2>1. turn' \in [Turns -> TurnRecords]
    BY DEF Inv, TypeOK
  <2> QED
    BY <1>3, <2>1 DEF Inv, TypeOK
<1>5. CountInv'
  <2>1. Started' = Started
    BY <1>1, <1>2 DEF Started
  <2> QED
    BY <2>1 DEF CountInv, Inv
<1>6. ASSUME NEW q \in Turns, q # r PROVE TurnInv(q)'
  <2>1. TurnInv(q) /\ turn'[q] = turn[q]
    BY <1>2, <1>6 DEF Inv
  <2>2. (WorkOK(q) => WorkOK(q)') /\ (EndOK(q) => EndOK(q)') /\ (StopOK(turn[q]) => StopOK(turn[q])')
    BY <2>1, ZenonT(40) DEF WorkOK, EndOK, Good, Question, StopOK
  <2>3. CASE turn[q].pc # "idle"
    <3>1. turn[q].thread \in Threads
      BY <2>1, <2>3 DEF TurnInv
    <3>2. threads'[turn[q].thread].state = threads[turn[q].thread].state
      BY <1>3, <3>1
    <3> QED
      BY <2>1, <2>2, <2>3, <3>1, <3>2 DEF TurnInv, Live
  <2> QED
    BY <2>1, <2>3 DEF TurnInv
<1>7. ASSUME NEW z \in Threads PROVE ThreadInv(z)'
  <2>1. ThreadInv(z)
    BY DEF Inv
  <2>2. \A i \in 1..Len(log[z]) : turn'[log[z][i].turn].pc # "idle"
    BY <1>2, <2>1, MessageTurns DEF Inv, ThreadInv
  <2>3. CASE threads'[z] = threads[z]
    BY <2>1, <2>2, <2>3 DEF ThreadInv, Live, Good
  <2>4. CASE z = t /\ threads' = [threads EXCEPT ![t].summary = s] /\ Good(s, t)
    <3>1. threads'[t].state = threads[t].state /\ threads'[t].summary = s
      BY <1>1, <2>4 DEF Inv, TypeOK
    <3> QED
      BY <1>1, <2>2, <2>4, <3>1 DEF ThreadInv, Live, Good
  <2> QED
    BY <1>3, <2>3, <2>4
<1>8. ASSUME NEW k \in Compactions PROVE CompactInv(k)'
  BY <1>3 DEF Inv, CompactInv, Live, Good
<1> QED
  BY <1>4, <1>5, <1>6, <1>7, <1>8 DEF Inv

\* A task may end without its answer when its thread is gone, or it was stopped
\* outside its try block.
LEMMA DiesInv ==
  ASSUME Inv, NEW r \in Turns, Alive(r), Dies(r), UNCHANGED <<compact, restarted>>,
         Live(turn[r].thread) => turn[r].stop \in {"early", "late"}
  PROVE  Inv'
<1>1. turn[r] \in TurnRecords /\ turn[r].pc # "idle" /\ turn[r].thread \in Threads
      /\ threads[turn[r].thread].state # "new" /\ turn \in [Turns -> TurnRecords]
  BY Types DEF Alive, Inv, TurnInv, TypeOK
<1>2. /\ Over(r) \in TurnRecords /\ Over(r).pc = "over" /\ Over(r).thread = turn[r].thread
      /\ Over(r).stop = turn[r].stop
  BY <1>1 DEF Over, NotAsked, TurnRecords, NoSummary, Summaries, Statuses, Pcs
<1>3. /\ turn' = [turn EXCEPT ![r] = Over(r)] /\ UNCHANGED <<threads, log, RUNS, stream>>
  BY DEF Dies
<1>4. turn'[r] = Over(r)
  BY <1>1, <1>3
<1>5. TurnInv(r)'
  BY <1>1, <1>2, <1>3, <1>4 DEF TurnInv, StopOK, InTry, Live, EndOK
<1>6. stream' \in [Turns -> {"none", "open", "done", "interrupted", "error", "closed"}]
      /\ turn[r].summary \in Summaries
  BY <1>1, <1>3, Types DEF Inv, TypeOK
<1> QED
  BY <1>2, <1>3, <1>5, <1>6, TaskKeeps

\* The answer is stored after everything else, and the thread is free.
LEMMA FinishInv ==
  ASSUME Inv, NEW r \in Turns, Alive(r), NEW status \in Statuses, Finish(r, status),
         UNCHANGED <<compact, restarted>>,
         turn[r].stop \in {"no", "in try"}, status = "interrupted" <=> turn[r].stop = "in try"
  PROVE  Inv'
<1> DEFINE t == turn[r].thread
           m == AnswerOf(r, status)
<1>1. turn[r] \in TurnRecords /\ turn[r].pc # "idle" /\ turn[r].pc # "over" /\ t \in Threads
      /\ threads[t].state # "new" /\ turn \in [Turns -> TurnRecords]
  BY Types DEF Alive, Inv, TurnInv, TypeOK
<1>2. CASE ~Live(t)
  BY <1>2, DiesInv DEF Finish, Live
<1>3. CASE Live(t)
  <2>1. /\ log' = [log EXCEPT ![t] = Append(log[t], m)]
        /\ RUNS' = [RUNS EXCEPT ![t] = NoTurn] /\ turn' = [turn EXCEPT ![r] = Over(r)]
        /\ UNCHANGED threads
        /\ stream' = [stream EXCEPT ![r] =
             IF @ # "open" THEN @ ELSE IF status = "complete" THEN "done" ELSE status]
    BY <1>3 DEF Finish, Live
  <2>2. /\ Over(r) \in TurnRecords /\ Over(r).pc = "over" /\ Over(r).thread = t
        /\ Over(r).stop = turn[r].stop
    BY <1>1 DEF Over, NotAsked, TurnRecords, NoSummary, Summaries, Statuses, Pcs
  <2>3. turn'[r] = Over(r) /\ \A q \in Turns \ {r} : turn'[q] = turn[q]
    BY <1>1, <2>1
  <2>4. m \in Messages /\ m.turn = r /\ m.role = "assistant" /\ m.status = status
    BY DEF AnswerOf, Messages
  <2> HIDE DEF m
  <2>6. Appended(t, m)
    BY <1>1, <2>1, <2>4, LogAppended DEF Inv
  <2>7. /\ RUNS' \in [Threads -> Turns \cup {NoTurn}] /\ RUNS'[t] = NoTurn
        /\ \A z \in Threads \ {t} : RUNS'[z] = RUNS[z]
    BY <1>1, <2>1 DEF Inv, TypeOK
  <2>8. stream' \in [Turns -> {"none", "open", "done", "interrupted", "error", "closed"}]
    BY <2>1 DEF Inv, TypeOK, Statuses
  <2>9. TypeOK'
    BY <1>1, <2>1, <2>2, <2>6, <2>7, <2>8 DEF Inv, TypeOK, Appended
  <2>10. CountInv'
    <3>1. Started' = Started
      BY <1>1, <2>2, <2>3 DEF Started
    <3> QED
      BY <3>1 DEF CountInv, Inv
  <2>11. TurnInv(r)'
    <3>1. RUNS'[t] # r
      BY <2>7, NoTurnAssumption
    <3>2. /\ Len(log'[t]) \in 1..Len(log'[t]) /\ log'[t][Len(log'[t])] = m
      BY <2>6 DEF Appended
    <3>3. /\ log'[t][Len(log'[t])].turn = r /\ log'[t][Len(log'[t])].role = "assistant"
          /\ log'[t][Len(log'[t])].status = "interrupted" <=> Over(r).stop = "in try"
      BY <2>2, <2>4, <3>2
    <3>4. EndOK(r)'
      BY <2>2, <2>3, <3>1, <3>2, <3>3 DEF EndOK
    <3> QED
      BY <1>1, <2>1, <2>2, <2>3, <3>4 DEF TurnInv, StopOK, InTry
  <2>12. ASSUME NEW q \in Turns, q # r PROVE TurnInv(q)'
    <3>1. TurnInv(q) /\ turn'[q] = turn[q]
      BY <2>3, <2>12 DEF Inv
    <3>2. CASE turn[q].thread # t
      <4>1. turn[q].pc # "idle" =>
              /\ turn[q].thread \in Threads /\ log'[turn[q].thread] = log[turn[q].thread]
              /\ RUNS'[turn[q].thread] = RUNS[turn[q].thread]
        BY <2>6, <2>7, <3>1, <3>2 DEF TurnInv, Appended
      <4>2. turn[q].pc # "idle" => (WorkOK(q) => WorkOK(q)') /\ (EndOK(q) => EndOK(q)')
        BY <3>1, <4>1 DEF WorkOK, EndOK, Good, Question
      <4> QED
        BY <2>1, <3>1, <4>2 DEF TurnInv, Live
    <3>3. CASE turn[q].thread = t /\ turn[q].pc # "idle"
      <4>1. turn[q].pc = "over"
        <5>1. WorkOK(r)
          BY <1>1, <1>3 DEF Inv, TurnInv
        <5>2. RUNS[t] # q
          BY <2>12, <5>1 DEF WorkOK
        <5> QED
          BY <1>3, <3>1, <3>3, <5>2 DEF TurnInv, WorkOK
      <4>2. EndOK(q)
        BY <1>3, <3>1, <3>3, <4>1 DEF TurnInv
      <4>3. EndOK(q)'
        <5>1. RUNS'[t] # q
          BY <2>7, NoTurnAssumption
        <5> QED
          BY <2>6, <3>1, <3>3, <4>2, <5>1, EndStays
      <4> QED
        BY <2>1, <3>1, <3>3, <4>1, <4>3 DEF TurnInv
    <3> QED
      BY <3>1, <3>2, <3>3 DEF TurnInv
  <2>13. ASSUME NEW z \in Threads PROVE ThreadInv(z)'
    <3>1. \A q \in Turns : turn[q].pc # "idle" => turn'[q].pc # "idle"
      BY <2>2, <2>3
    <3>2. turn'[m.turn].pc # "idle"
      BY <2>2, <2>3, <2>4
    <3> QED
      BY <1>1, <1>3, <2>1, <2>4, <2>6, <3>1, <3>2, ThreadStays DEF Live
  <2>14. ASSUME NEW k \in Compactions PROVE CompactInv(k)'
    BY <1>1, <2>1, <2>6, CompactStays
  <2> QED
    BY <2>9, <2>10, <2>11, <2>12, <2>13, <2>14 DEF Inv
<1> QED
  BY <1>2, <1>3

-----------------------------------------------------------------------------
(* The steps of the task.                                                  *)

\* Leaving the try block, with or without a client to close.
LEMMA LeaveInv ==
  ASSUME Inv, NEW r \in Turns, turn[r].pc \in InTry, NEW status \in Statuses, Leave(r, status),
         UNCHANGED <<compact, restarted>>,
         turn[r].stop \in {"no", "in try"}, status = "interrupted" <=> turn[r].stop = "in try"
  PROVE  Inv'
<1>1. Alive(r)
  BY DEF Alive, InTry
<1>2. CASE Finish(r, status)
  BY <1>1, <1>2, FinishInv
<1>3. CASE turn' = [turn EXCEPT ![r].pc = "closing", ![r].status = status,
                                ![r].cancel = FALSE, ![r].seen = {}]
           /\ UNCHANGED <<threads, log, RUNS, stream>>
  <2> DEFINE x == [turn[r] EXCEPT !.pc = "closing", !.status = status, !.cancel = FALSE,
                                  !.seen = {}]
  <2>1. turn[r] \in TurnRecords /\ TurnInv(r) /\ turn \in [Turns -> TurnRecords]
        /\ turn[r].summary \in Summaries
    BY Types DEF Inv, TypeOK
  <2>2. /\ x \in TurnRecords /\ x.pc = "closing" /\ x.thread = turn[r].thread
        /\ x.status = status /\ x.cancel = FALSE /\ x.stop = turn[r].stop
    BY <2>1 DEF TurnRecords, Pcs
  <2>3. turn' = [turn EXCEPT ![r] = x]
    BY <1>3
  <2> HIDE DEF x
  <2>4. turn'[r] = x
    BY <2>1, <2>3
  <2>5. TurnInv(r)'
    <3>1. StopOK(x)
      BY <2>2 DEF StopOK, InTry
    <3>2. Live(turn[r].thread) => WorkOK(r)
      BY <2>1 DEF TurnInv, InTry
    <3>3. WorkOK(r) => WorkOK(r)'
      BY <1>3, <2>2, <2>4 DEF WorkOK, Question
    <3> QED
      BY <1>3, <2>1, <2>2, <2>4, <3>1, <3>2, <3>3 DEF TurnInv, Live, InTry
  <2>6. stream' \in [Turns -> {"none", "open", "done", "interrupted", "error", "closed"}]
    BY <1>3 DEF Inv, TypeOK
  <2> QED
    BY <1>1, <1>3, <2>1, <2>2, <2>3, <2>5, <2>6, TaskKeeps
<1> QED
  BY <1>2, <1>3 DEF Leave

\* What the invariant says of a turn at work.
LEMMA AtWork ==
  ASSUME Inv, NEW r \in Turns, Alive(r)
  PROVE  /\ turn[r] \in TurnRecords /\ turn \in [Turns -> TurnRecords]
         /\ turn[r].summary \in Summaries
         /\ turn[r].thread \in Threads /\ threads[turn[r].thread].state # "new"
         /\ StopOK(turn[r])
         /\ Live(turn[r].thread) => WorkOK(r)
         /\ Len(log[turn[r].thread]) \in Nat
         /\ stream \in [Turns -> {"none", "open", "done", "interrupted", "error", "closed"}]
         /\ threads \in [Threads -> [state : {"new", "live", "gone"}, summary : Summaries]]
<1>1. TurnInv(r) /\ TypeOK
  BY DEF Inv
<1>2. turn[r].thread \in Threads
  BY <1>1 DEF TurnInv, Alive
<1> QED
  BY <1>1, <1>2, Types DEF TurnInv, Alive, TypeOK

\* A task that was cancelled before its first step.
LEMMA NeverRunsInv ==
  ASSUME Inv, NEW r \in Turns, NeverRuns(r), UNCHANGED <<compact, restarted>>
  PROVE  Inv'
<1>1. Alive(r)
  BY DEF NeverRuns, Alive
<1>2. turn[r].stop = "early"
  BY <1>1, AtWork DEF NeverRuns, StopOK
<1> QED
  BY <1>1, <1>2, DiesInv DEF NeverRuns

\* The first step: the context is read, or a compaction starts.
LEMMA BeginInv ==
  ASSUME Inv, NEW r \in Turns, Begin(r), UNCHANGED <<compact, restarted>>
  PROVE  Inv'
<1> DEFINE t == turn[r].thread
           s == turn[r].summary
<1>1. turn[r].pc = "scheduled" /\ ~turn[r].cancel /\ Alive(r)
  BY DEF Begin, Alive
<1>2. turn[r].stop = "no"
  BY <1>1, AtWork DEF StopOK
<1>3. CASE Finish(r, "error")
  BY <1>1, <1>2, <1>3, FinishInv DEF Statuses
<1>4. ASSUME NEW cut \in Cuts(t, s.through, KeepTurns),
             turn' = [turn EXCEPT ![r].pc = "compacting", ![r].cut = cut],
             UNCHANGED <<threads, log, RUNS, stream>>
      PROVE  Inv'
  <2> DEFINE x == [turn[r] EXCEPT !.pc = "compacting", !.cut = cut]
  <2>1. cut \in (s.through + 1)..Len(log[t]) /\ cut \in Nat
    <3>1. s.through \in Nat /\ Len(log[t]) \in Nat
      BY <1>1, AtWork DEF Summaries
    <3>2. cut \in (s.through + 1)..Len(log[t])
      BY <1>4 DEF Cuts
    <3> QED
      BY <3>1, <3>2
  <2>2. /\ x \in TurnRecords /\ x.pc = "compacting" /\ x.thread = t /\ x.cut = cut
        /\ x.summary = s /\ x.cancel = turn[r].cancel /\ x.stop = turn[r].stop
    BY <1>1, <2>1, AtWork DEF TurnRecords, Pcs
  <2>3. turn' = [turn EXCEPT ![r] = x]
    BY <1>4
  <2> HIDE DEF x
  <2>4. turn'[r] = x
    BY <1>1, <2>3, AtWork
  <2>5. TurnInv(r)'
    <3>1. StopOK(x)
      BY <1>1, <1>2, <2>2 DEF StopOK, InTry
    <3>2. WorkOK(r) => WorkOK(r)'
      BY <1>1, <1>4, <2>1, <2>2, <2>4 DEF WorkOK, Question, Good
    <3> QED
      BY <1>1, <1>4, <2>2, <2>4, <3>1, <3>2, AtWork DEF TurnInv, Live
  <2> QED
    BY <1>1, <1>4, <2>2, <2>3, <2>5, AtWork, TaskKeeps
<1>5. ASSUME turn' = [turn EXCEPT ![r].pc = "answering", ![r].summary = NoSummary,
                                  ![r].seen = ContextOf(t, s)],
             UNCHANGED <<threads, log, RUNS, stream>>
      PROVE  Inv'
  <2> DEFINE c == ContextOf(t, s)
             x == [turn[r] EXCEPT !.pc = "answering", !.summary = NoSummary, !.seen = c]
  <2>1. c \in SUBSET Nat /\ NoSummary \in Summaries /\ (Live(t) => c = 1..Len(log[t]))
    <3>1. s \in Summaries /\ Len(log[t]) \in Nat /\ t \in Threads
      BY <1>1, AtWork
    <3>2. c \in SUBSET Nat
      BY <3>1 DEF ContextOf, Summaries
    <3>3. ASSUME Live(t) PROVE c = 1..Len(log[t])
      <4>1. Good(s, t)
        BY <1>1, <3>3, AtWork DEF WorkOK
      <4> QED
        BY <3>1, <4>1, ContextWhole
    <3> QED
      BY <3>2, <3>3 DEF NoSummary, Summaries
  <2> HIDE DEF c
  <2>2. /\ x \in TurnRecords /\ x.pc = "answering" /\ x.thread = t /\ x.seen = c
        /\ x.cancel = turn[r].cancel /\ x.stop = turn[r].stop
    BY <1>1, <2>1, AtWork DEF TurnRecords, Pcs
  <2>3. turn' = [turn EXCEPT ![r] = x]
    BY <1>5 DEF c
  <2> HIDE DEF x
  <2>4. turn'[r] = x
    BY <1>1, <2>3, AtWork
  <2>5. TurnInv(r)'
    <3>1. StopOK(x)
      BY <1>1, <1>2, <2>2 DEF StopOK, InTry
    <3>2. Live(t) => (WorkOK(r) => WorkOK(r)')
      BY <1>1, <1>5, <2>1, <2>2, <2>4 DEF WorkOK, Question
    <3> QED
      BY <1>1, <1>5, <2>2, <2>4, <3>1, <3>2, AtWork DEF TurnInv, Live
  <2> QED
    BY <1>1, <1>5, <2>2, <2>3, <2>5, AtWork, TaskKeeps
<1> QED
  BY <1>3, <1>4, <1>5 DEF Begin

\* The summary is stored and used.
LEMMA SummarisedInv ==
  ASSUME Inv, NEW r \in Turns, Summarised(r), UNCHANGED <<compact, restarted>>
  PROVE  Inv'
<1> DEFINE t == turn[r].thread
           cut == turn[r].cut
           s == Fold(turn[r].summary, cut)
           c == ContextOf(t, s)
           x == [turn[r] EXCEPT !.pc = "answering", !.seen = c, !.summary = NoSummary, !.cut = 0]
<1>1. /\ turn[r].pc = "compacting" /\ ~turn[r].cancel /\ Alive(r)
      /\ UNCHANGED <<log, RUNS, stream>> /\ turn' = [turn EXCEPT ![r] = x]
      /\ threads' = IF threads[t].state = "live"
                    THEN [threads EXCEPT ![t].summary = s] ELSE threads
  BY DEF Summarised, Alive
<1>2. turn[r].stop = "no"
  BY <1>1, AtWork DEF StopOK, InTry
<1>3. s \in Summaries /\ (Live(t) => Good(s, t))
  <2>1. turn[r].summary \in Summaries /\ cut \in Nat /\ Len(log[t]) \in Nat /\ t \in Threads
    BY <1>1, AtWork DEF TurnRecords
  <2>2. s \in Summaries
    BY <2>1 DEF Fold, Summaries
  <2>3. ASSUME Live(t) PROVE Good(s, t)
    <3>1. Good(turn[r].summary, t) /\ cut \in (turn[r].summary.through + 1)..Len(log[t])
      BY <1>1, <2>3, AtWork DEF WorkOK
    <3> QED
      BY <2>1, <3>1, FoldGood
  <2> QED
    BY <2>2, <2>3
<1> HIDE DEF s
<1>4. c \in SUBSET Nat /\ NoSummary \in Summaries /\ (Live(t) => c = 1..Len(log[t]))
  <2>1. Len(log[t]) \in Nat /\ t \in Threads
    BY <1>1, AtWork
  <2>2. c \in SUBSET Nat
    BY <1>3, <2>1 DEF ContextOf, Summaries
  <2>3. ASSUME Live(t) PROVE c = 1..Len(log[t])
    BY <1>3, <2>1, <2>3, ContextWhole
  <2> QED
    BY <2>2, <2>3 DEF NoSummary, Summaries
<1> HIDE DEF c
<1>5. /\ x \in TurnRecords /\ x.pc = "answering" /\ x.thread = t /\ x.seen = c
      /\ x.cancel = turn[r].cancel /\ x.stop = turn[r].stop
  BY <1>1, <1>4, AtWork DEF TurnRecords, Pcs
<1> HIDE DEF x
<1>6. turn'[r] = x
  BY <1>1, AtWork
<1>7. t \in Threads /\ threads'[t].state = threads[t].state
  BY <1>1, AtWork
<1>8. TurnInv(r)'
  <2>1. StopOK(x)
    BY <1>1, <1>2, <1>5 DEF StopOK, InTry
  <2>2. Live(t) => (WorkOK(r) => WorkOK(r)')
    BY <1>1, <1>4, <1>5, <1>6 DEF WorkOK, Question
  <2> QED
    BY <1>1, <1>5, <1>6, <1>7, <2>1, <2>2, AtWork DEF TurnInv, Live
<1>9. threads' = threads \/ (threads' = [threads EXCEPT ![t].summary = s] /\ Good(s, t))
  BY <1>1, <1>3 DEF Live
<1> QED
  BY <1>1, <1>3, <1>5, <1>8, <1>9, AtWork, TaskKeeps

\* The steps that leave the try block.
LEMMA AnsweredInv ==
  ASSUME Inv, NEW r \in Turns, SummaryFails(r) \/ Answered(r) \/ Interrupted(r),
         UNCHANGED <<compact, restarted>>
  PROVE  Inv'
<1>1. turn[r].pc \in InTry /\ Alive(r)
  BY DEF SummaryFails, Answered, Interrupted, InTry, Alive
<1>2. (turn[r].cancel <=> turn[r].stop = "in try") /\ turn[r].stop \in {"no", "in try"}
  BY <1>1, AtWork DEF StopOK
<1>3. CASE SummaryFails(r)
  BY <1>1, <1>2, <1>3, LeaveInv DEF SummaryFails, Statuses
<1>4. CASE Answered(r)
  <2>1. PICK status \in {"complete", "error"} : Leave(r, status)
    BY <1>4 DEF Answered
  <2>2. ~turn[r].cancel
    BY <1>4 DEF Answered
  <2> QED
    BY <1>1, <1>2, <2>1, <2>2, LeaveInv DEF Statuses
<1>5. CASE Interrupted(r)
  BY <1>1, <1>2, <1>5, LeaveInv DEF Interrupted, Statuses
<1> QED
  BY <1>3, <1>4, <1>5

\* The steps after the client was closed.
LEMMA ClosedInv ==
  ASSUME Inv, NEW r \in Turns, CloseInterrupted(r) \/ Closed(r), UNCHANGED <<compact, restarted>>
  PROVE  Inv'
<1>1. turn[r].pc = "closing" /\ Alive(r)
  BY DEF CloseInterrupted, Closed, Alive
<1>2. /\ turn[r].cancel <=> turn[r].stop = "late"
      /\ ~turn[r].cancel => (turn[r].status = "interrupted" <=> turn[r].stop = "in try")
      /\ turn[r].stop # "early" /\ turn[r].stop \in {"no", "early", "in try", "late"}
      /\ turn[r].status \in Statuses
  BY <1>1, AtWork DEF StopOK, TurnRecords
<1>3. CASE CloseInterrupted(r)
  BY <1>1, <1>2, <1>3, DiesInv DEF CloseInterrupted
<1>4. CASE Closed(r)
  BY <1>1, <1>2, <1>4, FinishInv DEF Closed
<1> QED
  BY <1>3, <1>4

\* Every step of a task keeps the invariant.
LEMMA TaskStepInv ==
  ASSUME Inv, NEW r \in Turns, TaskStep(r)
  PROVE  Inv'
BY NeverRunsInv, BeginInv, SummarisedInv, AnsweredInv, ClosedInv DEF TaskStep

-----------------------------------------------------------------------------
(* The requests.                                                           *)

\* A request that changes no history, no summary and nothing a turn knows but
\* how it was stopped keeps what is known of the turns.
LEMMA TurnKeeps ==
  ASSUME Inv, NEW q \in Turns, UNCHANGED <<log, RUNS, restarted>>,
         turn'[q] = turn[q],
         turn[q].thread \in Threads =>
           /\ threads[turn[q].thread].state # "new" => threads'[turn[q].thread].state # "new"
           /\ threads'[turn[q].thread].state = "live" /\ threads[turn[q].thread].state # "new" =>
                threads[turn[q].thread].state = "live"
  PROVE  TurnInv(q)'
<1>1. TurnInv(q)
  BY DEF Inv
<1>2. (WorkOK(q) => WorkOK(q)') /\ (EndOK(q) => EndOK(q)') /\ (StopOK(turn[q]) => StopOK(turn[q])')
  BY DEF WorkOK, EndOK, Good, Question, StopOK
<1> QED
  BY <1>1, <1>2 DEF TurnInv, Live

\* A new thread has an empty history.
LEMMA CreateThreadInv ==
  ASSUME Inv, NEW t \in Threads, CreateThread(t)
  PROVE  Inv'
<1>1. /\ threads[t].state = "new" /\ threads' = [threads EXCEPT ![t].state = "live"]
      /\ UNCHANGED <<log, RUNS, turn, stream, compact, restarted>>
  BY DEF CreateThread
<1>2. /\ threads' \in [Threads -> [state : {"new", "live", "gone"}, summary : Summaries]]
      /\ threads'[t].state = "live" /\ threads'[t].summary = threads[t].summary
      /\ \A z \in Threads \ {t} : threads'[z] = threads[z]
  BY <1>1 DEF Inv, TypeOK
<1>3. TypeOK' /\ CountInv'
  BY <1>1, <1>2 DEF Inv, TypeOK, CountInv, Started
<1>4. ASSUME NEW q \in Turns PROVE TurnInv(q)'
  <2>1. turn'[q] = turn[q]
    BY <1>1
  <2>2. turn[q].thread \in Threads \ {t} => threads'[turn[q].thread] = threads[turn[q].thread]
    BY <1>2
  <2> QED
    BY <1>1, <1>2, <2>1, <2>2, TurnKeeps
<1>5. ASSUME NEW z \in Threads PROVE ThreadInv(z)'
  <2>1. ThreadInv(z)
    BY DEF Inv
  <2>2. CASE z = t
    <3>1. Len(log[t]) \in Nat /\ threads'[t].summary = NoSummary
      BY <1>1, <1>2, <2>1, <2>2, Types DEF Inv, ThreadInv
    <3>2. Good(threads[t].summary, t)'
      <4>1. Len(log'[t]) \in Nat
        BY <1>1, <3>1
      <4>2. threads'[t].summary.through = 0 /\ threads'[t].summary.covers = 1..0
        BY <3>1 DEF NoSummary
      <4> QED
        BY <4>1, <4>2 DEF Good
    <3> QED
      BY <1>1, <1>2, <2>1, <2>2, <3>2 DEF ThreadInv, Live, Good
  <2>3. CASE z # t
    BY <1>1, <1>2, <2>1, <2>3 DEF ThreadInv, Live, Good
  <2> QED
    BY <2>2, <2>3
<1>6. ASSUME NEW k \in Compactions PROVE CompactInv(k)'
  BY <1>1, <1>2 DEF Inv, CompactInv, Live, Good
<1> QED
  BY <1>3, <1>4, <1>5, <1>6 DEF Inv

\* What a cancellation changes of a turn: how it was stopped.
LEMMA CancelledTurns ==
  ASSUME Inv, NEW t \in Threads
  PROVE  /\ Cancelled(t) \in [Turns -> TurnRecords]
         /\ \A q \in Turns :
              /\ Cancelled(t)[q].pc = turn[q].pc /\ Cancelled(t)[q].thread = turn[q].thread
              /\ Cancelled(t)[q].summary = turn[q].summary
              /\ Cancelled(t)[q].cut = turn[q].cut /\ Cancelled(t)[q].seen = turn[q].seen
              /\ Alive(q) => StopOK(Cancelled(t)[q])
              /\ ~Alive(q) => Cancelled(t)[q] = turn[q]
<1> DEFINE r == RUNS[t]
<1>1. turn \in [Turns -> TurnRecords] /\ \A q \in Turns : Alive(q) => StopOK(turn[q])
  BY DEF Inv, TypeOK, TurnInv, Alive
<1>2. CASE ~(r # NoTurn /\ Alive(r))
  BY <1>1, <1>2 DEF Cancelled
<1>3. CASE r # NoTurn /\ Alive(r)
  <2>1. r \in Turns
    BY <1>3 DEF Inv, TypeOK
  <2>2. turn[r].pc \in {"scheduled", "compacting", "answering", "closing"}
    BY <1>1, <1>3, <2>1 DEF Alive, TurnRecords, Pcs
  <2>3. PICK stop \in {"early", "in try", "late"} :
           /\ Cancelled(t) = [turn EXCEPT ![r] = [turn[r] EXCEPT !.cancel = TRUE, !.stop = stop]]
           /\ turn[r].pc = "scheduled" => stop = "early"
           /\ turn[r].pc \in InTry => stop = "in try"
           /\ turn[r].pc = "closing" => stop = "late"
    BY <1>3, <2>2 DEF Cancelled, InTry
  <2> DEFINE x == [turn[r] EXCEPT !.cancel = TRUE, !.stop = stop]
  <2>4. /\ x \in TurnRecords /\ x.cancel = TRUE /\ x.stop = stop /\ x.pc = turn[r].pc
        /\ x.thread = turn[r].thread /\ x.summary = turn[r].summary /\ x.cut = turn[r].cut
        /\ x.seen = turn[r].seen
    BY <1>1, <2>1 DEF TurnRecords
  <2>5. Cancelled(t) = [turn EXCEPT ![r] = x]
    BY <2>3
  <2> HIDE DEF x
  <2>6. /\ Cancelled(t) \in [Turns -> TurnRecords] /\ Cancelled(t)[r] = x
        /\ \A q \in Turns \ {r} : Cancelled(t)[q] = turn[q]
    BY <1>1, <2>1, <2>4, <2>5
  <2>7. StopOK(x)
    BY <2>2, <2>3, <2>4 DEF StopOK, InTry
  <2> QED
    BY <1>1, <1>3, <2>4, <2>6, <2>7
<1> QED
  BY <1>2, <1>3

\* What is known of a turn that is cancelled.
LEMMA CancelKeeps ==
  ASSUME Inv, NEW t \in Threads, turn' = Cancelled(t), NEW q \in Turns,
         UNCHANGED <<RUNS, restarted>>,
         turn[q].thread \in Threads =>
           /\ threads[turn[q].thread].state # "new" => threads'[turn[q].thread].state # "new"
           /\ Live(turn[q].thread)' =>
                Live(turn[q].thread) /\ log'[turn[q].thread] = log[turn[q].thread]
  PROVE  TurnInv(q)'
<1>1. TurnInv(q)
  BY DEF Inv
<1>2. /\ turn'[q].pc = turn[q].pc /\ turn'[q].thread = turn[q].thread
      /\ turn'[q].summary = turn[q].summary
      /\ turn'[q].cut = turn[q].cut /\ turn'[q].seen = turn[q].seen
      /\ Alive(q) => StopOK(turn'[q])
      /\ ~Alive(q) => turn'[q] = turn[q]
  BY CancelledTurns
<1>3. CASE turn[q].pc = "idle"
  BY <1>2, <1>3 DEF TurnInv
<1>4. CASE turn[q].pc = "over"
  <2>1. turn'[q] = turn[q] /\ turn[q].thread \in Threads
    BY <1>1, <1>2, <1>4 DEF Alive, TurnInv
  <2>2. Live(turn[q].thread)' => (EndOK(q) => EndOK(q)')
    BY <2>1 DEF EndOK
  <2>3. StopOK(turn[q])'
    BY <1>4, <2>1 DEF StopOK, InTry
  <2> QED
    BY <1>1, <1>4, <2>1, <2>2, <2>3 DEF TurnInv
<1>5. CASE Alive(q)
  <2>1. Live(turn[q].thread)' => (WorkOK(q) => WorkOK(q)')
    BY <1>1, <1>2, <1>5 DEF WorkOK, TurnInv, Alive, Good, Question
  <2>2. StopOK(turn[q])'
    BY <1>2, <1>5 DEF StopOK
  <2> QED
    BY <1>1, <1>2, <1>5, <2>1, <2>2 DEF TurnInv, Alive
<1> QED
  BY <1>3, <1>4, <1>5 DEF Alive

\* A stop changes nothing but how a turn was stopped.
LEMMA InterruptInv ==
  ASSUME Inv, NEW t \in Threads, Interrupt(t)
  PROVE  Inv'
<1>1. turn' = Cancelled(t) /\ UNCHANGED <<threads, log, RUNS, stream, compact, restarted>>
  BY DEF Interrupt
<1>2. turn' \in [Turns -> TurnRecords] /\ \A q \in Turns : turn'[q].pc = turn[q].pc
  BY <1>1, CancelledTurns
<1>3. TypeOK'
  BY <1>1, <1>2 DEF Inv, TypeOK
<1>4. CountInv'
  <2>1. Started' = Started
    BY <1>2 DEF Started
  <2> QED
    BY <2>1 DEF Inv, CountInv
<1>5. ASSUME NEW q \in Turns PROVE TurnInv(q)'
  <2>1. Live(turn[q].thread)' /\ turn[q].thread \in Threads => Live(turn[q].thread)
    BY <1>1, CancelledTurns DEF Live
  <2> QED
    BY <1>1, <2>1, CancelledTurns, CancelKeeps
<1>6. ASSUME NEW z \in Threads PROVE ThreadInv(z)'
  <2>1. ThreadInv(z)
    BY DEF Inv
  <2>2. \A i \in 1..Len(log[z]) : turn'[log[z][i].turn].pc # "idle"
    BY <1>2, <2>1, MessageTurns DEF Inv, ThreadInv
  <2> QED
    BY <1>1, <2>1, <2>2 DEF ThreadInv, Live, Good
<1>7. ASSUME NEW k \in Compactions PROVE CompactInv(k)'
  BY <1>1 DEF Inv, CompactInv, Live, Good
<1> QED
  BY <1>3, <1>4, <1>5, <1>6, <1>7 DEF Inv

\* Nothing is claimed of a thread that is gone.
LEMMA DeleteThreadInv ==
  ASSUME Inv, NEW t \in Threads, DeleteThread(t)
  PROVE  Inv'
<1>1. /\ threads[t].state = "live" /\ turn' = Cancelled(t)
      /\ threads' = [threads EXCEPT ![t].state = "gone"] /\ log' = [log EXCEPT ![t] = <<>>]
      /\ UNCHANGED <<RUNS, stream, compact, restarted>>
  BY DEF DeleteThread
<1>2. turn' \in [Turns -> TurnRecords] /\ \A q \in Turns : turn'[q].pc = turn[q].pc
  BY <1>1, CancelledTurns
<1>3. /\ threads' \in [Threads -> [state : {"new", "live", "gone"}, summary : Summaries]]
      /\ threads'[t].state = "gone" /\ \A z \in Threads \ {t} : threads'[z] = threads[z]
  BY <1>1 DEF Inv, TypeOK
<1>4. /\ log' \in [Threads -> Seq(Messages)] /\ log'[t] = <<>>
      /\ \A z \in Threads \ {t} : log'[z] = log[z]
  <2>1. <<>> \in Seq(Messages)
    OBVIOUS
  <2> QED
    BY <1>1, <2>1 DEF Inv, TypeOK
<1>5. TypeOK'
  BY <1>1, <1>2, <1>3, <1>4 DEF Inv, TypeOK
<1>6. CountInv'
  <2>1. Started' = Started
    BY <1>2 DEF Started
  <2> QED
    BY <2>1 DEF Inv, CountInv
<1>7. ASSUME NEW q \in Turns PROVE TurnInv(q)'
  <2>1. turn'[q].thread = turn[q].thread
    BY <1>1, CancelledTurns
  <2>2. turn[q].thread \in Threads =>
          /\ threads[turn[q].thread].state # "new" => threads'[turn[q].thread].state # "new"
          /\ Live(turn[q].thread)' =>
               Live(turn[q].thread) /\ log'[turn[q].thread] = log[turn[q].thread]
    BY <1>3, <1>4, <2>1 DEF Live
  <2> QED
    BY <1>1, <2>2, CancelKeeps
<1>8. ASSUME NEW z \in Threads PROVE ThreadInv(z)'
  <2>1. ThreadInv(z)
    BY DEF Inv
  <2>2. CASE z = t
    <3>1. Len(log'[t]) = 0
      BY <1>4
    <3> QED
      BY <1>3, <2>2, <3>1 DEF ThreadInv, Live
  <2>3. CASE z # t
    <3>1. threads'[z] = threads[z] /\ log'[z] = log[z]
      BY <1>3, <1>4, <2>3
    <3>2. \A i \in 1..Len(log[z]) : turn'[log[z][i].turn].pc # "idle"
      BY <1>2, <2>1, MessageTurns DEF Inv, ThreadInv
    <3> QED
      BY <2>1, <3>1, <3>2 DEF ThreadInv, Live, Good
  <2> QED
    BY <2>2, <2>3
<1>9. ASSUME NEW k \in Compactions PROVE CompactInv(k)'
  <2>1. CompactInv(k) /\ compact'[k] = compact[k]
    BY <1>1 DEF Inv
  <2>2. compact[k].thread \in Threads \ {t} =>
          threads'[compact[k].thread] = threads[compact[k].thread]
          /\ log'[compact[k].thread] = log[compact[k].thread]
    BY <1>3, <1>4
  <2> QED
    BY <1>3, <2>1, <2>2 DEF CompactInv, Live, Good
<1> QED
  BY <1>5, <1>6, <1>7, <1>8, <1>9 DEF Inv

\* A compact request waits for the model.
LEMMA CompactStartInv ==
  ASSUME Inv, NEW t \in Threads, NEW keep \in Keeps, CompactStart(t, keep)
  PROVE  Inv'
<1> DEFINE s == threads[t].summary
           n == Cardinality({j \in Compactions : compact[j].pc # "idle"}) + 1
<1>1. PICK cut \in Cuts(t, s.through, keep) :
         compact' = [compact EXCEPT ![n] = [pc |-> "waiting", thread |-> t,
                                            summary |-> Fold(s, cut)]]
  BY DEF CompactStart
<1>2. /\ n \in Compactions /\ threads[t].state = "live"
      /\ UNCHANGED <<threads, log, RUNS, turn, stream, restarted>>
  BY DEF CompactStart
<1> HIDE DEF n
<1>3. s \in Summaries /\ s.through \in Nat /\ Len(log[t]) \in Nat /\ Good(s, t)
  BY <1>2, Types DEF Inv, ThreadInv, Live, Summaries
<1>4. cut \in (s.through + 1)..Len(log[t])
  BY <1>3 DEF Cuts
<1>5. Fold(s, cut) \in Summaries /\ Good(Fold(s, cut), t)
  BY <1>3, <1>4, FoldGood
<1> DEFINE f == Fold(s, cut)
<1> HIDE DEF f
<1>6. f \in Summaries /\ Good(f, t)
  BY <1>5 DEF f
<1>7. compact' = [compact EXCEPT ![n] = [pc |-> "waiting", thread |-> t, summary |-> f]]
  BY <1>1 DEF f
<1>8. /\ compact'[n] = [pc |-> "waiting", thread |-> t, summary |-> f]
      /\ \A k \in Compactions \ {n} : compact'[k] = compact[k]
  BY <1>2, <1>7 DEF Inv, TypeOK
<1>9. TypeOK' /\ CountInv'
  BY <1>2, <1>6, <1>7 DEF Inv, TypeOK, CountInv, Started
<1>10. ASSUME NEW k \in Compactions PROVE CompactInv(k)'
  <2>1. CASE k = n
    BY <1>2, <1>6, <1>8, <2>1 DEF CompactInv, Live, Good
  <2>2. CASE k # n
    BY <1>2, <1>8, <2>2 DEF Inv, CompactInv, Live, Good
  <2> QED
    BY <2>1, <2>2
<1>11. ASSUME NEW q \in Turns PROVE TurnInv(q)'
  BY <1>2, ZenonT(40) DEF Inv, TurnInv, StopOK, WorkOK, EndOK, Live, Good, Question
<1>12. ASSUME NEW z \in Threads PROVE ThreadInv(z)'
  BY <1>2 DEF Inv, ThreadInv, Live, Good
<1> QED
  BY <1>9, <1>10, <1>11, <1>12 DEF Inv

\* What a compact request read before it waited still holds when it writes.
LEMMA CompactEndInv ==
  ASSUME Inv, NEW k \in Compactions, CompactEnd(k)
  PROVE  Inv'
<1> DEFINE t == compact[k].thread
           s == compact[k].summary
           x == [pc |-> "done", thread |-> NoTurn, summary |-> NoSummary]
<1>1. /\ compact[k].pc = "waiting" /\ compact' = [compact EXCEPT ![k] = x]
      /\ UNCHANGED <<log, RUNS, turn, stream, restarted>>
      /\ \/ threads' = threads
         \/ threads[t].state = "live" /\ threads' = [threads EXCEPT ![t].summary = s]
  BY DEF CompactEnd
<1>2. /\ t \in Threads /\ s \in Summaries /\ (Live(t) => Good(s, t)) /\ NoSummary \in Summaries
  BY <1>1, Types DEF Inv, CompactInv, NoSummary, Summaries
<1>3. /\ compact' \in [Compactions -> [pc : {"idle", "waiting", "done"},
                                       thread : Threads \cup {NoTurn}, summary : Summaries]]
      /\ compact'[k].pc = "done" /\ \A j \in Compactions \ {k} : compact'[j] = compact[j]
  BY <1>1, <1>2 DEF Inv, TypeOK
<1>4. /\ threads' \in [Threads -> [state : {"new", "live", "gone"}, summary : Summaries]]
      /\ \A z \in Threads : threads'[z].state = threads[z].state
      /\ \A z \in Threads : \/ threads'[z] = threads[z]
                            \/ z = t /\ threads[t].state = "live" /\ threads'[z].summary = s
  <2>1. CASE threads' = threads
    BY <2>1 DEF Inv, TypeOK
  <2>2. CASE threads[t].state = "live" /\ threads' = [threads EXCEPT ![t].summary = s]
    BY <1>2, <2>2 DEF Inv, TypeOK
  <2> QED
    BY <1>1, <2>1, <2>2
<1>5. TypeOK' /\ CountInv'
  BY <1>1, <1>3, <1>4 DEF Inv, TypeOK, CountInv, Started
<1>6. ASSUME NEW q \in Turns PROVE TurnInv(q)'
  BY <1>1, <1>4, TurnKeeps
<1>7. ASSUME NEW z \in Threads PROVE ThreadInv(z)'
  <2>1. ThreadInv(z)
    BY DEF Inv
  <2>2. CASE threads'[z] = threads[z]
    BY <1>1, <2>1, <2>2 DEF ThreadInv, Live, Good
  <2>3. CASE z = t /\ threads[t].state = "live" /\ threads'[z].summary = s
    <3>1. Good(s, t)
      BY <1>2, <2>3 DEF Live
    <3>2. Good(threads[z].summary, z)'
      BY <1>1, <2>3, <3>1 DEF Good
    <3> QED
      BY <1>1, <1>4, <2>1, <2>3, <3>2 DEF ThreadInv, Live
  <2> QED
    BY <1>4, <2>2, <2>3
<1>8. ASSUME NEW j \in Compactions PROVE CompactInv(j)'
  <2>1. CASE j = k
    BY <1>3, <2>1 DEF CompactInv
  <2>2. CASE j # k
    <3>1. CompactInv(j) /\ compact'[j] = compact[j]
      BY <1>3, <2>2 DEF Inv
    <3> QED
      BY <1>1, <1>4, <3>1 DEF CompactInv, Live, Good
  <2> QED
    BY <2>1, <2>2
<1> QED
  BY <1>5, <1>6, <1>7, <1>8 DEF Inv

\* The page.
LEMMA PageInv ==
  ASSUME Inv, NEW r \in Turns, Hear(r) \/ GoAway(r)
  PROVE  Inv'
<1>1. /\ stream' = [stream EXCEPT ![r] = "closed"]
      /\ UNCHANGED <<threads, log, RUNS, turn, compact, restarted>>
  BY DEF Hear, GoAway
<1>2. TypeOK' /\ CountInv'
  BY <1>1 DEF Inv, TypeOK, CountInv, Started
<1>3. ASSUME NEW q \in Turns PROVE TurnInv(q)'
  BY <1>1, ZenonT(40) DEF Inv, TurnInv, StopOK, WorkOK, EndOK, Live, Good, Question
<1>4. ASSUME NEW z \in Threads PROVE ThreadInv(z)'
  BY <1>1 DEF Inv, ThreadInv, Live, Good
<1>5. ASSUME NEW k \in Compactions PROVE CompactInv(k)'
  BY <1>1 DEF Inv, CompactInv, Live, Good
<1> QED
  BY <1>2, <1>3, <1>4, <1>5 DEF Inv

\* A question opens a turn; every turn of the thread before has ended.
LEMMA StartTurnInv ==
  ASSUME Inv, NEW t \in Threads, StartTurn(t)
  PROVE  Inv'
<1> DEFINE n == Cardinality(Started)
<1>0. PICK r \in Turns : r = n + 1
  BY DEF StartTurn
<1> DEFINE m == Question(r)
           x == [NotAsked EXCEPT !.pc = "scheduled", !.thread = t, !.summary = threads[t].summary]
<1>1. /\ r \in Turns /\ threads[t].state # "gone" /\ RUNS[t] = NoTurn
      /\ threads' = [threads EXCEPT ![t].state = "live"]
      /\ log' = [log EXCEPT ![t] = Append(log[t], m)]
      /\ RUNS' = [RUNS EXCEPT ![t] = r] /\ turn' = [turn EXCEPT ![r] = x]
      /\ stream' = [stream EXCEPT ![r] = "open"]
      /\ UNCHANGED <<compact, restarted>>
  BY <1>0 DEF StartTurn
<1>2. n \in Nat /\ Started = 1..n
  BY NextTurn DEF Inv
<1>3. turn[r].pc = "idle"
  <2>1. r \notin Started
    BY <1>0, <1>2
  <2> QED
    BY <1>1, <2>1 DEF Started
<1>4. /\ x \in TurnRecords /\ x.pc = "scheduled" /\ x.thread = t /\ x.summary = threads[t].summary
      /\ x.cancel = FALSE /\ x.stop = "no"
  <2>1. threads[t].summary \in Summaries
    BY Types DEF Inv
  <2> QED
    BY <2>1 DEF NotAsked, TurnRecords, NoSummary, Summaries, Statuses, Pcs
<1>5. m \in Messages /\ m.turn = r
  BY <1>1 DEF Question, Messages, Statuses
<1> HIDE DEF x, m
<1>6. Appended(t, m)
  BY <1>1, <1>5, LogAppended DEF Inv
<1>7. turn'[r] = x /\ turn' \in [Turns -> TurnRecords] /\ \A q \in Turns \ {r} : turn'[q] = turn[q]
  BY <1>1, <1>4 DEF Inv, TypeOK
<1>8. /\ RUNS' \in [Threads -> Turns \cup {NoTurn}] /\ RUNS'[t] = r
      /\ \A z \in Threads \ {t} : RUNS'[z] = RUNS[z]
  BY <1>1 DEF Inv, TypeOK
<1>9. /\ threads' \in [Threads -> [state : {"new", "live", "gone"}, summary : Summaries]]
      /\ threads'[t].state = "live" /\ threads'[t].summary = threads[t].summary
      /\ \A z \in Threads \ {t} : threads'[z] = threads[z]
  BY <1>1 DEF Inv, TypeOK
<1>10. TypeOK'
  <2>1. stream' \in [Turns -> {"none", "open", "done", "interrupted", "error", "closed"}]
    BY <1>1 DEF Inv, TypeOK
  <2> QED
    BY <1>1, <1>6, <1>7, <1>8, <1>9, <2>1 DEF Inv, TypeOK, Appended
<1>11. CountInv'
  <2>1. r \in 0..MaxTurns /\ Turns \subseteq Int
    BY <1>1, BoundAssumption DEF Turns
  <2>2. Started' = Started \cup {r}
    BY <1>1, <1>4, <1>7 DEF Started
  <2>3. Started' = 1..r
    BY <1>0, <1>2, <2>2
  <2> QED
    BY <2>1, <2>3 DEF CountInv
<1>12. Good(threads[t].summary, t) /\ threads[t].summary \in Summaries
  <2>1. ThreadInv(t) /\ Len(log[t]) \in Nat /\ threads[t].summary \in Summaries
        /\ threads[t].state \in {"new", "live", "gone"}
    BY Types DEF Inv
  <2>2. CASE threads[t].state = "new"
    <3>1. threads[t].summary.through = 0 /\ threads[t].summary.covers = 1..0
      BY <2>1, <2>2 DEF ThreadInv, NoSummary
    <3> QED
      BY <2>1, <3>1 DEF Good
  <2>3. CASE threads[t].state = "live"
    BY <2>1, <2>3 DEF ThreadInv, Live
  <2> QED
    BY <1>1, <2>1, <2>2, <2>3
<1>13. TurnInv(r)'
  <2>1. /\ threads[t].summary.through <= Len(log'[t])
        /\ threads[t].summary.covers = 1..threads[t].summary.through
    BY <1>6, <1>12, GoodStays DEF Inv
  <2>2. StopOK(x)
    BY <1>4 DEF StopOK, InTry
  <2>3. Len(log'[t]) > 0 /\ log'[t][Len(log'[t])] = Question(r)
    BY <1>6 DEF Appended, m
  <2>4. WorkOK(r)'
    BY <1>4, <1>7, <1>8, <2>1, <2>3 DEF WorkOK, Good, Question
  <2> QED
    BY <1>4, <1>7, <1>9, <2>2, <2>4 DEF TurnInv
<1>14. ASSUME NEW q \in Turns, q # r PROVE TurnInv(q)'
  <2>1. TurnInv(q) /\ turn'[q] = turn[q]
    BY <1>7, <1>14 DEF Inv
  <2>2. CASE turn[q].pc = "idle"
    BY <2>1, <2>2 DEF TurnInv
  <2>3. CASE turn[q].pc # "idle" /\ turn[q].thread # t
    <3>1. turn[q].thread \in Threads
      BY <2>1, <2>3 DEF TurnInv
    <3>2. /\ log'[turn[q].thread] = log[turn[q].thread]
          /\ RUNS'[turn[q].thread] = RUNS[turn[q].thread]
          /\ threads'[turn[q].thread] = threads[turn[q].thread]
      BY <1>6, <1>8, <1>9, <2>3, <3>1 DEF Appended
    <3>3. (WorkOK(q) => WorkOK(q)') /\ (EndOK(q) => EndOK(q)')
      BY <1>1, <2>1, <3>2 DEF WorkOK, EndOK, Good, Question
    <3> QED
      BY <2>1, <2>3, <3>2, <3>3 DEF TurnInv, Live
  <2>4. CASE turn[q].pc # "idle" /\ turn[q].thread = t
    <3>1. Live(t)
      BY <1>1, <2>1, <2>4, Types DEF TurnInv, Live, Inv
    <3>2. turn[q].pc = "over"
      BY <1>1, <2>1, <2>4, <3>1, NoTurnAssumption DEF TurnInv, WorkOK
    <3>3. EndOK(q)
      BY <2>1, <2>4, <3>1, <3>2 DEF TurnInv
    <3>4. EndOK(q)'
      BY <1>1, <1>6, <1>8, <1>14, <2>1, <2>4, <3>3, EndStays
    <3> QED
      BY <1>9, <2>1, <2>4, <3>2, <3>4 DEF TurnInv
  <2> QED
    BY <2>2, <2>3, <2>4
<1>15. ASSUME NEW z \in Threads PROVE ThreadInv(z)'
  <2>1. \A q \in Turns : turn[q].pc # "idle" => turn'[q].pc # "idle"
    BY <1>3, <1>7
  <2>2. turn'[m.turn].pc # "idle"
    BY <1>4, <1>5, <1>7
  <2>3. threads'[z].summary = threads[z].summary /\ (z = t \/ threads'[z].state = threads[z].state)
    BY <1>9
  <2> QED
    BY <1>1, <1>5, <1>6, <1>9, <2>1, <2>2, <2>3, ThreadStays
<1>16. ASSUME NEW k \in Compactions PROVE CompactInv(k)'
  <2>1. \A z \in Threads : threads[z].state # "new" => threads'[z].state = threads[z].state
    BY <1>1, <1>9, Types DEF Inv
  <2> QED
    BY <1>1, <1>6, <2>1, CompactStays
<1> QED
  BY <1>10, <1>11, <1>13, <1>14, <1>15, <1>16 DEF Inv

\* The service starts with nothing but the database.
LEMMA RestartInv ==
  ASSUME Inv, Restart
  PROVE  Inv'
<1>1. /\ RUNS' = [t \in Threads |-> NoTurn]
      /\ turn' = [r \in Turns |-> IF Alive(r) THEN Over(r) ELSE turn[r]]
      /\ restarted' = restarted \cup {r \in Turns : Alive(r)}
      /\ stream' = [r \in Turns |-> IF stream[r] = "none" THEN "none" ELSE "closed"]
      /\ compact' = [k \in Compactions |->
           IF compact[k].pc = "waiting"
           THEN [pc |-> "done", thread |-> NoTurn, summary |-> NoSummary] ELSE compact[k]]
      /\ threads' = threads /\ log' = log
  BY DEF Restart
<1>2. \A r \in Turns : /\ turn[r] \in TurnRecords /\ turn[r].thread \in Threads \cup {NoTurn}
                       /\ turn[r].stop \in {"no", "early", "in try", "late"}
  BY Types DEF Inv, TurnRecords
<1>3. ASSUME NEW r \in Turns
      PROVE  Over(r) \in TurnRecords /\ Over(r).pc = "over" /\ Over(r).thread = turn[r].thread
  BY <1>2 DEF Over, NotAsked, TurnRecords, NoSummary, Summaries, Statuses, Pcs
<1>4. turn' \in [Turns -> TurnRecords]
  BY <1>1, <1>2, <1>3
<1>5. \A k \in Compactions : compact'[k].pc # "waiting"
  BY <1>1
<1>6. TypeOK'
  <2>1. NoSummary \in Summaries
    BY DEF NoSummary, Summaries
  <2>2. compact' \in [Compactions -> [pc : {"idle", "waiting", "done"},
                                      thread : Threads \cup {NoTurn}, summary : Summaries]]
    BY <1>1, <2>1 DEF Inv, TypeOK
  <2>3. restarted' \subseteq Turns
    BY <1>1 DEF Inv, TypeOK
  <2>4. stream' \in [Turns -> {"none", "open", "done", "interrupted", "error", "closed"}]
    BY <1>1 DEF Inv, TypeOK
  <2>5. RUNS' \in [Threads -> Turns \cup {NoTurn}]
    BY <1>1
  <2> QED
    BY <1>1, <1>4, <2>2, <2>3, <2>4, <2>5 DEF Inv, TypeOK
<1>7. \A r \in Turns : turn'[r].pc = "idle" <=> turn[r].pc = "idle"
  BY <1>1, <1>3 DEF Alive
<1>8. CountInv'
  <2>1. Started' = Started
    BY <1>7 DEF Started
  <2> QED
    BY <2>1 DEF Inv, CountInv
<1>9. ASSUME NEW q \in Turns PROVE TurnInv(q)'
  <2>1. TurnInv(q)
    BY DEF Inv
  <2>2. CASE Alive(q)
    <3>1. turn'[q] = Over(q) /\ q \in restarted'
      BY <1>1, <2>2
    <3>2. EndOK(q)'
      BY <3>1 DEF EndOK
    <3>3. StopOK(turn[q])'
      BY <1>3, <3>1 DEF StopOK, InTry
    <3> QED
      BY <1>1, <1>3, <2>1, <2>2, <3>1, <3>2, <3>3 DEF TurnInv, Alive
  <2>3. CASE turn[q].pc = "idle"
    BY <1>7, <2>3 DEF TurnInv
  <2>4. CASE turn[q].pc = "over"
    <3>1. turn'[q] = turn[q] /\ (q \notin restarted' => q \notin restarted)
      BY <1>1, <2>4 DEF Alive
    <3>2. turn[q].thread \in Threads
      BY <2>1, <2>4 DEF TurnInv
    <3>3. RUNS'[turn[q].thread] # q
      BY <1>1, <3>2, NoTurnAssumption
    <3>4. EndOK(q) => EndOK(q)'
      BY <1>1, <3>1, <3>3 DEF EndOK
    <3>5. StopOK(turn[q])'
      BY <2>4, <3>1 DEF StopOK, InTry
    <3> QED
      BY <1>1, <2>1, <2>4, <3>1, <3>2, <3>4, <3>5 DEF TurnInv, Live
  <2> QED
    BY <2>2, <2>3, <2>4 DEF Alive
<1>10. ASSUME NEW z \in Threads PROVE ThreadInv(z)'
  <2>1. ThreadInv(z)
    BY DEF Inv
  <2>2. \A i \in 1..Len(log[z]) : turn'[log[z][i].turn].pc # "idle"
    BY <1>7, <2>1, MessageTurns DEF Inv, ThreadInv
  <2> QED
    BY <1>1, <2>1, <2>2 DEF ThreadInv, Live, Good
<1>11. ASSUME NEW k \in Compactions PROVE CompactInv(k)'
  BY <1>5 DEF CompactInv
<1> QED
  BY <1>6, <1>8, <1>9, <1>10, <1>11 DEF Inv

-----------------------------------------------------------------------------
(* The theorems.                                                           *)

\* Every step keeps the invariant.
LEMMA NextInv == Inv /\ [Next]_vars => Inv'
<1> SUFFICES ASSUME Inv, [Next]_vars PROVE Inv'
  OBVIOUS
<1>1. CASE UNCHANGED vars
  <2>1. UNCHANGED <<threads, log, RUNS, turn, stream, compact, restarted>>
    BY <1>1 DEF vars
  <2>2. TypeOK' /\ CountInv'
    BY <2>1 DEF Inv, TypeOK, CountInv, Started
  <2>3. ASSUME NEW q \in Turns PROVE TurnInv(q)'
    BY <2>1, ZenonT(40) DEF Inv, TurnInv, StopOK, WorkOK, EndOK, Live, Good, Question
  <2>4. \A z \in Threads : ThreadInv(z)'
    BY <2>1 DEF Inv, ThreadInv, Live, Good
  <2>5. \A k \in Compactions : CompactInv(k)'
    BY <2>1 DEF Inv, CompactInv, Live, Good
  <2> QED
    BY <2>2, <2>3, <2>4, <2>5 DEF Inv
<1>2. ASSUME NEW t \in Threads,
             \/ CreateThread(t) \/ StartTurn(t) \/ Interrupt(t) \/ DeleteThread(t)
             \/ \E keep \in Keeps : CompactStart(t, keep)
      PROVE  Inv'
  BY <1>2, CreateThreadInv, StartTurnInv, InterruptInv, DeleteThreadInv, CompactStartInv
<1>3. ASSUME NEW k \in Compactions, CompactEnd(k) PROVE Inv'
  BY <1>3, CompactEndInv
<1>4. ASSUME NEW r \in Turns, TaskStep(r) \/ Hear(r) \/ GoAway(r) PROVE Inv'
  BY <1>4, TaskStepInv, PageInv
<1>5. CASE Restart
  BY <1>5, RestartInv
<1> QED
  BY <1>1, <1>2, <1>3, <1>4, <1>5 DEF Next

\* What the chat keeps of its turns and threads, for every number of threads,
\* turns and compactions and every number of turns that a compaction keeps.
THEOREM ChatInvariant == Spec => []Inv
<1>1. Init => Inv
  BY InitInv
<1>2. Inv /\ [Next]_vars => Inv'
  BY NextInv
<1> QED
  BY <1>1, <1>2, PTL DEF Spec

\* Every variable keeps its type.
THEOREM ChatTyped == Spec => []TypeOK
BY ChatInvariant, PTL DEF Inv

\* A summary stands for exactly the messages it replaces, whichever compactions
\* and turns overlap.
THEOREM SummaryIsPrefix == Spec => []SummaryCoversPrefix
<1>1. Inv => SummaryCoversPrefix
  BY DEF Inv, ThreadInv, Live, Good, SummaryCoversPrefix
<1> QED
  BY <1>1, ChatInvariant, PTL

\* The model gets every message up to the question.
THEOREM ModelSeesAll == Spec => []ContextIsWhole
<1>1. Inv => ContextIsWhole
  BY DEF Inv, TurnInv, WorkOK, Live, ContextIsWhole
<1> QED
  BY <1>1, ChatInvariant, PTL

\* A turn that ends has stored its answer and frees its thread, unless the stop
\* came outside its try block.
THEOREM AnswersAreStored == Spec => []TurnsAreStored
<1>1. Inv => TurnsAreStored
  <2> SUFFICES ASSUME Inv, NEW r \in Turns, turn[r].pc = "over", r \notin restarted,
                      turn[r].stop \in {"no", "in try"}, threads[turn[r].thread].state = "live"
               PROVE  /\ RUNS[turn[r].thread] # r
                      /\ \E m \in Stored(r) : m.status = "interrupted" <=> turn[r].stop = "in try"
    BY DEF TurnsAreStored
  <2>1. EndOK(r)
    BY DEF Inv, TurnInv, Live
  <2> QED
    BY <2>1 DEF EndOK, Stored
<1> QED
  BY <1>1, ChatInvariant, PTL

-----------------------------------------------------------------------------
(* The refinement.                                                         *)

\* What Conversation sees of a thread and of its messages.
States == [t \in Threads |-> threads[t].state]
Hist(q) == [i \in 1..Len(q) |-> <<q[i].turn, q[i].role>>]
History == [t \in Threads |-> Hist(log[t])]

\* A message more in the log is an entry more in the history.
LEMMA HistAppend ==
  ASSUME NEW q \in Seq(Messages), NEW m \in Messages
  PROVE  Hist(Append(q, m)) = Append(Hist(q), <<m.turn, m.role>>)
<1> DEFINE p == Append(q, m)
           e == <<m.turn, m.role>>
           n == Len(q)
<1>1. n \in Nat /\ Len(p) = n + 1 /\ p[n + 1] = m /\ \A i \in 1..n : p[i] = q[i]
  BY AppendFacts
<1>2. Hist(q) \in Seq(Turns \X {"user", "assistant"}) /\ Len(Hist(q)) = n
  <2>1. \A i \in 1..n : <<q[i].turn, q[i].role>> \in Turns \X {"user", "assistant"}
    <3> SUFFICES ASSUME NEW i \in 1..n
                 PROVE  <<q[i].turn, q[i].role>> \in Turns \X {"user", "assistant"}
      OBVIOUS
    <3>1. PICK z \in Messages : z = q[i]
      OBVIOUS
    <3>2. z.turn \in Turns /\ z.role \in {"user", "assistant"}
      BY DEF Messages
    <3> QED
      BY <3>1, <3>2
  <2>2. Hist(q) \in [1..n -> Turns \X {"user", "assistant"}]
    BY <2>1 DEF Hist
  <2> QED
    BY <1>1, <2>2
<1> HIDE DEF p, n
<1>3. e \in Turns \X {"user", "assistant"}
  BY DEF Messages
<1>4. /\ Append(Hist(q), e) = [i \in 1..(n + 1) |-> IF i = n + 1 THEN e ELSE Hist(q)[i]]
  BY <1>1, <1>2, <1>3
<1>5. \A i \in 1..n : Hist(q)[i] = <<q[i].turn, q[i].role>>
  BY DEF Hist, n
<1>6. Hist(p) = [i \in 1..(n + 1) |-> <<p[i].turn, p[i].role>>]
  BY <1>1 DEF Hist
<1>7. \A i \in 1..(n + 1) :
         <<p[i].turn, p[i].role>> = IF i = n + 1 THEN e ELSE Hist(q)[i]
  BY <1>1, <1>5
<1> QED
  BY <1>4, <1>6, <1>7 DEF p

\* The initial states map to initial states.
LEMMA ConvInit == Init => Conv!Init
<1> SUFFICES ASSUME Init PROVE Conv!Init
  OBVIOUS
<1>1. \A t \in Threads : threads[t].state = "new" /\ log[t] = <<>>
  BY DEF Init
<1>2. [i \in 1..Len(<<>>) |-> <<<<>>[i].turn, <<>>[i].role>>] = <<>>
  OBVIOUS
<1> QED
  BY <1>1, <1>2 DEF Conv!Init

\* A step that changes no history and no thread's state.
LEMMA ConvStutter ==
  ASSUME UNCHANGED log, \A t \in Threads : threads'[t].state = threads[t].state
  PROVE  UNCHANGED <<States, History>>
BY DEF States, History

\* ... for the history of every thread.
LEMMA HistoryAppended ==
  ASSUME TypeOK, NEW t \in Threads, NEW m \in Messages, log' = [log EXCEPT ![t] = Append(log[t], m)]
  PROVE  History' = [History EXCEPT ![t] = Append(History[t], <<m.turn, m.role>>)]
<1>1. log \in [Threads -> Seq(Messages)] /\ log[t] \in Seq(Messages)
  BY DEF TypeOK
<1>2. \A z \in Threads : log'[z] = IF z = t THEN Append(log[t], m) ELSE log[z]
  BY <1>1
<1>3. Hist(Append(log[t], m)) = Append(Hist(log[t]), <<m.turn, m.role>>)
  BY <1>1, HistAppend
<1>4. History' = [z \in Threads |-> Hist(log'[z])]
  BY DEF History, Hist
<1>5. \A z \in Threads :
        Hist(log'[z]) = IF z = t THEN Append(Hist(log[t]), <<m.turn, m.role>>) ELSE Hist(log[z])
  <2> SUFFICES ASSUME NEW z \in Threads
               PROVE  Hist(log'[z]) = IF z = t THEN Append(Hist(log[t]), <<m.turn, m.role>>)
                                               ELSE Hist(log[z])
    OBVIOUS
  <2>1. CASE z = t
    <3>1. log'[z] = Append(log[t], m)
      BY <1>2, <2>1
    <3>2. Hist(log'[z]) = Hist(Append(log[t], m))
      BY <3>1 DEF Hist
    <3> QED
      BY <1>3, <2>1, <3>2
  <2>2. CASE z # t
    <3>1. log'[z] = log[z]
      BY <1>2, <2>2
    <3> QED
      BY <2>2, <3>1 DEF Hist
  <2> QED
    BY <2>1, <2>2
<1> QED
  BY <1>4, <1>5 DEF History

\* The parts of Conversation's actions, in its own terms.
LEMMA ConvAsk ==
  ASSUME NEW t \in Threads, NEW r \in Turns,
         States[t] # "gone", States' = [States EXCEPT ![t] = "live"],
         \A i \in 1..Len(History[t]) : History[t][i][1] # r,
         History' = [History EXCEPT ![t] = Append(History[t], <<r, "user">>)]
  PROVE  Conv!Next
<1>1. Conv!Ask(t, r)
  BY DEF Conv!Ask, States, History, Hist
<1> QED
  BY <1>1 DEF Conv!Next

\* An answer.
LEMMA ConvAnswer ==
  ASSUME NEW t \in Threads, NEW r \in Turns,
         States[t] = "live", UNCHANGED States,
         History[t] # <<>>, History[t][Len(History[t])] = <<r, "user">>,
         History' = [History EXCEPT ![t] = Append(History[t], <<r, "assistant">>)]
  PROVE  Conv!Next
<1>1. Conv!Answer(t, r)
  BY DEF Conv!Answer, States, History, Hist
<1> QED
  BY <1>1 DEF Conv!Next

\* A new thread.
LEMMA ConvCreate ==
  ASSUME NEW t \in Threads, States[t] = "new", States' = [States EXCEPT ![t] = "live"],
         UNCHANGED History
  PROVE  Conv!Next
<1>1. Conv!Create(t)
  BY DEF Conv!Create, States, History, Hist
<1> QED
  BY <1>1 DEF Conv!Next

\* A deleted thread.
LEMMA ConvDelete ==
  ASSUME NEW t \in Threads, States[t] = "live", States' = [States EXCEPT ![t] = "gone"],
         History' = [History EXCEPT ![t] = <<>>]
  PROVE  Conv!Next
<1>1. Conv!Delete(t)
  BY DEF Conv!Delete, States, History, Hist
<1> QED
  BY <1>1 DEF Conv!Next

\* The answer of a turn at work follows its question.
LEMMA FinishConv ==
  ASSUME Inv, NEW r \in Turns, Alive(r), NEW status \in Statuses, Finish(r, status)
  PROVE  Conv!Next \/ UNCHANGED <<States, History>>
<1> DEFINE t == turn[r].thread
           m == AnswerOf(r, status)
<1>1. CASE ~Live(t)
  BY <1>1, ConvStutter DEF Finish, Dies, Live
<1>2. CASE Live(t)
  <2>1. log' = [log EXCEPT ![t] = Append(log[t], m)] /\ UNCHANGED threads
    BY <1>2 DEF Finish, Live
  <2>2. t \in Threads /\ WorkOK(r) /\ log[t] \in Seq(Messages) /\ Len(log[t]) \in Nat
    BY <1>2, AtWork, Types DEF Inv
  <2>3. m \in Messages /\ m.turn = r /\ m.role = "assistant"
    BY DEF AnswerOf, Messages
  <2> HIDE DEF m
  <2>4. History' = [History EXCEPT ![t] = Append(History[t], <<r, "assistant">>)]
    BY <2>1, <2>2, <2>3, HistoryAppended DEF Inv
  <2>5. States[t] = "live" /\ UNCHANGED States
    BY <1>2, <2>1, <2>2 DEF States, Live
  <2>6. History[t] # <<>> /\ History[t][Len(History[t])] = <<r, "user">>
    <3> DEFINE h == [i \in 1..Len(log[t]) |-> <<log[t][i].turn, log[t][i].role>>]
    <3>1. History[t] = h
      BY <2>2 DEF History, Hist
    <3>2. log[t][Len(log[t])].turn = r /\ log[t][Len(log[t])].role = "user" /\ Len(log[t]) > 0
      BY <2>2 DEF WorkOK, Question
    <3>3. Len(h) = Len(log[t])
      BY <2>2
    <3>4. h[Len(log[t])] = <<r, "user">>
      BY <2>2, <3>2
    <3>5. Len(<<>>) = 0
      OBVIOUS
    <3> HIDE DEF h
    <3> QED
      BY <2>2, <3>1, <3>2, <3>3, <3>4, <3>5
  <2> QED
    BY <2>2, <2>4, <2>5, <2>6, ConvAnswer
<1> QED
  BY <1>1, <1>2

\* A step of a task stores the answer or changes nothing Conversation sees.
LEMMA TaskConv ==
  ASSUME Inv, NEW r \in Turns, TaskStep(r)
  PROVE  Conv!Next \/ UNCHANGED <<States, History>>
<1>1. CASE ~\E status \in Statuses : Finish(r, status)
  <2>1. UNCHANGED log
    BY <1>1, AtWork DEF TaskStep, NeverRuns, Begin, Summarised, SummaryFails, Answered, Interrupted,
       CloseInterrupted, Closed, Leave, Dies, Statuses, Alive, TurnRecords
  <2>2. \/ UNCHANGED threads
        \/ \E s : threads' = [threads EXCEPT ![turn[r].thread].summary = s]
    BY <1>1, AtWork DEF TaskStep, NeverRuns, Begin, Summarised, SummaryFails, Answered, Interrupted,
       CloseInterrupted, Closed, Leave, Dies, Statuses, Alive, TurnRecords
  <2>3. \A t \in Threads : threads'[t].state = threads[t].state
    <3>1. threads \in [Threads -> [state : {"new", "live", "gone"}, summary : Summaries]]
      BY DEF Inv, TypeOK
    <3>2. ASSUME NEW s, NEW z, threads' = [threads EXCEPT ![z].summary = s], NEW t \in Threads
          PROVE  threads'[t].state = threads[t].state
      BY <3>1, <3>2
    <3> QED
      BY <2>2, <3>2
  <2> QED
    BY <2>1, <2>3, ConvStutter
<1>2. ASSUME NEW status \in Statuses, Finish(r, status)
      PROVE  Conv!Next \/ UNCHANGED <<States, History>>
  <2>1. Alive(r)
    BY DEF TaskStep, NeverRuns, Begin, Summarised, SummaryFails, Answered, Interrupted,
       CloseInterrupted, Closed, Alive
  <2> QED
    BY <1>2, <2>1, FinishConv
<1> QED
  BY <1>1, <1>2

\* Every step is a step of Conversation or a stutter.
LEMMA ConvNext == Inv /\ [Next]_vars => Conv!Next \/ UNCHANGED <<States, History>>
<1> SUFFICES ASSUME Inv, [Next]_vars PROVE Conv!Next \/ UNCHANGED <<States, History>>
  OBVIOUS
<1>1. threads \in [Threads -> [state : {"new", "live", "gone"}, summary : Summaries]]
  BY DEF Inv, TypeOK
<1>2. CASE UNCHANGED vars
  BY <1>2, ConvStutter DEF vars
<1>3. ASSUME NEW t \in Threads, CreateThread(t) PROVE Conv!Next
  <2>1. States[t] = "new" /\ States' = [States EXCEPT ![t] = "live"]
    BY <1>1, <1>3 DEF CreateThread, States
  <2>2. UNCHANGED History
    BY <1>3 DEF CreateThread, History
  <2> QED
    BY <2>1, <2>2, ConvCreate
<1>4. ASSUME NEW t \in Threads, StartTurn(t) PROVE Conv!Next
  <2>1. PICK r \in Turns : r = Cardinality(Started) + 1
    BY <1>4 DEF StartTurn
  <2> DEFINE m == Question(r)
  <2>2. /\ threads[t].state # "gone" /\ threads' = [threads EXCEPT ![t].state = "live"]
        /\ log' = [log EXCEPT ![t] = Append(log[t], m)]
    BY <1>4, <2>1 DEF StartTurn
  <2>3. m \in Messages /\ m.turn = r /\ m.role = "user"
    BY DEF Question, Messages, Statuses
  <2> HIDE DEF m
  <2>4. States[t] # "gone" /\ States' = [States EXCEPT ![t] = "live"]
    BY <1>1, <2>2 DEF States
  <2>5. History' = [History EXCEPT ![t] = Append(History[t], <<r, "user">>)]
    BY <2>2, <2>3, HistoryAppended DEF Inv
  <2>6. turn[r].pc = "idle"
    <3>1. Cardinality(Started) \in Nat /\ Started = 1..Cardinality(Started)
      BY NextTurn DEF Inv
    <3>2. r \notin Started
      BY <2>1, <3>1
    <3> QED
      BY <3>2 DEF Started
  <2>7. \A i \in 1..Len(History[t]) : History[t][i][1] # r
    <3> DEFINE h == [i \in 1..Len(log[t]) |-> <<log[t][i].turn, log[t][i].role>>]
    <3>1. History[t] = h /\ Len(log[t]) \in Nat
      BY Types DEF Inv, History, Hist
    <3>2. Len(h) = Len(log[t])
      BY <3>1
    <3>3. ASSUME NEW i \in 1..Len(log[t]) PROVE h[i][1] # r
      <4>1. log[t][i].turn # r
        BY <2>6 DEF Inv, ThreadInv
      <4> QED
        BY <4>1
    <3> HIDE DEF h
    <3> QED
      BY <3>1, <3>2, <3>3
  <2> QED
    BY <2>4, <2>5, <2>7, ConvAsk
<1>5. ASSUME NEW t \in Threads, DeleteThread(t) PROVE Conv!Next
  <2>1. States[t] = "live" /\ States' = [States EXCEPT ![t] = "gone"]
    BY <1>1, <1>5 DEF DeleteThread, States
  <2>2. log' = [log EXCEPT ![t] = <<>>] /\ log \in [Threads -> Seq(Messages)]
    BY <1>5 DEF DeleteThread, Inv, TypeOK
  <2>3. Hist(<<>>) = <<>>
    BY DEF Hist
  <2>4. History' = [z \in Threads |-> Hist(log'[z])]
    BY DEF History, Hist
  <2>5. \A z \in Threads : Hist(log'[z]) = IF z = t THEN <<>> ELSE Hist(log[z])
    BY <2>2, <2>3
  <2>6. History' = [History EXCEPT ![t] = <<>>]
    BY <2>4, <2>5 DEF History
  <2> QED
    BY <2>1, <2>6, ConvDelete
<1>6. ASSUME NEW t \in Threads, Interrupt(t) \/ \E keep \in Keeps : CompactStart(t, keep)
      PROVE  UNCHANGED <<States, History>>
  BY <1>6, ConvStutter DEF Interrupt, CompactStart
<1>7. ASSUME NEW k \in Compactions, CompactEnd(k) PROVE UNCHANGED <<States, History>>
  <2>1. UNCHANGED log
    BY <1>7 DEF CompactEnd
  <2>2. \A t \in Threads : threads'[t].state = threads[t].state
    BY <1>1, <1>7 DEF CompactEnd
  <2> QED
    BY <2>1, <2>2, ConvStutter
<1>8. ASSUME NEW r \in Turns, Hear(r) \/ GoAway(r) PROVE UNCHANGED <<States, History>>
  BY <1>8, ConvStutter DEF Hear, GoAway
<1>9. CASE Restart
  BY <1>9, ConvStutter DEF Restart
<1> QED
  BY <1>2, <1>3, <1>4, <1>5, <1>6, <1>7, <1>8, <1>9, TaskConv DEF Next

\* The history of every thread is a conversation: an answer is stored at most
\* once, right after its question, whatever is stopped, deleted, compacted or
\* restarted.
THEOREM ChatKeepsConversation == Spec => KeepsConversation
<1>1. Init => Conv!Init
  BY ConvInit
<1>2. Inv /\ [Next]_vars => Conv!Next \/ UNCHANGED <<States, History>>
  BY ConvNext
<1> QED
  BY <1>1, <1>2, ChatInvariant, PTL DEF Spec, KeepsConversation, Conv!Spec, States, History, Hist
=============================================================================
