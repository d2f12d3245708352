------------------------------ MODULE ChatRuns ------------------------------
(***************************************************************************)
(* The playground chat: threads in the store, the assistant turn that runs *)
(* in a task of its own (runner.py), and the requests that meet it on the  *)
(* event loop (main.py): stop, delete, compact, a page that goes away, and *)
(* a restart of the service.                                               *)
(*                                                                         *)
(* One action is what runs between two awaits.  The model, its tools and   *)
(* the summariser are the environment; the text of a message and the steps *)
(* of an answer are left out.                                              *)
(***************************************************************************)
EXTENDS Integers, FiniteSetsExt, SequencesExt

CONSTANTS
  Threads,      \* ids of threads
  MaxTurns,     \* bound on the turns of a behaviour
  KeepTurns,    \* context.KEEP_TURNS, the turns automatic compaction keeps (2 in the code)
  Keeps,        \* values of keep_turns in a compact request
  MaxCompactions,  \* bound on the compact requests of a behaviour
  NoTurn        \* the thread is not in RUNS

Turns == 1..MaxTurns
Compactions == 1..MaxCompactions

ASSUME BoundAssumption ==
  /\ MaxTurns \in Nat /\ MaxCompactions \in Nat
  /\ KeepTurns \in Nat /\ Keeps \subseteq Nat
ASSUME NoTurnAssumption == NoTurn \notin Turns

VARIABLES
  threads,   \* the threads table
  log,       \* the messages table: thread -> its messages by seq
  RUNS,      \* thread -> its running turn
  turn,      \* turn -> the Run and the local state of its task
  stream,    \* turn -> the event stream of the page that sent the question: open, the
             \* terminal event in its queue, or closed
  compact,   \* compact request -> what it read before it awaits the model
  restarted  \* history: turns that a restart of the service cut off

vars == <<threads, log, RUNS, turn, stream, compact, restarted>>

\* A summary is what the thread's row knows of it: the number of messages it
\* stands for (summary_through + 1) and, as history, the messages folded into it.
NoSummary == [through |-> 0, covers |-> {}]

NotAsked == [pc |-> "idle", thread |-> NoTurn, summary |-> NoSummary, cut |-> 0, seen |-> {},
             status |-> "complete",
             cancel |-> FALSE, stop |-> "no"]

\* The task of a turn has not ended, and may do its next step.
Alive(r) == turn[r].pc \notin {"idle", "over"}
Started == {r \in Turns : turn[r].pc # "idle"}

-----------------------------------------------------------------------------
(* context.py.                                                             *)

UserTurns(t, from, to) == {i \in from..to : log[t][i].role = "user"}

\* compaction_cut, as the set that holds the number of messages the new summary
\* stands for: all but those of the last keep turns; empty when no turn is old enough.
Cuts(t, through, keep) ==
  {c \in (through + 1)..Len(log[t]) :
     /\ UserTurns(t, through + 1, c) # {}
     /\ Cardinality(UserTurns(t, c + 1, Len(log[t]))) = keep
     /\ IF keep = 0 THEN c = Len(log[t]) ELSE log[t][c + 1].role = "user"}

\* Mutant: the message at the cut is left out of the summary.
FoldBelowCut(s, cut) == [through |-> cut, covers |-> s.covers \cup (s.through + 1)..(cut - 1)]

\* The summary of messages s.through+1..cut folded into summary s.
Fold(s, cut) == [through |-> cut, covers |-> s.covers \cup (s.through + 1)..cut]

\* The messages the model gets: those the summary stands for and the later ones.
\* history_messages and system_message
ContextOf(t, s) == s.covers \cup (s.through + 1)..Len(log[t])

Question(r) == [turn |-> r, role |-> "user", status |-> "complete"]
AnswerOf(r, status) == [turn |-> r, role |-> "assistant", status |-> status]

-----------------------------------------------------------------------------
(* The end of a task.                                                      *)

\* What is left of a task that has ended; its local state is gone.
Over(r) == [NotAsked EXCEPT !.pc = "over", !.thread = turn[r].thread, !.stop = turn[r].stop]

\* The task ends without reaching the end of its finally block.
Dies(r) ==
  /\ turn' = [turn EXCEPT ![r] = Over(r)]
  /\ UNCHANGED <<threads, log, RUNS, stream>>

\* The rest of the finally block: the answer is stored, the thread is free and
\* the terminal event is published.  The insert fails when the thread is gone.
Finish(r, status) ==
  LET t == turn[r].thread IN
  IF threads[t].state = "live"
  THEN /\ log' = [log EXCEPT ![t] = Append(@, AnswerOf(r, status))]
       /\ RUNS' = [RUNS EXCEPT ![t] = NoTurn]
       /\ turn' = [turn EXCEPT ![r] = Over(r)]
       /\ stream' = [stream EXCEPT ![r] =
            IF @ # "open" THEN @ ELSE IF status = "complete" THEN "done" ELSE status]
       /\ UNCHANGED threads
  ELSE Dies(r)

\* The try block was left with this status: the http client is closed first,
\* which awaits; a turn whose request names no proxy has none.
Leave(r, status) ==
  \/ /\ turn' = [turn EXCEPT ![r].pc = "closing", ![r].status = status,
                              ![r].cancel = FALSE, ![r].seen = {}]
     /\ UNCHANGED <<threads, log, RUNS, stream>>
  \/ Finish(r, status)

-----------------------------------------------------------------------------
(* Requests.                                                               *)

\* POST /threads
CreateThread(t) ==
  /\ threads[t].state = "new"
  /\ threads' = [threads EXCEPT ![t].state = "live"]
  /\ UNCHANGED <<log, RUNS, turn, stream, compact, restarted>>

\* Mutant: a turn starts although the thread is answering.
StartTurnAgain(t) ==
  LET r == Cardinality(Started) + 1 IN
  /\ r \in Turns
  /\ threads[t].state # "gone"
  /\ threads' = [threads EXCEPT ![t].state = "live"]
  /\ log' = [log EXCEPT ![t] = Append(@, Question(r))]
  /\ RUNS' = [RUNS EXCEPT ![t] = r]
  /\ turn' = [turn EXCEPT ![r] = [NotAsked EXCEPT !.pc = "scheduled", !.thread = t,
                                                  !.summary = threads[t].summary]]
  /\ stream' = [stream EXCEPT ![r] = "open"]
  /\ UNCHANGED <<compact, restarted>>

\* POST /chat: start_turn in an existing or a new thread, and the page's stream.
StartTurn(t) ==
  LET r == Cardinality(Started) + 1 IN
  /\ r \in Turns
  /\ threads[t].state # "gone" /\ RUNS[t] = NoTurn
  /\ threads' = [threads EXCEPT ![t].state = "live"]
  /\ log' = [log EXCEPT ![t] = Append(@, Question(r))]
  /\ RUNS' = [RUNS EXCEPT ![t] = r]
  /\ turn' = [turn EXCEPT ![r] = [NotAsked EXCEPT !.pc = "scheduled", !.thread = t,
                                                  !.summary = threads[t].summary]]
  /\ stream' = [stream EXCEPT ![r] = "open"]
  /\ UNCHANGED <<compact, restarted>>

\* The task is inside its try block.
InTry == {"compacting", "answering"}

\* runner.interrupt: a task that has not ended is cancelled at its next step.
Cancelled(t) ==
  LET r == RUNS[t] IN
  IF r # NoTurn /\ Alive(r)
  THEN [turn EXCEPT ![r].cancel = TRUE,
                    ![r].stop = CASE turn[r].pc = "scheduled" -> "early"
                                  [] turn[r].pc \in InTry    -> "in try"
                                  [] turn[r].pc = "closing"  -> "late"]
  ELSE turn

\* POST /threads/{tid}/interrupt; what it waits for afterwards changes nothing.
Interrupt(t) ==
  /\ threads[t].state = "live" /\ RUNS[t] # NoTurn
  /\ turn' = Cancelled(t)
  /\ UNCHANGED <<threads, log, RUNS, stream, compact, restarted>>

\* DELETE /threads/{tid}: the messages go with the thread.
DeleteThread(t) ==
  /\ threads[t].state = "live"
  /\ turn' = Cancelled(t)
  /\ threads' = [threads EXCEPT ![t].state = "gone"]
  /\ log' = [log EXCEPT ![t] = <<>>]
  /\ UNCHANGED <<RUNS, stream, compact, restarted>>

\* POST /threads/{tid}/compact up to the call of the summariser.
CompactStart(t, keep) ==
  LET k == Cardinality({j \in Compactions : compact[j].pc # "idle"}) + 1 IN
  /\ k \in Compactions
  /\ threads[t].state = "live" /\ RUNS[t] = NoTurn
  /\ \E cut \in Cuts(t, threads[t].summary.through, keep) :
       compact' = [compact EXCEPT ![k] = [pc |-> "waiting", thread |-> t,
                                          summary |-> Fold(threads[t].summary, cut)]]
  /\ UNCHANGED <<threads, log, RUNS, turn, stream, restarted>>

\* The summariser answered, or failed: the row is updated with what was read
\* before, unless the thread is gone by now.
CompactEnd(k) ==
  /\ compact[k].pc = "waiting"
  /\ compact' = [compact EXCEPT ![k] = [pc |-> "done", thread |-> NoTurn, summary |-> NoSummary]]
  /\ \/ UNCHANGED threads
     \/ LET t == compact[k].thread IN
        /\ threads[t].state = "live"
        /\ threads' = [threads EXCEPT ![t].summary = compact[k].summary]
  /\ UNCHANGED <<log, RUNS, turn, stream, restarted>>

\* Mutant: "interrupted" is no terminal event.
HearNoStop(r) ==
  /\ stream[r] \in {"done", "error"}
  /\ stream' = [stream EXCEPT ![r] = "closed"]
  /\ UNCHANGED <<threads, log, RUNS, turn, compact, restarted>>

\* The page's stream ends after the terminal event.
Hear(r) ==
  /\ stream[r] \in {"done", "interrupted", "error"}
  /\ stream' = [stream EXCEPT ![r] = "closed"]
  /\ UNCHANGED <<threads, log, RUNS, turn, compact, restarted>>

\* The page goes away: the turn keeps running.
GoAway(r) ==
  /\ stream[r] \notin {"none", "closed"}
  /\ stream' = [stream EXCEPT ![r] = "closed"]
  /\ UNCHANGED <<threads, log, RUNS, turn, compact, restarted>>

\* The service stops and starts again: only the database is left.
Restart ==
  /\ \E t \in Threads : RUNS[t] # NoTurn
  /\ RUNS' = [t \in Threads |-> NoTurn]
  /\ turn' = [r \in Turns |-> IF Alive(r) THEN Over(r) ELSE turn[r]]
  /\ restarted' = restarted \cup {r \in Turns : Alive(r)}
  /\ stream' = [r \in Turns |-> IF stream[r] = "none" THEN "none" ELSE "closed"]
  /\ compact' = [k \in Compactions |->
       IF compact[k].pc = "waiting"
       THEN [pc |-> "done", thread |-> NoTurn, summary |-> NoSummary] ELSE compact[k]]
  /\ UNCHANGED <<threads, log>>

-----------------------------------------------------------------------------
(* The task of a turn.                                                     *)

\* A task that is cancelled before its first step never runs.
NeverRuns(r) == turn[r].pc = "scheduled" /\ turn[r].cancel /\ Dies(r)

\* The first step of _run, to its first await: make_llm, which may fail, and
\* prepare_context, which compacts first when the estimate is above the limit
\* and a turn is old enough.
Begin(r) ==
  LET t == turn[r].thread  s == turn[r].summary IN
  /\ turn[r].pc = "scheduled" /\ ~turn[r].cancel
  /\ \/ Finish(r, "error")
     \/ \E cut \in Cuts(t, s.through, KeepTurns) :
          /\ turn' = [turn EXCEPT ![r].pc = "compacting", ![r].cut = cut]
          /\ UNCHANGED <<threads, log, RUNS, stream>>
     \/ /\ turn' = [turn EXCEPT ![r].pc = "answering", ![r].summary = NoSummary,
                                 ![r].seen = ContextOf(t, s)]
        /\ UNCHANGED <<threads, log, RUNS, stream>>

\* Mutant: the system message has the summary of before, the history the new cut.
SummarisedStale(r) ==
  LET t == turn[r].thread  s == Fold(turn[r].summary, turn[r].cut) IN
  /\ turn[r].pc = "compacting" /\ ~turn[r].cancel
  /\ turn' = [turn EXCEPT ![r].pc = "answering", ![r].summary = NoSummary, ![r].cut = 0,
       ![r].seen = turn[r].summary.covers \cup (turn[r].cut + 1)..Len(log[t])]
  /\ threads' = IF threads[t].state = "live" THEN [threads EXCEPT ![t].summary = s] ELSE threads
  /\ UNCHANGED <<log, RUNS, stream>>

\* The summary of the oldest turns is there; the thread's row gets it.
Summarised(r) ==
  LET t == turn[r].thread  s == Fold(turn[r].summary, turn[r].cut) IN
  /\ turn[r].pc = "compacting" /\ ~turn[r].cancel
  /\ turn' = [turn EXCEPT ![r].pc = "answering", ![r].seen = ContextOf(t, s),
                          ![r].summary = NoSummary, ![r].cut = 0]
  /\ threads' = IF threads[t].state = "live" THEN [threads EXCEPT ![t].summary = s] ELSE threads
  /\ UNCHANGED <<log, RUNS, stream>>

\* The agent streams its events to the end, or fails.
Answered(r) ==
  /\ turn[r].pc = "answering" /\ ~turn[r].cancel
  /\ \E status \in {"complete", "error"} : Leave(r, status)

\* The summariser fails.
SummaryFails(r) == turn[r].pc = "compacting" /\ ~turn[r].cancel /\ Leave(r, "error")

\* Mutant: the cancellation is not caught.
InterruptedUncaught(r) ==
  turn[r].pc \in {"compacting", "answering"} /\ turn[r].cancel /\ Dies(r)

\* Mutant: the cancellation is only caught while the agent streams.
InterruptedStream(r) ==
  turn[r].pc = "answering" /\ turn[r].cancel /\ Leave(r, "interrupted")

\* The cancellation arrives in the try block ...
Interrupted(r) ==
  turn[r].pc \in {"compacting", "answering"} /\ turn[r].cancel /\ Leave(r, "interrupted")

\* ... or while the client is closed: it leaves the finally block.
CloseInterrupted(r) == turn[r].pc = "closing" /\ turn[r].cancel /\ Dies(r)

\* The client is closed, or failed to close.
Closed(r) == turn[r].pc = "closing" /\ ~turn[r].cancel /\ Finish(r, turn[r].status)

\* The event loop runs the task up to its next await.
TaskStep(r) ==
  /\ \/ NeverRuns(r) \/ Begin(r) \/ Summarised(r) \/ SummaryFails(r) \/ Answered(r)
     \/ Interrupted(r) \/ CloseInterrupted(r) \/ Closed(r)
  /\ UNCHANGED <<compact, restarted>>

-----------------------------------------------------------------------------

Init ==
  /\ threads = [t \in Threads |-> [state |-> "new", summary |-> NoSummary]]
  /\ log = [t \in Threads |-> <<>>]
  /\ RUNS = [t \in Threads |-> NoTurn]
  /\ turn = [r \in Turns |-> NotAsked]
  /\ stream = [r \in Turns |-> "none"]
  /\ compact = [k \in Compactions |->
       [pc |-> "idle", thread |-> NoTurn, summary |-> NoSummary]]
  /\ restarted = {}

Next ==
  \/ \E t \in Threads : \/ CreateThread(t) \/ StartTurn(t) \/ Interrupt(t) \/ DeleteThread(t)
                        \/ \E keep \in Keeps : CompactStart(t, keep)
  \/ \E k \in Compactions : CompactEnd(k)
  \/ \E r \in Turns : TaskStep(r) \/ Hear(r) \/ GoAway(r)
  \/ Restart

Spec == Init /\ [][Next]_vars

\* The event loop runs every task that is ready, and sends every queued event;
\* the model and the tools answer or fail.
Fairness == \A r \in Turns : WF_vars(TaskStep(r)) /\ WF_vars(Hear(r))

FairSpec == Spec /\ Fairness

-----------------------------------------------------------------------------
(* Properties.                                                             *)

Summaries == [through : Nat, covers : SUBSET Nat]
Pcs == {"idle", "scheduled", "compacting", "answering", "closing", "over"}

Statuses == {"complete", "error", "interrupted"}
Messages == [turn : Turns, role : {"user", "assistant"}, status : Statuses]
TurnRecords ==
  [pc : Pcs, thread : Threads \cup {NoTurn}, summary : Summaries, cut : Nat, seen : SUBSET Nat,
   status : Statuses, cancel : BOOLEAN, stop : {"no", "early", "in try", "late"}]

\* Every variable holds a value of its kind.
TypeOK ==
  /\ threads \in [Threads -> [state : {"new", "live", "gone"}, summary : Summaries]]
  /\ log \in [Threads -> Seq(Messages)]
  /\ RUNS \in [Threads -> Turns \cup {NoTurn}]
  /\ turn \in [Turns -> TurnRecords]
  /\ stream \in [Turns -> {"none", "open", "done", "interrupted", "error", "closed"}]
  /\ compact \in [Compactions -> [pc : {"idle", "waiting", "done"},
                                  thread : Threads \cup {NoTurn}, summary : Summaries]]
  /\ restarted \subseteq Turns

\* A thread's history, for the abstract specification.
Conv == INSTANCE Conversation WITH
  state <- [t \in Threads |-> threads[t].state],
  history <- [t \in Threads |-> [i \in 1..Len(log[t]) |-> <<log[t][i].turn, log[t][i].role>>]]

\* Whatever is stopped, deleted, compacted or restarted: an answer is stored at
\* most once, right after its question.
KeepsConversation == Conv!Spec

\* The summary of a thread stands for exactly the messages it replaces in the
\* context, although two compactions and a running turn may write it, each from
\* what it read before it waited for the model.
SummaryCoversPrefix ==
  \A t \in Threads : threads[t].state = "live" =>
    /\ threads[t].summary.through <= Len(log[t])
    /\ threads[t].summary.covers = 1..threads[t].summary.through

\* "Every turn the model gets the whole conversation": every message up to the
\* question, in the summary or verbatim.
ContextIsWhole ==
  \A r \in Turns : turn[r].pc = "answering" /\ threads[turn[r].thread].state = "live" =>
    turn[r].seen = 1..Len(log[turn[r].thread])

\* The answer of turn r as it was stored.
Stored(r) == {m \in {log[turn[r].thread][i] : i \in 1..Len(log[turn[r].thread])} :
                m.turn = r /\ m.role = "assistant"}

\* A turn that ends, by itself or stopped within its try block, has stored its
\* answer, marked interrupted exactly when it was stopped, and the thread can
\* answer again.
TurnsAreStored ==
  \A r \in Turns :
    /\ turn[r].pc = "over" /\ r \notin restarted /\ turn[r].stop \in {"no", "in try"}
    /\ threads[turn[r].thread].state = "live"
    => /\ RUNS[turn[r].thread] # r
       /\ \E m \in Stored(r) : m.status = "interrupted" <=> turn[r].stop = "in try"

\* "What was written so far is kept and marked as stopped": also when the stop
\* comes while the http client of the turn is closed.
StoppedAnswerIsKept ==
  \A r \in Turns :
    /\ turn[r].pc = "over" /\ r \notin restarted /\ turn[r].stop # "early"
    /\ threads[turn[r].thread].state = "live"
    => Stored(r) # {}

\* Every turn ends.
TurnsEnd == \A r \in Turns : Alive(r) ~> ~Alive(r)

\* A page that stays hears of the end of its turn, unless the thread is deleted
\* meanwhile or the stop comes outside the turn's try block.
PagesHear ==
  \A r \in Turns :
    stream[r] # "none" ~>
      \/ stream[r] = "closed"
      \/ turn[r].stop \in {"early", "late"}
      \/ \E t \in Threads : turn[r].thread = t /\ threads[t].state = "gone"
=============================================================================
