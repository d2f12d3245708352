------------------------------ MODULE DataJobs ------------------------------
(***************************************************************************)
(* The job runner of the data service (infra/data-admin/jobs.py): the      *)
(* registry and its history on disk, a thread per job, requests to stop a  *)
(* job, the log streams of pages, and a restart of the service.            *)
(*                                                                         *)
(* An action is what no other thread can see the middle of: a step under   *)
(* the registry's or the job's lock, one save, or one assignment of the    *)
(* status.  What a job does is the environment: it logs lines, and returns *)
(* or raises.  A save that fails is passed over in silence and leaves the  *)
(* file as it was; a service without a jobs directory is one whose saves   *)
(* all fail.                                                               *)
(***************************************************************************)
EXTENDS Integers, FiniteSetsExt, SequencesExt

CONSTANTS
  MaxJobs,        \* bound on the ids of a behaviour
  MaxHistory,     \* _MAX_HISTORY (200 in the code)
  MaxSubmitting,  \* submits at the same time: the request threads (at most 40)
  MaxLines,       \* _MAX_LINES (1000 in the code)
  KeepLines,      \* _KEEP_LINES (300 in the code)
  Second,         \* id -> the second of its created_at
  IdlePolls,      \* idle_timeout / poll of sse_logs
  LinesOf,        \* bound: id -> the lines its target logs at most
  Watched,        \* bound: the ids of the jobs that pages stop or follow
  MaxCancels,     \* bound on the requests to stop a job
  MaxRestarts,    \* bound on the restarts of the service
  Failing,        \* bound: the ids of the jobs that a save may fail for
  Streams         \* the log streams of pages

Jobs == 1..MaxJobs

ASSUME HistoryAssumption ==
  /\ MaxJobs \in Nat \ {0} /\ MaxHistory \in Nat \ {0}
  /\ MaxSubmitting \in Nat \ {0} /\ Failing \subseteq Jobs
ASSUME ClockAssumption ==
  /\ Second \in [Jobs -> Nat] /\ \A i, j \in Jobs : i < j => Second[i] <= Second[j]
  /\ \A j \in Jobs : Cardinality({i \in Jobs : Second[i] = Second[j]}) <= MaxHistory
ASSUME LogAssumption ==
  /\ MaxLines \in Nat \ {0} /\ KeepLines \in Nat /\ KeepLines <= MaxLines
  /\ IdlePolls \in Nat \ {0, 1}
  /\ LinesOf \in [Jobs -> Nat] /\ Watched \subseteq Jobs /\ MaxCancels \in Nat /\ MaxRestarts \in Nat

VARIABLES
  job,       \* id -> the Job object and where its thread is
  order,     \* _order, whose ids are the keys of _jobs
  n,         \* _n
  disk,      \* id -> its file in the jobs directory
  unsaved,   \* history: the jobs whose last save failed
  cancels,   \* the cancel requests: those past their check, and how many there were
  stream,    \* a page's log stream
  restarts   \* how often the service restarted

vars == <<job, order, n, disk, unsaved, cancels, stream, restarts>>

TERMINAL == {"done", "error", "cancelled", "interrupted"}

\* lines counts the lines logged so far, of which the object keeps the last
\* MaxLines; final, as history, those logged when the status became terminal.
NoJob == [pc |-> "none", status |-> "queued", cancel |-> FALSE, lines |-> 0, final |-> 0]
NoFile == [status |-> "none", lines |-> 0]

\* The job's submit or its thread still has steps to do.
Alive(j) == job[j].pc \notin {"none", "ended"}

\* What is written of a job: the status and the last KeepLines lines.
FileOf(j) == [status |-> job'[j].status, lines |-> Min({job'[j].lines, KeepLines})]

\* _save: the new file takes the place of the old one, or an error is swallowed.
Save(j) ==
  \/ disk' = [disk EXCEPT ![j] = FileOf(j)] /\ unsaved' = unsaved \ {j}
  \/ j \in Failing /\ disk' = disk /\ unsaved' = unsaved \cup {j}

-----------------------------------------------------------------------------
(* Submitting a job.                                                       *)

\* Mutant: the check for room is off by one.
KeptOneMore(ids) == SubSeq(ids, Max({1, Len(ids) - MaxHistory}), Len(ids))

\* The ids that stay in the registry.
Kept(ids) == SubSeq(ids, Max({1, Len(ids) - MaxHistory + 1}), Len(ids))

\* The part of submit under the registry's lock: a new id, and the oldest jobs
\* leave the registry and the disk, whether they have ended or not.
Submit(j) ==
  /\ j = n + 1
  /\ Cardinality({i \in Jobs : job[i].pc = "saving"}) < MaxSubmitting
  /\ n' = j
  /\ order' = Kept(Append(order, j))
  /\ disk' = [i \in Jobs |->
       IF i \in ToSet(order) \ ToSet(order') THEN NoFile ELSE disk[i]]
  /\ job' = [job EXCEPT ![j] = [NoJob EXCEPT !.pc = "saving"]]
  /\ UNCHANGED <<unsaved, cancels, stream, restarts>>

\* The rest of submit: the job is saved, the thread starts, the id is answered.
FirstSave(j) ==
  /\ job[j].pc = "saving"
  /\ job' = [job EXCEPT ![j].pc = "started"]
  /\ Save(j)
  /\ UNCHANGED <<order, n>>

-----------------------------------------------------------------------------
(* The job's thread.                                                       *)

Begin(j) ==
  /\ job[j].pc = "started"
  /\ job' = [job EXCEPT ![j].pc = "target", ![j].status = "running"]
  /\ Save(j)
  /\ UNCHANGED <<order, n>>

\* The target logs a line.
TargetLogs(j) ==
  /\ job[j].pc = "target" /\ job[j].lines < LinesOf[j]
  /\ job' = [job EXCEPT ![j].lines = @ + 1]
  /\ UNCHANGED <<order, n, disk, unsaved, cancels, stream, restarts>>

\* The target returns, with or without ok.
Return(j) ==
  /\ job[j].pc = "target"
  /\ \E ok \in BOOLEAN :
       job' = [job EXCEPT ![j].pc = "ending", ![j].final = job[j].lines,
                          ![j].status = IF job[j].cancel THEN "cancelled"
                                        ELSE IF ok THEN "done" ELSE "error"]
  /\ UNCHANGED <<order, n, disk, unsaved>>

\* The target raises: the status is set before the error is logged.
Raise(j) ==
  /\ job[j].pc = "target"
  /\ job' = [job EXCEPT ![j].pc = "raised", ![j].status = "error", ![j].final = job[j].lines]
  /\ UNCHANGED <<order, n, disk, unsaved>>

LogError(j) ==
  /\ job[j].pc = "raised"
  /\ job' = [job EXCEPT ![j].pc = "ending", ![j].lines = @ + 1]
  /\ UNCHANGED <<order, n, disk, unsaved>>

\* Mutant: the outcome is not saved.
FinalSaveNot(j) ==
  /\ job[j].pc = "ending"
  /\ job' = [job EXCEPT ![j].pc = "ended"]
  /\ UNCHANGED <<order, n, disk, unsaved>>

\* The finally block: the outcome is saved, also of a job the registry dropped.
FinalSave(j) ==
  /\ job[j].pc = "ending"
  /\ job' = [job EXCEPT ![j].pc = "ended"]
  /\ Save(j)
  /\ UNCHANGED <<order, n>>

\* The steps of submit and of the thread.
ThreadStep(j) ==
  /\ \/ FirstSave(j) \/ Begin(j) \/ Return(j) \/ Raise(j) \/ LogError(j) \/ FinalSave(j)
  /\ UNCHANGED <<cancels, stream, restarts>>

-----------------------------------------------------------------------------
(* Requests.                                                               *)

\* POST /data/jobs/{id}/cancel looks the job up and reads its status ...
AskCancel(j) ==
  /\ cancels.asked < MaxCancels
  /\ j \in ToSet(order) \cap Watched /\ job[j].status \notin TERMINAL
  /\ cancels' = [at |-> cancels.at \cup {j}, asked |-> cancels.asked + 1]
  /\ UNCHANGED <<job, order, n, disk, unsaved, stream, restarts>>

\* ... then it sets the flag and logs a line, whatever happened to the job since.
SetCancel(j) ==
  /\ j \in cancels.at
  /\ cancels' = [cancels EXCEPT !.at = @ \ {j}]
  /\ job' = [job EXCEPT ![j].cancel = TRUE, ![j].lines = @ + 1]
  /\ UNCHANGED <<order, n, disk, unsaved, stream, restarts>>

\* GET /data/jobs/{id}/logs
OpenStream(s, j) ==
  /\ stream[s].pc = "none" /\ j \in ToSet(order) \cap Watched
  /\ stream' = [stream EXCEPT ![s].pc = "open", ![s].job = j]
  /\ UNCHANGED <<job, order, n, disk, unsaved, cancels, restarts>>

\* The lines an object with k lines logged still has, and those from idx on.
Held(k) == Min({k, MaxLines})
LinesFrom(k, idx) == [i \in 1..Max({0, Held(k) - idx}) |-> k - Held(k) + idx + i]

\* The new lines are sent; what the generator remembers goes with its end.
Over(s, new, pc) == [stream[s] EXCEPT !.pc = pc, !.idx = 0, !.waited = 0, !.sent = @ \o new]

\* Mutant: a stream that sees a terminal status ends without the last lines.
PollEndsFirst(s) ==
  LET j == stream[s].job
      new == IF job[j].status \in TERMINAL THEN <<>> ELSE LinesFrom(job[j].lines, stream[s].idx)
      waited == IF new = <<>> THEN stream[s].waited + 1 ELSE 1
  IN /\ stream[s].pc = "open"
     /\ stream' = [stream EXCEPT ![s] =
          IF job[j].status \in TERMINAL THEN Over(s, new, "ended")
          ELSE IF waited >= IdlePolls THEN Over(s, new, "timeout")
          ELSE [Over(s, new, "open") EXCEPT !.idx = stream[s].idx + Len(new), !.waited = waited]]
     /\ UNCHANGED <<job, order, n, disk, unsaved, cancels, restarts>>

\* Mutant: a stream waits for its job without a limit.
PollPatient(s) ==
  LET j == stream[s].job
      new == LinesFrom(job[j].lines, stream[s].idx)
  IN /\ stream[s].pc = "open"
     /\ stream' = [stream EXCEPT ![s] =
          IF job[j].status \in TERMINAL THEN Over(s, new, "ended")
          ELSE [Over(s, new, "open") EXCEPT !.idx = stream[s].idx + Len(new)]]
     /\ UNCHANGED <<job, order, n, disk, unsaved, cancels, restarts>>

\* sse_logs: the lines from idx on and the status, read together, are sent; the
\* stream ends on a terminal status, or when no line came for IdlePolls polls.
Poll(s) ==
  LET j == stream[s].job
      new == LinesFrom(job[j].lines, stream[s].idx)
      waited == IF new = <<>> THEN stream[s].waited + 1 ELSE 1
  IN /\ stream[s].pc = "open"
     /\ stream' = [stream EXCEPT ![s] =
          IF job[j].status \in TERMINAL THEN Over(s, new, "ended")
          ELSE IF waited >= IdlePolls THEN Over(s, new, "timeout")
          ELSE [Over(s, new, "open") EXCEPT !.idx = stream[s].idx + Len(new), !.waited = waited]]
     /\ UNCHANGED <<job, order, n, disk, unsaved, cancels, restarts>>

-----------------------------------------------------------------------------
(* The service restarts.                                                   *)

NoStream == [pc |-> "none", job |-> 1, idx |-> 0, waited |-> 0, sent |-> <<>>]

Files == {j \in Jobs : disk[j].status # "none"}

\* What _load may make of the files: the last MaxHistory of them by created_at,
\* those of the same second in the order of the directory.
Loads ==
  {q \in SeqOf(Files, MaxHistory) :
     /\ IsInjective(q) /\ Len(q) = Min({MaxHistory, Cardinality(Files)})
     /\ \A k \in 1..Len(q) :
          /\ \A i \in 1..(k - 1) : Second[q[i]] <= Second[q[k]]
          /\ \A j \in Files \ ToSet(q) : Second[j] <= Second[q[k]]}

\* Mutant: the status of a loaded job is the one that was saved.
LoadStatusAsSaved(j) == disk[j].status

\* A job without an outcome was running when the service stopped.
LoadStatus(j) == IF disk[j].status \in TERMINAL THEN disk[j].status ELSE "interrupted"

\* Mutant: ids go on from the number of loaded jobs.
NextIdByCount(q) == Len(q)

\* The highest id of a loaded job.
LastId(q) == Max({0} \cup ToSet(q))

\* Threads, requests and streams are gone; the registry is loaded from disk, and
\* the jobs that are interrupted by that are saved.
Restart ==
  /\ restarts < MaxRestarts /\ restarts' = restarts + 1
  /\ \E q \in Loads : order' = q /\ n' = LastId(q)
  /\ unsaved' \in SUBSET {j \in ToSet(order') \cap Failing : disk[j].status \notin TERMINAL}
  /\ disk' = [j \in Jobs |->
       IF j \in ToSet(order') \ unsaved' THEN [disk[j] EXCEPT !.status = LoadStatus(j)] ELSE disk[j]]
  /\ job' = [j \in Jobs |->
       IF j \in ToSet(order')
       THEN [NoJob EXCEPT !.pc = "ended", !.status = LoadStatus(j),
                          !.lines = disk[j].lines, !.final = disk[j].lines]
       ELSE NoJob]
  /\ cancels' = [cancels EXCEPT !.at = {}]
  /\ stream' = [s \in Streams |-> NoStream]

-----------------------------------------------------------------------------

Init ==
  /\ job = [j \in Jobs |-> NoJob]
  /\ order = <<>>
  /\ n = 0
  /\ disk = [j \in Jobs |-> NoFile]
  /\ unsaved = {}
  /\ cancels = [at |-> {}, asked |-> 0]
  /\ stream = [s \in Streams |-> NoStream]
  /\ restarts = 0

Next ==
  \/ \E j \in Jobs : \/ Submit(j) \/ ThreadStep(j) \/ TargetLogs(j)
                     \/ AskCancel(j) \/ SetCancel(j)
                     \/ \E s \in Streams : OpenStream(s, j)
  \/ \E s \in Streams : Poll(s)
  \/ Restart

Spec == Init /\ [][Next]_vars

\* An open stream polls again.  Nothing is assumed of the jobs: a target may run
\* for ever.
Fairness == \A s \in Streams : WF_vars(Poll(s))

FairSpec == Spec /\ Fairness

-----------------------------------------------------------------------------
(* Properties.                                                             *)

Pcs == {"none", "saving", "started", "target", "raised", "ending", "ended"}

\* Every variable holds a value of its kind; the registry is in the order of
\* created_at and within its limit.
TypeOK ==
  /\ job \in [Jobs -> [pc : Pcs, status : TERMINAL \cup {"queued", "running"},
                       cancel : BOOLEAN, lines : Nat, final : Nat]]
  /\ disk \in [Jobs -> [status : TERMINAL \cup {"none", "queued", "running"}, lines : 0..KeepLines]]
  /\ unsaved \subseteq Failing /\ n \in 0..MaxJobs /\ Len(order) <= MaxHistory
  /\ IsInjective(order) /\ ToSet(order) \subseteq 1..n
  /\ \A i \in 1..Len(order), k \in 1..Len(order) : i < k => Second[order[i]] <= Second[order[k]]
  /\ cancels \in [at : SUBSET Jobs, asked : 0..MaxCancels]
  /\ \A s \in Streams : /\ stream[s].pc \in {"none", "open", "ended", "timeout"}
                        /\ stream[s].job \in Jobs /\ stream[s].idx \in 0..MaxLines
  /\ restarts \in 0..MaxRestarts

\* The history a page lists agrees with the disk: a job that is listed and has
\* no thread has an outcome, and a restart would make the same of its file,
\* unless the save of that outcome failed.
HistoryIsSaved ==
  \A j \in ToSet(order) : ~Alive(j) =>
    /\ job[j].status \in TERMINAL
    /\ \/ disk[j].status # "none" /\ LoadStatus(j) = job[j].status
       \/ j \in unsaved /\ job[j].status # "interrupted"

\* A stream never sends a line twice or out of order, and one that ends with
\* its job has sent every line logged before the job's status was set, unless
\* the log outgrew its limit.
StreamsCoverLog ==
  \A s \in Streams :
    LET sent == stream[s].sent  j == stream[s].job IN
    /\ \A i \in 2..Len(sent) : sent[i - 1] < sent[i]
    /\ stream[s].pc = "ended" /\ job[j].lines <= MaxLines => 1..job[j].final \subseteq ToSet(sent)

\* A job's life, for the abstract specification: what its file or its running
\* thread says of it, and lost if only its object still has the outcome.
Life == INSTANCE JobLife WITH
  state <- [j \in Jobs |->
    IF disk[j].status \in TERMINAL THEN disk[j].status
    ELSE IF job[j].pc = "saving" THEN "submitted"
    ELSE IF Alive(j) THEN "active"
    ELSE IF j \in unsaved /\ job[j].status \in TERMINAL \ {"interrupted"} THEN "lost"
    ELSE IF disk[j].status # "none" THEN "interrupted"
    ELSE IF j <= n THEN "forgotten" ELSE "new"]

\* Submits, evictions, restarts and saves that fail, between any two steps of the
\* threads, keep every outcome that was saved, and forget a job only if it is old
\* or its save failed; ids are given again to such jobs alone.
KeepsLife == Life!Spec

\* Every open stream ends, even when the job's target never does.
StreamsEnd == \A s \in Streams : stream[s].pc = "open" ~> stream[s].pc # "open"
=============================================================================
