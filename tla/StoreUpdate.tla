----------------------------- MODULE StoreUpdate -----------------------------
(***************************************************************************)
(* Updates of the data store (qfinzero/update): processes that plan, lock, *)
(* convert and record their results in one manifest file.  A cron job runs *)
(* the orchestrator; the data service runs it in a job of the Data tab,    *)
(* which may fetch new days first (infra/data-admin/main.py start_update). *)
(*                                                                         *)
(* An action is one access to what the processes share: the raw and the    *)
(* converted data, the lock and the manifest.  Converters and downloads    *)
(* are the environment: a converter may end well and have done less than   *)
(* it was asked to.  Days are numbers from 1, and raw data come in order   *)
(* and stay; 0 is no data.                                                 *)
(***************************************************************************)
EXTENDS Integers, FiniteSetsExt

CONSTANTS
  Dated,       \* the dated price sources
  Single,      \* the sources that are only there or not: corp_actions, rates
  Corp,        \* the source corp_actions
  Cron, Tab,   \* the updaters: cron jobs, and jobs of the Data tab
  Selections,  \* the sets of sources the Data tab may ask for
  NoOne,       \* nobody has the lock
  MaxDate,     \* bound on the dates
  MaxUpdates   \* bound on the updates from the Data tab

Sources == Dated \cup Single
Updaters == Cron \cup Tab
Dates == 0..MaxDate
Days == 1..MaxDate

ASSUME SourceAssumption ==
  Corp \in Single /\ Dated \cap Single = {} /\ Selections \subseteq SUBSET Sources
ASSUME UpdaterAssumption == NoOne \notin Updaters
ASSUME BoundAssumption == MaxDate \in Nat \ {0} /\ MaxUpdates \in Nat

VARIABLES
  raw,      \* source -> the last raw date
  store,    \* source -> the last converted date
  missed,   \* source -> the raw days before that which are not converted
  lock,     \* who has the lock of the domain "price", the only one with work
  up,       \* updater -> where it is, and its local variables
  file,     \* the manifest file: whole, empty or torn; and its entries
  behind,   \* history: the updaters that loaded the manifest before another's save
  last,     \* history: what was recorded last of each source, while exact
  exact,    \* history: no save lost anything so far
  left,     \* history: source -> of the days missed, those a fetch, a start that
            \* was given or a converter that did less left out
  claimed,  \* history: source -> the dates runs that ended well are recorded with and
            \* the store has not reached
  updates   \* how many updates the Data tab started

data == <<raw, store, missed, left, claimed>>
vars == <<data, lock, up, file, behind, last, exact, updates>>

\* An entry is the store date it gives; its status, counts and times are left out.
NoEntry == -1
NoEntries == [s \in Sources |-> NoEntry]
NoScan == [s \in Sources |-> [raw |-> 0, store |-> 0]]

\* result holds the store date to record of a source, once it has run or is skipped.
Idle == [pc |-> "idle", items |-> {}, todo |-> {}, scan |-> NoScan,
         result |-> NoEntries, fetched |-> {}, copy |-> NoEntries]

-----------------------------------------------------------------------------
(* Planning.                                                               *)

\* Mutant: the last day is never seen to be missing.
StaleLate(s) == raw[s] > 0 /\ (store[s] = 0 \/ (s \in Dated /\ raw[s] > store[s] + 1))

\* compute_freshness and _decide
Stale(s) == raw[s] > 0 /\ (store[s] = 0 \/ (s \in Dated /\ raw[s] > store[s]))

\* plan: what is stale, or all there is when forced; corp_actions with any price.
WillRun(items, force) ==
  LET chosen == {s \in items : Stale(s) \/ (force /\ raw[s] > 0)} IN
  chosen \cup IF chosen \cap Dated # {} THEN items \cap {Corp} ELSE {}

\* UpdateManifest.load: a file that is not whole counts as empty.
LoadedEntries == IF file.state = "whole" THEN file.entries ELSE NoEntries

\* _record: the results are put into the copy of the manifest.
Recorded(entries, result) ==
  [s \in Sources |-> IF result[s] = NoEntry THEN entries[s] ELSE result[s]]

-----------------------------------------------------------------------------
(* Converting.                                                             *)

\* The last date a source could be converted to.
Available(s) == IF s \in Dated THEN raw[s] ELSE 1

\* The days from the first to the newest are converted, but for some left out; what
\* was not converted before the first stays behind the last date of the store.
Convert(s, first, newest, out) ==
  /\ store' = [store EXCEPT ![s] = newest]
  /\ missed' = [missed EXCEPT ![s] =
                  (@ \cup ((store[s] + 1)..newest)) \ ((first..newest) \ out)]

\* Whether days that are missed now may be, and which dates the run reports.
Remark(s, may, reported) ==
  /\ left' = [left EXCEPT ![s] = IF may THEN missed'[s] ELSE @ \cap missed'[s]]
  /\ claimed' = [claimed EXCEPT ![s] = {date \in @ \cup reported : date > store'[s]}]

-----------------------------------------------------------------------------
(* Starting an update.                                                     *)

\* The schedule's command: update --source prices.
StartCron(u) ==
  /\ up[u].pc = "idle"
  /\ up' = [up EXCEPT ![u].pc = "plan", ![u].items = Sources]
  /\ UNCHANGED <<data, lock, file, behind, last, exact, updates>>

\* POST /data/update, with or without fetch, or the command line.
StartTab(u) ==
  /\ up[u].pc = "idle" /\ updates < MaxUpdates
  /\ updates' = updates + 1
  /\ \E items \in Selections, pc \in {"plan", "fetch"} :
       up' = [up EXCEPT ![u].pc = pc, ![u].items = items,
                        ![u].todo = IF pc = "fetch" THEN items \cap Dated ELSE {}]
  /\ UNCHANGED <<data, lock, file, behind, last, exact>>

\* refresh.run fetches the days after the last raw one of a source and converts
\* just these, without the lock; there may be none, or the download or the
\* conversion fails on the way.  Raw days before them that are not converted yet
\* are left behind.
Fetch(u) ==
  /\ up[u].pc = "fetch"
  /\ \/ \E s \in up[u].todo :
          \/ /\ up' = [up EXCEPT ![u].todo = @ \ {s}]
             /\ UNCHANGED data
          \/ \E newest \in raw[s]..MaxDate :
             /\ raw' = [raw EXCEPT ![s] = newest]
             /\ \E date \in {store[s]} \cup ((raw[s] + 1)..newest) :
                  Convert(s, raw[s] + 1, date, {}) /\ Remark(s, TRUE, {})
             /\ up' = [up EXCEPT ![u].todo = @ \ {s}, ![u].fetched = @ \cup {s}]
     \/ /\ up[u].todo = {}
        /\ up' = [up EXCEPT ![u].pc = "plan"]
        /\ UNCHANGED data
  /\ UNCHANGED <<lock, file>>

-----------------------------------------------------------------------------
(* Orchestrator.run.                                                       *)

\* The scan, and the plan made of it.
Plan(u) ==
  /\ up[u].pc = "plan"
  /\ \E force \in IF u \in Cron THEN {FALSE} ELSE BOOLEAN :
       LET will == WillRun(up[u].items, force) IN
       up' = [up EXCEPT ![u].pc = "load", ![u].items = {}, ![u].todo = will,
              ![u].scan = [s \in Sources |-> IF s \in will THEN [raw |-> raw[s], store |-> store[s]]
                                                        ELSE NoScan[s]],
              ![u].result = [s \in Sources |->
                               IF s \in up[u].items \ will THEN store[s] ELSE NoEntry]]
  /\ UNCHANGED <<data, lock, file>>

\* The manifest is loaded; with nothing to run the skips are recorded.
Load(u) ==
  /\ up[u].pc = "load"
  /\ up' = IF up[u].todo = {}
           THEN [up EXCEPT ![u].pc = "save", ![u].copy = Recorded(LoadedEntries, up[u].result)]
           ELSE [up EXCEPT ![u].pc = "lock", ![u].copy = LoadedEntries]
  /\ UNCHANGED <<data, lock, file>>

\* domain_lock, which does not wait: the update fails when it is busy.
Lock(u) ==
  /\ up[u].pc = "lock"
  /\ IF lock = NoOne
     THEN lock' = u /\ up' = [up EXCEPT ![u].pc = "convert"]
     ELSE lock' = lock /\ up' = [up EXCEPT ![u] = Idle]
  /\ UNCHANGED <<data, file>>

\* Mutant: the conversion starts at the last raw date.
StartAtRaw(u, s) == up[u].scan[s].raw

\* A conversion starts at the store date of the plan, which may be old by now ...
Start(u, s) == up[u].scan[s].store

\* ... unless the command or the request gives another start.
Starts(u, s) == {Start(u, s)} \cup IF u \in Tab THEN Days ELSE {}

\* The sources run in a fixed order, corp_actions last.
Turn(u, s) == up[u].pc = "convert" /\ s \in up[u].todo /\ (s = Corp => up[u].todo = {Corp})

\* The source has run, and this store date will be recorded of it.
Ran(u, s, date) ==
  up' = [up EXCEPT ![u].todo = @ \ {s}, ![u].result[s] = date, ![u].scan[s] = NoScan[s]]

\* A run that ended well is recorded with the raw date of the plan.
Reported(u, s) == IF s \in Dated THEN up[u].scan[s].raw ELSE up[u].scan[s].store

\* The converter brings one source up to the raw data there is by now.
ConvertOk(u, s) ==
  /\ Turn(u, s)
  /\ Convert(s, Start(u, s), Available(s), {}) /\ Remark(s, FALSE, {})
  /\ Ran(u, s, Reported(u, s))
  /\ UNCHANGED <<raw, lock, file>>

\* Or it ends as well, but started elsewhere, kept to recent days, found nothing it
\* could use or noted an error and went on.
ConvertSome(u, s) ==
  /\ Turn(u, s)
  /\ \E first \in Starts(u, s), newest \in store[s]..Available(s) :
       /\ newest = store[s] \/ first <= newest
       /\ \E out \in SUBSET (first..(newest - 1)) : Convert(s, first, newest, out)
       /\ Remark(s, TRUE, IF s \in Dated THEN {up[u].scan[s].raw} ELSE {})
  /\ Ran(u, s, Reported(u, s))
  /\ UNCHANGED <<raw, lock, file>>

\* Mutant: the raw date is recorded although the conversion failed.
ConvertErrorRecorded(u, s) ==
  /\ Turn(u, s)
  /\ \E first \in Starts(u, s), newest \in store[s]..Available(s) :
       /\ newest = store[s] \/ first <= newest
       /\ Convert(s, first, newest, {}) /\ Remark(s, first # Start(u, s), {})
  /\ Ran(u, s, Reported(u, s))
  /\ UNCHANGED <<raw, lock, file>>

\* Or it fails on the way; the other sources go on.
ConvertError(u, s) ==
  /\ Turn(u, s)
  /\ \E first \in Starts(u, s), newest \in store[s]..Available(s) :
       /\ newest = store[s] \/ first <= newest
       /\ Convert(s, first, newest, {}) /\ Remark(s, first # Start(u, s), {})
  /\ Ran(u, s, up[u].scan[s].store)
  /\ UNCHANGED <<raw, lock, file>>

\* The lock is released; the results are recorded in the manifest loaded before.
Unlock(u) ==
  /\ up[u].pc = "convert" /\ up[u].todo = {}
  /\ lock' = NoOne
  /\ up' = [up EXCEPT ![u].pc = "save", ![u].copy = Recorded(@, up[u].result)]
  /\ UNCHANGED <<data, file>>

\* UpdateManifest.save opens the file, which empties it ...
Open(u) ==
  /\ up[u].pc = "save"
  /\ file' = [state |-> "empty", entries |-> NoEntries]
  /\ up' = [up EXCEPT ![u].pc = "write"]
  /\ UNCHANGED <<data, lock>>

\* Mutant: only the sources of this update are written.
WrittenOwn(u) ==
  [s \in Sources |-> IF up[u].result[s] # NoEntry THEN up[u].copy[s] ELSE NoEntry]

\* What is written is the copy.
Written(u) == up[u].copy

\* ... and writes the copy; over what another wrote meanwhile it may leave a rest
\* of that behind.
Write(u) ==
  /\ up[u].pc = "write"
  /\ \/ file' = [state |-> "whole", entries |-> Written(u)]
     \/ file.state # "empty" /\ file' = [state |-> "torn", entries |-> NoEntries]
  /\ up' = IF up[u].fetched = {}
           THEN [up EXCEPT ![u] = Idle]
           ELSE [up EXCEPT ![u] = [Idle EXCEPT !.pc = "again", !.fetched = up[u].fetched]]
  /\ UNCHANGED <<data, lock>>

\* A fetch is recorded as the last run of its sources, in a manifest loaded anew;
\* what the entry says of the store stays.
LoadAgain(u) ==
  /\ up[u].pc = "again"
  /\ LET result == [s \in Sources |-> IF s \notin up[u].fetched THEN NoEntry
                                      ELSE Max({0, LoadedEntries[s]})] IN
     up' = [up EXCEPT ![u].pc = "save", ![u].fetched = {}, ![u].result = result,
                      ![u].copy = Recorded(LoadedEntries, result)]
  /\ UNCHANGED <<data, lock, file>>

\* The process dies; the kernel releases its lock.
Crash(u) ==
  /\ up[u].pc # "idle"
  /\ up' = [up EXCEPT ![u] = Idle]
  /\ lock' = IF lock = u THEN NoOne ELSE lock
  /\ behind' = behind \ {u}
  /\ UNCHANGED <<data, file, last, exact, updates>>

\* Raw data arrive.
NewRaw(s) ==
  /\ raw[s] < IF s \in Dated THEN MaxDate ELSE 1
  /\ raw' = [raw EXCEPT ![s] = @ + 1]
  /\ UNCHANGED <<store, missed, left, claimed, lock, up, file, behind, last, exact, updates>>

-----------------------------------------------------------------------------
(* The history variables.                                                  *)

\* Between its load and its save.
HasCopy(u) == up[u].pc \in {"lock", "convert", "save", "write"}

\* What a step of u is remembered for: a save makes every other copy one that is
\* behind; it loses something when it writes such a copy, or one of a file that was
\* not whole.
Remember(u) ==
  /\ exact' = (/\ exact
               /\ up[u].pc = "write" => u \notin behind
               /\ up[u].pc \in {"load", "again"} => file.state = "whole")
  /\ behind' = CASE ~exact' -> {}
                 [] up[u].pc = "write" -> {v \in Updaters \ {u} : HasCopy(v)}
                 [] \/ up[u].pc \in {"load", "again"}
                    \/ up[u].pc = "lock" /\ up'[u].pc = "idle" -> behind \ {u}
                 [] OTHER -> behind
  /\ last' = IF ~exact' THEN NoEntries ELSE IF up[u].pc # "write" THEN last
             ELSE [s \in Sources |-> IF up[u].result[s] = NoEntry THEN last[s] ELSE up[u].copy[s]]
  /\ UNCHANGED updates

Step(u) ==
  /\ \/ Fetch(u) \/ Plan(u) \/ Load(u) \/ Lock(u)
     \/ \E s \in Sources : ConvertOk(u, s) \/ ConvertSome(u, s) \/ ConvertError(u, s)
     \/ Unlock(u) \/ Open(u) \/ Write(u) \/ LoadAgain(u)
  /\ Remember(u)

\* The first raw data are there, and nothing is converted yet.
Init ==
  /\ raw = [s \in Sources |-> 1]
  /\ store = [s \in Sources |-> 0]
  /\ missed = [s \in Sources |-> {}] /\ left = [s \in Sources |-> {}]
  /\ claimed = [s \in Sources |-> {}]
  /\ lock = NoOne
  /\ up = [u \in Updaters |-> Idle]
  /\ file = [state |-> "whole", entries |-> NoEntries]
  /\ behind = {} /\ last = NoEntries /\ exact = TRUE
  /\ updates = 0

Next ==
  \/ \E u \in Cron : StartCron(u)
  \/ \E u \in Tab : StartTab(u)
  \/ \E u \in Updaters : Step(u) \/ Crash(u)
  \/ \E s \in Sources : NewRaw(s)

Spec == Init /\ [][Next]_vars

\* The converter gets to the last raw date.
ConvertToEnd(u, s) == (ConvertOk(u, s) \/ ConvertSome(u, s)) /\ store'[s] = raw[s]

\* Cron runs again and again, every process takes its next step, and a conversion
\* that cron retries for ever gets to the last raw date at last.  Processes may die
\* any number of times, but not for ever.
Fairness ==
  /\ <>[][\A u \in Updaters : ~Crash(u)]_vars
  /\ \A u \in Cron : /\ WF_vars(StartCron(u))
                     /\ \A s \in Dated : SF_vars(ConvertToEnd(u, s) /\ Remember(u))
  /\ \A u \in Updaters : WF_vars(Step(u))

FairSpec == Spec /\ Fairness

-----------------------------------------------------------------------------
(* Properties.                                                             *)

Entries == [Sources -> Dates \cup {NoEntry}]
Pcs == {"idle", "fetch", "plan", "load", "lock", "convert", "save", "write", "again"}

Locals == [pc : Pcs, items : SUBSET Sources, todo : SUBSET Sources,
           scan : [Sources -> [raw : Dates, store : Dates]],
           result : Entries, fetched : SUBSET Dated, copy : Entries]

\* Every variable holds a value of its kind.
TypeOK ==
  /\ raw \in [Sources -> Dates] /\ store \in [Sources -> Dates]
  /\ missed \in [Sources -> SUBSET Days] /\ left \in [Sources -> SUBSET Days]
  /\ claimed \in [Sources -> SUBSET Dates]
  /\ lock \in Updaters \cup {NoOne}
  /\ up \in [Updaters -> Locals]
  /\ file \in [state : {"whole", "empty", "torn"}, entries : Entries]
  /\ behind \subseteq Updaters /\ last \in Entries /\ exact \in BOOLEAN
  /\ updates \in 0..MaxUpdates

\* The manifest says of a source that it is converted further than it is only where a
\* run that ended well reported so, whatever updates fail or overlap: although its
\* dates are those of a plan made before the lock and the file may be written back
\* from an old copy.
RecordsAreTrue ==
  \A s \in Sources : file.entries[s] <= store[s] \/ file.entries[s] \in claimed[s]

\* A record is lost only when updates overlap or one dies while it writes the
\* file: otherwise the manifest has of every source what was recorded last.
RecordsSurvive == exact /\ file.state = "whole" => file.entries = last

\* A day is passed over, and so never planned again, only by a fetch, by a start that
\* was given or by a converter that ended well and had left it out: no conversion
\* from the date of an old plan leaves a gap, nor one that fails half-way.
NothingElseIsLeftOut == \A s \in Sources : missed[s] \subseteq left[s]

\* Every raw day of a source is converted, or was left out in one of these ways.
CaughtUp(s) ==
  \A day \in 1..raw[s] : (day <= store[s] /\ day \notin missed[s]) \/ day \in left[s]

\* What arrives raw is converted at last, unless it was left out like that, although
\* cron may find the lock busy, die, or fail on the way.
StoreCatchesUp == \A s \in Dated : []<>CaughtUp(s)
=============================================================================
