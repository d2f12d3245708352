------------------------------- MODULE JobLife -------------------------------
(***************************************************************************)
(* What the data service promises of a job: it has at most one outcome,    *)
(* which a restart does not change once it is saved; a job that had none   *)
(* when the service stopped is interrupted; a job is forgotten only when   *)
(* it is old, that is when MaxHistory jobs exist that are not older by the *)
(* clock, or when its last save failed; and no id is given to two jobs,    *)
(* unless the first is forgotten.                                          *)
(*                                                                         *)
(* DataJobs is the detailed specification that implements this one.        *)
(***************************************************************************)
EXTENDS Naturals, FiniteSets

CONSTANTS Jobs, MaxHistory, Second

Outcomes == {"done", "error", "cancelled"}
Finished == Outcomes \cup {"interrupted"}

VARIABLES
  state,    \* what became of each job
  unsaved   \* the jobs whose last save failed

vars == <<state, unsaved>>

Init == state = [j \in Jobs |-> "new"] /\ unsaved = {}

\* MaxHistory other jobs exist that were not created in an earlier second.
Old(j) ==
  Cardinality({i \in Jobs \ {j} : Second[i] >= Second[j] /\ state[i] # "new"}) >= MaxHistory

\* A job is submitted; finished jobs for which there is no more room go.
Submit(j) ==
  /\ state[j] = "new" /\ state'[j] = "submitted"
  /\ \A i \in Jobs \ {j} :
       \/ state'[i] = state[i]
       \/ state[i] \in Finished /\ state'[i] = "forgotten" /\ Old(i)'
  /\ DOMAIN state' = Jobs
  /\ UNCHANGED unsaved

\* A job is saved, or its save fails.
Saved(j) == unsaved' = unsaved \ {j}
NotSaved(j) == unsaved' = unsaved \cup {j}

\* The client gets the id.
Answer(j) ==
  /\ state[j] = "submitted" /\ state' = [state EXCEPT ![j] = "active"]
  /\ Saved(j) \/ NotSaved(j)

\* The job begins to run.
Begin(j) ==
  /\ state[j] = "active" /\ UNCHANGED state
  /\ Saved(j) \/ NotSaved(j)

\* The job ends; an outcome that is not saved is shown until the service stops.
End(j) ==
  /\ state[j] = "active"
  /\ \/ Saved(j) /\ \E outcome \in Outcomes : state' = [state EXCEPT ![j] = outcome]
     \/ NotSaved(j) /\ state' = [state EXCEPT ![j] = "lost"]

Gone == {"new", "forgotten"}

\* The service stops and starts again.
Restart ==
  /\ \A j \in Jobs :
       CASE state[j] = "submitted" -> state'[j] \in Gone
         [] state[j] = "active" -> \/ state'[j] = "interrupted"
                                   \/ state'[j] \in Gone /\ (Old(j) \/ j \in unsaved)
         [] state[j] = "lost" -> state'[j] \in Gone \cup {"interrupted"}
         [] state[j] = "forgotten" -> state'[j] \in Gone
         [] OTHER -> state'[j] = state[j]
  /\ DOMAIN state' = Jobs
  /\ unsaved' \subseteq {j \in Jobs : state'[j] = "interrupted"}

Next == Restart \/ \E j \in Jobs : Submit(j) \/ Answer(j) \/ Begin(j) \/ End(j)

Spec == Init /\ [][Next]_vars
=============================================================================
