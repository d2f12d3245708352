---------------------------- MODULE Conversation ----------------------------
(***************************************************************************)
(* What the chat promises of a thread's history: a question opens a turn,  *)
(* at most one answer closes it, directly after its question and before    *)
(* the next one; a thread that is deleted stays deleted, without history.  *)
(*                                                                         *)
(* ChatRuns is the detailed specification that implements this one.        *)
(***************************************************************************)
EXTENDS Naturals, Sequences

CONSTANTS Threads, Turns

VARIABLES
  state,     \* thread -> "new", "live" or "gone"
  history    \* thread -> its messages, as pairs of turn and role

Init ==
  /\ state = [t \in Threads |-> "new"]
  /\ history = [t \in Threads |-> <<>>]

Create(t) ==
  /\ state[t] = "new" /\ state' = [state EXCEPT ![t] = "live"]
  /\ UNCHANGED history

\* A question, whether or not the one before was answered; the first one may
\* create the thread.
Ask(t, r) ==
  /\ state[t] # "gone" /\ state' = [state EXCEPT ![t] = "live"]
  /\ \A i \in 1..Len(history[t]) : history[t][i][1] # r
  /\ history' = [history EXCEPT ![t] = Append(@, <<r, "user">>)]

\* The answer to the question asked last.
Answer(t, r) ==
  /\ state[t] = "live"
  /\ history[t] # <<>> /\ history[t][Len(history[t])] = <<r, "user">>
  /\ history' = [history EXCEPT ![t] = Append(@, <<r, "assistant">>)]
  /\ UNCHANGED state

Delete(t) ==
  /\ state[t] = "live" /\ state' = [state EXCEPT ![t] = "gone"]
  /\ history' = [history EXCEPT ![t] = <<>>]

Next == \E t \in Threads : \/ Create(t) \/ Delete(t)
                           \/ \E r \in Turns : Ask(t, r) \/ Answer(t, r)

Spec == Init /\ [][Next]_<<state, history>>
=============================================================================
