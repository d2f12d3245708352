----------------------------- MODULE MCDataJobs -----------------------------
(***************************************************************************)
(* TLC instance of DataJobs: three jobs in a history of two, of which the   *)
(* first logs past the limit of its log.                                   *)
(***************************************************************************)
EXTENDS DataJobs, TLC

CONSTANT s1

\* The first two jobs are created in the same second.
MCSecond == [j \in Jobs |-> IF j < 3 THEN 1 ELSE 2]

MCLinesOf == [j \in Jobs |-> IF j = 1 THEN 1 ELSE 0]
=============================================================================
