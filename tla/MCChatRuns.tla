----------------------------- MODULE MCChatRuns -----------------------------
(***************************************************************************)
(* TLC instance of ChatRuns: one thread, where automatic compaction keeps   *)
(* one turn, so that the second turn compacts the first, beside two compact *)
(* requests.                                                               *)
(***************************************************************************)
EXTENDS ChatRuns, TLC

CONSTANTS t1, noTurn
=============================================================================
