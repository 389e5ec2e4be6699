--------------------------- MODULE MCBatchRewards ---------------------------
(***************************************************************************)
(* Two threads, whose names do not matter but to fairness.                 *)
(***************************************************************************)
EXTENDS BatchRewards
=============================================================================
