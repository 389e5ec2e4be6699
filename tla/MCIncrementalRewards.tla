------------------------ MODULE MCIncrementalRewards ------------------------
(* Instances of IncrementalRewards for TLC: the constants are numbers. *)
EXTENDS IncrementalRewards
=============================================================================
