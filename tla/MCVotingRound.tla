---------------------------- MODULE MCVotingRound ----------------------------
(* Values of constants for TLC. *)
EXTENDS VotingRound, TLC

Symmetry == Permutations(Eligible) \cup Permutations(Values)
=============================================================================
