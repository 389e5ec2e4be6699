------------------------ MODULE MCRewardEpochManager ------------------------
(***************************************************************************)
(* Instances of RewardEpochManager.tla for TLC.                            *)
(***************************************************************************)
EXTENDS RewardEpochManager, TLC

\* Request slots are interchangeable.
Symmetry == Permutations(Calls)

\* Constraint: a call for a range and calls for single rounds do not overlap.
\* They share nothing but the indexer, which answers each of them alone.
RangeAlone ==
    (\E c \in RangeCalls : range[c].pc # "idle") => \A c \in Calls : call[c].pc = "idle"
=============================================================================
