----------------------------- MODULE EpochSearch -----------------------------
(***************************************************************************)
(* The binary search of RewardEpochManager.findRewardEpochId, one loop     *)
(* iteration per step.  RewardEpochManager.tla takes its result as an      *)
(* epoch of the list that has started by the voting round while the next   *)
(* one has not; this module shows that the loop ends and ends there.       *)
(*                                                                         *)
(* Indices start at 1 here and at 0 in the code.                           *)
(***************************************************************************)
EXTENDS Integers, Sequences

CONSTANT Lists   \* the lists to search: start rounds in ascending order

ASSUME ListsAssumption ==
    \A l \in Lists : /\ l \in Seq(Nat) /\ Len(l) >= 2
                     /\ \A i \in 1..(Len(l) - 1) : l[i] < l[i + 1]

VARIABLES startVotingRoundIds, votingRoundId, low, high, done

vars == <<startVotingRoundIds, votingRoundId, low, high, done>>

\* The early returns are past: the round is in the list, before its last epoch.
Init ==
    /\ startVotingRoundIds \in Lists
    /\ votingRoundId \in startVotingRoundIds[1]..(startVotingRoundIds[Len(startVotingRoundIds)] - 1)
    /\ low = 1
    /\ high = Len(startVotingRoundIds) + 1
    /\ done = FALSE

\* Mutant: a round in which an epoch starts is counted to the epoch before.
HalveStartExcluded ==
    LET mid == (low + high) \div 2 IN
    /\ high - low > 1
    /\ IF votingRoundId <= startVotingRoundIds[mid]
       THEN high' = mid /\ UNCHANGED low
       ELSE low' = mid /\ UNCHANGED high
    /\ UNCHANGED <<startVotingRoundIds, votingRoundId, done>>

Halve ==
    LET mid == (low + high) \div 2 IN
    /\ high - low > 1
    /\ IF votingRoundId < startVotingRoundIds[mid]
       THEN high' = mid /\ UNCHANGED low
       ELSE low' = mid /\ UNCHANGED high
    /\ UNCHANGED <<startVotingRoundIds, votingRoundId, done>>

\* Mutant: the loop goes on until nothing is left between low and high.
ReturnWhenEmpty ==
    /\ high - low <= 0 /\ ~done
    /\ done' = TRUE
    /\ UNCHANGED <<startVotingRoundIds, votingRoundId, low, high>>

Return ==
    /\ high - low <= 1 /\ ~done
    /\ done' = TRUE
    /\ UNCHANGED <<startVotingRoundIds, votingRoundId, low, high>>

Next == Halve \/ Return

Spec == Init /\ [][Next]_vars /\ WF_vars(Next)

-----------------------------------------------------------------------------
TypeOK ==
    /\ startVotingRoundIds \in Lists
    /\ votingRoundId \in Nat
    /\ low \in 1..Len(startVotingRoundIds)
    /\ high \in 1..(Len(startVotingRoundIds) + 1)
    /\ done \in BOOLEAN

\* findRewardEpochId ends at the epoch of the list that has started by the round
\* while the next epoch of the list has not.
FindsEpoch ==
    done => /\ low < Len(startVotingRoundIds)
            /\ startVotingRoundIds[low] <= votingRoundId
            /\ votingRoundId < startVotingRoundIds[low + 1]

\* The search of findRewardEpochId ends.
SearchEnds == <>done
=============================================================================
