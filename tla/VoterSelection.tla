--------------------------- MODULE VoterSelection ---------------------------
(***************************************************************************)
(* RandomVoterSelector.ts: which voters may finalize a round for a reward  *)
(* in the grace period.  Voters are drawn, in proportion to their weights, *)
(* until they have a part of all weight.                                   *)
(*                                                                         *)
(* The seeds are a chain of keccak hashes: every draw may be any number    *)
(* below the total weight.  Positions start at 1 here, at 0 in the code.   *)
(***************************************************************************)
EXTENDS Integers, Sequences, FiniteSets, Functions

CONSTANTS SelectionWeights,  \* the lists of signing weights
          SelectionBips,     \* the threshold, of SelectionTotalBips (10000)
          SelectionTotalBips

ASSUME SelectionAssumption ==
    /\ SelectionWeights \subseteq Seq(Nat)
    /\ SelectionTotalBips \in Nat \ {0}
    /\ SelectionBips \in 1..(SelectionTotalBips \div 2)   \* the constructor's check

VARIABLES voterWeights, selected, selectedWeight, selecting
selectionVars == <<voterWeights, selected, selectedWeight, selecting>>

TotalWeight(weights) == SumFunction(weights)

\* Thresholds(weights)[i]: the weight of the voters before i.
Thresholds(weights) == [i \in DOMAIN weights |-> TotalWeight(SubSeq(weights, 1, i - 1))]

\* Mutant: the search ends at the threshold after the value.
SearchPast(thresholds, value) ==
    LET search[range \in (DOMAIN thresholds) \X (DOMAIN thresholds)] ==
            LET left == range[1]
                right == range[2]
                mid == (left + right) \div 2
            IN  IF left >= right THEN left
                ELSE IF thresholds[mid] < value THEN search[<<mid + 1, right>>]
                ELSE IF thresholds[mid] > value THEN search[<<left, mid>>]
                ELSE mid
    IN  IF thresholds[Len(thresholds)] <= value THEN Len(thresholds)
        ELSE search[<<1, Len(thresholds)>>]

\* binarySearch.
Search(thresholds, value) ==
    LET search[range \in (DOMAIN thresholds) \X (DOMAIN thresholds)] ==
            LET left == range[1]
                right == range[2]
                mid == (left + right) \div 2
            IN  IF left >= right THEN left - 1
                ELSE IF thresholds[mid] < value THEN search[<<mid + 1, right>>]
                ELSE IF thresholds[mid] > value THEN search[<<left, mid>>]
                ELSE mid
    IN  IF thresholds[Len(thresholds)] <= value THEN Len(thresholds)
        ELSE search[<<1, Len(thresholds)>>]

\* selectVoterIndex for a random number that is "value" modulo the total weight.
SelectVoterIndex(weights, value) == Search(Thresholds(weights), value)

ThresholdWeight(weights) == (TotalWeight(weights) * SelectionBips) \div SelectionTotalBips

SelectionInit ==
    /\ voterWeights \in SelectionWeights
    /\ selected = {} /\ selectedWeight = 0 /\ selecting = TRUE

\* Mutant: the weight of a voter counts each time it is drawn.
DrawAgain(value) ==
    LET voter == SelectVoterIndex(voterWeights, value) IN
    /\ selecting /\ selectedWeight < ThresholdWeight(voterWeights)
    /\ selected' = selected \cup {voter}
    /\ selectedWeight' = selectedWeight + voterWeights[voter]
    /\ UNCHANGED <<voterWeights, selecting>>

\* One round of the loop of randomSelectThresholdWeightVoters.
Draw(value) ==
    LET voter == SelectVoterIndex(voterWeights, value) IN
    /\ selecting /\ selectedWeight < ThresholdWeight(voterWeights)
    /\ selected' = selected \cup {voter}
    /\ selectedWeight' = selectedWeight + (IF voter \in selected THEN 0 ELSE voterWeights[voter])
    /\ UNCHANGED <<voterWeights, selecting>>

Selected ==
    /\ selecting /\ selectedWeight >= ThresholdWeight(voterWeights)
    /\ selecting' = FALSE
    /\ UNCHANGED <<voterWeights, selected, selectedWeight>>

SelectionNext == (\E value \in 0..(TotalWeight(voterWeights) - 1) : Draw(value)) \/ Selected

SelectionSpec == SelectionInit /\ [][SelectionNext]_selectionVars

-----------------------------------------------------------------------------
\* randomSelectThresholdWeightVoters ends with voters that have the threshold's
\* part of all weight, and none of them could have been left out at the end:
\* whoever was drawn last was still needed.
SelectionReachesThreshold ==
    /\ selectedWeight = TotalWeight([i \in DOMAIN voterWeights |->
                               IF i \in selected THEN voterWeights[i] ELSE 0])
    /\ ~selecting => /\ selectedWeight >= ThresholdWeight(voterWeights)
                     /\ selected = {} \/ \E last \in selected :
                            selectedWeight - voterWeights[last] < ThresholdWeight(voterWeights)

\* selectVoterIndex draws a voter in exact proportion to its weight: of the
\* numbers below the total weight, as many lead to it as it has weight.  (With
\* voters of no weight among them the search may end at one of those instead.)
SelectionProportional ==
    (\A i \in DOMAIN voterWeights : voterWeights[i] > 0) =>
        \A i \in DOMAIN voterWeights :
            Cardinality({value \in 0..(TotalWeight(voterWeights) - 1) :
                             SelectVoterIndex(voterWeights, value) = i}) = voterWeights[i]

\* Both at once: finalizers are selected by weight, until the threshold is reached
\* and no further.
ByWeight == SelectionReachesThreshold /\ SelectionProportional
=============================================================================
