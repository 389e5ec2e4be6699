------------------------------ MODULE ShareOut ------------------------------
(***************************************************************************)
(* The double declining balance: how an amount is divided by weights so    *)
(* that nothing is left.  The same loops stand in reward-median.ts,        *)
(* reward-signing.ts and reward-signing-split.ts: a first loop adds up the *)
(* weights, a second one gives each voter its weight's part of what is     *)
(* left and takes both off what is left.                                   *)
(*                                                                         *)
(* "totals" remembers the sums of the first loop for the properties; the   *)
(* code has no such variable.                                              *)
(***************************************************************************)
EXTENDS Integers, Sequences

CONSTANTS WeightLists,  \* the lists of weights to divide by
          Amounts       \* the amounts to divide

ASSUME ShareAssumption == WeightLists \subseteq Seq(Nat) /\ Amounts \subseteq Nat

VARIABLES
    weights, amount,    \* the voters' weights and the amount of the offer
    step,               \* "add", "give", "done", "claimback" or "error"
    voter,              \* the next voter of the loop
    totals,             \* totals[i]: the weights of the voters before i
    availableReward, availableWeight, totalReward,
    rewards             \* the rewards given so far

shareVars == <<weights, amount, step, voter, totals,
               availableReward, availableWeight, totalReward, rewards>>

ShareInit ==
    /\ weights \in WeightLists /\ amount \in Amounts
    /\ step = "add" /\ voter = 1
    /\ totals = <<0>>
    /\ availableReward = amount /\ availableWeight = 0
    /\ totalReward = 0 /\ rewards = <<>>

Add ==
    /\ step = "add" /\ voter <= Len(weights)
    /\ availableWeight' = availableWeight + weights[voter]
    /\ totals' = Append(totals, availableWeight')
    /\ voter' = voter + 1
    /\ UNCHANGED <<weights, amount, step, availableReward, totalReward, rewards>>

\* No weight at all: the whole amount is claimed back.
Added ==
    /\ step = "add" /\ voter > Len(weights)
    /\ step' = IF availableWeight = 0 THEN "claimback" ELSE "give"
    /\ voter' = 1
    /\ UNCHANGED <<weights, amount, totals, availableReward, availableWeight,
                   totalReward, rewards>>

\* Mutant: the weight stays in the pot.
GiveKeepsWeight ==
    LET weight == weights[voter]
        reward == IF weight > 0 /\ availableWeight # 0
                  THEN (weight * availableReward) \div availableWeight ELSE 0
    IN  /\ step = "give" /\ voter <= Len(weights)
        /\ step' = IF weight > 0 /\ availableWeight = 0 THEN "error" ELSE step
        /\ availableReward' = availableReward - reward
        /\ totalReward' = totalReward + reward
        /\ rewards' = Append(rewards, reward)
        /\ voter' = voter + 1
        /\ UNCHANGED <<weights, amount, totals, availableWeight>>

\* Mutant: parts are rounded up.
GiveRoundedUp ==
    LET weight == weights[voter]
        reward == IF weight > 0 /\ availableWeight # 0
                  THEN (weight * availableReward + availableWeight - 1) \div availableWeight ELSE 0
    IN  /\ step = "give" /\ voter <= Len(weights)
        /\ step' = IF weight > 0 /\ availableWeight = 0 THEN "error" ELSE step
        /\ availableReward' = availableReward - reward
        /\ availableWeight' = availableWeight - weight
        /\ totalReward' = totalReward + reward
        /\ rewards' = Append(rewards, reward)
        /\ voter' = voter + 1
        /\ UNCHANGED <<weights, amount, totals>>

\* One voter: a weight of zero gets nothing and is never divided by.  With
\* weight to reward and none left the code throws "availableWeight must be
\* non-zero".
Give ==
    LET weight == weights[voter]
        reward == IF weight > 0 /\ availableWeight # 0
                  THEN (weight * availableReward) \div availableWeight ELSE 0
    IN  /\ step = "give" /\ voter <= Len(weights)
        /\ step' = IF weight > 0 /\ availableWeight = 0 THEN "error" ELSE step
        /\ availableReward' = availableReward - reward
        /\ availableWeight' = availableWeight - weight
        /\ totalReward' = totalReward + reward
        /\ rewards' = Append(rewards, reward)
        /\ voter' = voter + 1
        /\ UNCHANGED <<weights, amount, totals>>

Given ==
    /\ step = "give" /\ voter > Len(weights)
    /\ step' = "done"
    /\ UNCHANGED <<weights, amount, voter, totals, availableReward, availableWeight,
                   totalReward, rewards>>

ShareNext == Add \/ Added \/ Give \/ Given

ShareSpec == ShareInit /\ [][ShareNext]_shareVars

-----------------------------------------------------------------------------
\* The loops that divide an offer give out all of it, to the last wei, and
\* never run out of weight before the voters are through: the checks of the
\* code ("Total reward ... is not equal to the offer amount", "Undistributed
\* amount is not zero", "availableWeight must be non-zero") never strike.
AllSharedOut ==
    /\ step # "error"
    /\ step = "done" => totalReward = amount

\* Nobody pays for the rounding of others: a voter gets at least the whole
\* wei of its exact share, amount * weight / sum of the weights.
NobodyShort ==
    \A i \in DOMAIN rewards :
        rewards[i] >= (weights[i] * amount) \div totals[Len(totals)]

\* Both at once: an offer is divided without a rest and without a loser.
SharedFairly == AllSharedOut /\ NobodyShort
=============================================================================
