---------------------------- MODULE RewardShares ----------------------------
(***************************************************************************)
(* How the offer of a round becomes claims: median closeness               *)
(* (reward-median.ts), signing (reward-signing.ts), finalization           *)
(* (reward-finalization.ts), penalties (reward-penalties.ts,               *)
(* reward-fdc-penalties.ts), fast updates (reward-fast-updates.ts) and the *)
(* signing of FDC messages (reward-fdc-signing.ts).                        *)
(*                                                                         *)
(* Voters are 1..Len(policy), in the order of the signing policy; all      *)
(* addresses of a voter are told apart by a tag.  policy[v] holds its      *)
(* capped delegation weight, the weights of its nodes, its signing weight  *)
(* and its fee.  A signature is [sender, time], a finalization             *)
(* [sender, time, successful].  Tags, offer indices and feed identifiers   *)
(* on claims are left out.                                                 *)
(***************************************************************************)
EXTENDS RewardClaims, Median

CONSTANTS
    TotalBips, TotalPpm,             \* 10000 and 1000000
    SigningBips, FinalizationBips,   \* the parts of an offer
    StakingFeeCap, PenaltyFactor,
    EpochSeconds, RevealDeadline,    \* 90 and 45
    SignatureGrace, FinalizationGrace

\* The parts and fees are parts of a whole.
ASSUME SharesAssumption ==
    /\ TotalBips \in Nat \ {0} /\ TotalPpm \in Nat \ {0} /\ PenaltyFactor \in Nat
    /\ SigningBips \in Nat /\ FinalizationBips \in Nat /\ SigningBips + FinalizationBips <= TotalBips
    /\ StakingFeeCap \in 0..TotalBips

\* Empty stands for a finalization, a vote or a value there is none of.

\* Times.  Voting epochs start at multiples of EpochSeconds.
EpochOf(time) == time \div EpochSeconds
RelativeTime(time) == time % EpochSeconds
EpochEnd(epoch) == (epoch + 1) * EpochSeconds - 1

\* Mutant: the last second of the grace period is not counted.
SignedInGraceShort(round, s) ==
    /\ EpochOf(s.time) = round + 1
    /\ RelativeTime(s.time) >= RevealDeadline
    /\ RelativeTime(s.time) < RevealDeadline + SignatureGrace - 1

SignedInGrace(round, s) ==
    /\ EpochOf(s.time) = round + 1
    /\ RelativeTime(s.time) >= RevealDeadline
    /\ RelativeTime(s.time) < RevealDeadline + SignatureGrace

SignedBefore(round, s, deadline) ==
    /\ EpochOf(s.time) >= round + 1
    /\ RelativeTime(s.time) >= RevealDeadline
    /\ s.time <= deadline

FinalizedInGrace(round, eligible, f) ==
    /\ f.sender \in eligible
    /\ EpochOf(f.time) = round + 1
    /\ RelativeTime(f.time) >= RevealDeadline
    /\ RelativeTime(f.time) <= RevealDeadline + FinalizationGrace

FinalizedOutsideGrace(round, f) ==
    /\ EpochOf(f.time) >= round + 1
    /\ \/ EpochOf(f.time) > round + 1
       \/ RelativeTime(f.time) > RevealDeadline + FinalizationGrace

-----------------------------------------------------------------------------
\* The double declining balance as a function; ShareOut.tla runs its loops.
\*
\* Mutant: the parts are of the whole amount, and rounding leaves a rest.
SharesOfWhole(weights, amount) ==
    [i \in DOMAIN weights |-> IF weights[i] = 0 THEN 0
                              ELSE Quot(weights[i] * amount, SumFunction(weights))]

Shares(weights, amount) ==
    LET pots[i \in 0..Len(weights)] ==
            IF i = 0 THEN [reward |-> amount, weight |-> SumFunction(weights), given |-> <<>>]
            ELSE LET pot == pots[i - 1]
                     part == IF weights[i] > 0
                             THEN Quot(weights[i] * pot.reward, pot.weight) ELSE 0
                 IN  [reward |-> pot.reward - part, weight |-> pot.weight - weights[i],
                      given |-> Append(pot.given, part)]
    IN  pots[Len(weights)].given

ClaimBack(offer, amount) == <<Claim(offer.claimBack, "DIRECT", amount)>>

\* Mutant: the staking fee is not taken off what the nodes share.
SigningSplitFeeTwice(policy, v, offer, amount) ==
    LET voter == policy[v]
        staked == SumFunction(voter.nodes)
        total == voter.delegation + staked
        stakingAmount == Quot(amount * staked, total)
        delegationAmount == amount - stakingAmount
        delegationFee == Quot(delegationAmount * voter.fee, TotalBips)
        stakingFee == Quot(stakingAmount * Min({StakingFeeCap, voter.fee}), TotalBips)
        fee == delegationFee + stakingFee
        nodeShares == Shares(voter.nodes, stakingAmount)
    IN  IF total = 0 THEN ClaimBack(offer, amount)
        ELSE (IF fee # 0 THEN <<Claim(<<"identity", v>>, "FEE", fee)>> ELSE <<>>)
             \o <<Claim(<<"delegation", v>>, "WNAT", delegationAmount - delegationFee)>>
             \o [i \in DOMAIN voter.nodes |-> Claim(<<"node", v, i>>, "MIRROR", nodeShares[i])]

\* generateSigningWeightBasedClaimsForVoter: an amount (a negative one for a
\* penalty) goes to a voter's delegators, its nodes and, as fee, to itself.
SigningSplit(policy, v, offer, amount) ==
    LET voter == policy[v]
        staked == SumFunction(voter.nodes)
        total == voter.delegation + staked
        stakingAmount == Quot(amount * staked, total)
        delegationAmount == amount - stakingAmount
        delegationFee == Quot(delegationAmount * voter.fee, TotalBips)
        stakingFee == Quot(stakingAmount * Min({StakingFeeCap, voter.fee}), TotalBips)
        fee == delegationFee + stakingFee
        nodeShares == Shares(voter.nodes, stakingAmount - stakingFee)
    IN  IF total = 0 THEN ClaimBack(offer, amount)
        ELSE (IF fee # 0 THEN <<Claim(<<"identity", v>>, "FEE", fee)>> ELSE <<>>)
             \o <<Claim(<<"delegation", v>>, "WNAT", delegationAmount - delegationFee)>>
             \o [i \in DOMAIN voter.nodes |-> Claim(<<"node", v, i>>, "MIRROR", nodeShares[i])]

-----------------------------------------------------------------------------
\* The normalized weight of each voter: of the primary band, between the
\* quartiles (on a border a hash decides, "coin"), and of the secondary one,
\* around the median.
MedianWeights(policy, offer, values, result, coin) ==
    LET voted == {v \in DOMAIN policy : values[v] # Empty}
        magnitude == IF result.median < 0 THEN -result.median ELSE result.median
        band == Quot(magnitude * offer.secondaryBand, TotalPpm)
        primary == {v \in voted :
            \/ values[v] > result.quartile1 /\ values[v] < result.quartile3
            \/ values[v] \in {result.quartile1, result.quartile3} /\ coin[v]}
        secondary == {v \in voted : /\ values[v] > result.median - band
                                    /\ values[v] < result.median + band}
        weigh(S) == SumFunction([v \in S |-> policy[v].delegation])
        part(v, S, weight) == IF v \in S THEN weight * policy[v].delegation ELSE 0
    IN  [v \in DOMAIN policy |->
            IF weigh(secondary) = 0 THEN part(v, primary, 1)
            ELSE part(v, primary, offer.primaryShare * weigh(secondary))
                 + part(v, secondary, (TotalPpm - offer.primaryShare) * weigh(primary))]

\* generateMedianRewardClaimsForVoter: no claims of nothing.
MedianClaimsFor(policy, v, amount) ==
    LET fee == Quot(amount * policy[v].fee, TotalBips)
    IN  Select(<<Claim(<<"identity", v>>, "FEE", fee),
                    Claim(<<"delegation", v>>, "WNAT", amount - fee)>>,
                  LAMBDA c : c.amount > 0)

\* calculateMedianRewardClaims.
MedianClaims(policy, offer, values, result, coin) ==
    LET total == SumFunction([v \in DOMAIN policy |-> policy[v].delegation])
        weights == MedianWeights(policy, offer, values, result, coin)
        rewards == Shares(weights, offer.amount)
    IN  IF \/ result.participating * TotalBips < total * offer.minTurnout
           \/ result.median = Empty
        THEN ClaimBack(offer, offer.amount)
        ELSE IF SumFunction(weights) = 0 THEN ClaimBack(offer, offer.amount)
        ELSE FlattenSeq([v \in DOMAIN policy |-> MedianClaimsFor(policy, v, rewards[v])])

\* The voters whose delegators got something for the median: only they get
\* signing and finalization rewards.
MedianEligible(claims) ==
    {c.to[2] : c \in {c \in ToSet(claims) : c.type = "WNAT" /\ c.amount > 0}}

-----------------------------------------------------------------------------
\* calculateDoubleSigners; signatures maps message hashes to lists of
\* signatures, one for each sender.
DoubleSigners(round, signatures) ==
    LET signers(h) == {s.sender : s \in {s \in ToSet(signatures[h]) : EpochOf(s.time) = round + 1}}
    IN  UNION {signers(h[1]) \cap signers(h[2]) :
               h \in {h \in (DOMAIN signatures) \X (DOMAIN signatures) : h[1] # h[2]}}

\* The signers of the finalized hash that calculateSigningRewards rewards.
\*
\* Mutant: double signers are rewarded like others.
RewardedSignersAll(round, signatures, first) ==
    {s.sender : s \in {s \in ToSet(signatures["consensus"]) :
        \/ SignedInGrace(round, s)
        \/ SignedBefore(round, s, Min({first.time, EpochEnd(round + 1)}))}}

RewardedSigners(round, signatures, first) ==
    {s.sender : s \in {s \in ToSet(signatures["consensus"]) :
        /\ s.sender \notin DoubleSigners(round, signatures)
        /\ \/ SignedInGrace(round, s)
           \/ SignedBefore(round, s, Min({first.time, EpochEnd(round + 1)}))}}

\* A finalization but no signature of its hash among the data: the code
\* filters an undefined list and throws.
SigningThrows(signatures, first) == first # Empty /\ "consensus" \notin DOMAIN signatures

\* calculateSigningRewards: the share of a signer without a median reward is
\* claimed back.
SigningClaims(policy, offer, round, signatures, first, eligible) ==
    LET rewarded == RewardedSigners(round, signatures, first)
        weights == [v \in DOMAIN policy |-> IF v \in rewarded THEN policy[v].signing ELSE 0]
        amounts == Shares(weights, offer.amount)
        claims(v) == IF v \notin rewarded THEN <<>>
                     ELSE IF v \in eligible THEN SigningSplit(policy, v, offer, amounts[v])
                     ELSE ClaimBack(offer, amounts[v])
    IN  IF first = Empty THEN ClaimBack(offer, offer.amount)
        ELSE IF SumFunction(weights) = 0 THEN ClaimBack(offer, offer.amount)
        ELSE FlattenSeq([v \in DOMAIN policy |-> claims(v)])

-----------------------------------------------------------------------------
\* Mutant: all of the amount goes to those who did finalize.
FinalizationClaimsShared(policy, offer, round, first, finalizations, finalizers, eligible) ==
    LET inGrace == Select(finalizations, LAMBDA f : FinalizedInGrace(round, finalizers, f))
        rewarded == Select(inGrace, LAMBDA f : f.sender \in eligible)
        amounts == Shares([i \in DOMAIN rewarded |-> 1], offer.amount)
    IN  IF first = Empty THEN ClaimBack(offer, offer.amount)
        ELSE IF FinalizedOutsideGrace(round, first)
        THEN <<Claim(<<"signing", first.sender>>, "DIRECT", offer.amount)>>
        ELSE FlattenSeq([i \in DOMAIN rewarded |->
                 SigningSplit(policy, rewarded[i].sender, offer, amounts[i])])

\* calculateFinalizationRewardClaims: the first to finalize after the grace
\* period gets all; in it the selected finalizers have equal shares, and those
\* of the selected who did not finalize, or got no median reward, are claimed
\* back.
FinalizationClaims(policy, offer, round, first, finalizations, finalizers, eligible) ==
    LET inGrace == Select(finalizations, LAMBDA f : FinalizedInGrace(round, finalizers, f))
        rewarded == Select(inGrace, LAMBDA f : f.sender \in eligible)
        amounts == Shares([i \in 1..Cardinality(finalizers) |-> 1], offer.amount)
        rest == offer.amount - SumFunction([i \in DOMAIN rewarded |-> amounts[i]])
    IN  IF first = Empty THEN ClaimBack(offer, offer.amount)
        ELSE IF FinalizedOutsideGrace(round, first)
        THEN <<Claim(<<"signing", first.sender>>, "DIRECT", offer.amount)>>
        ELSE IF inGrace = <<>> \/ eligible = {} THEN ClaimBack(offer, offer.amount)
        ELSE FlattenSeq([i \in DOMAIN rewarded |->
                 SigningSplit(policy, rewarded[i].sender, offer, amounts[i])])
             \o (IF rest # 0 THEN ClaimBack(offer, rest) ELSE <<>>)

\* calculatePenalties: in proportion to the part of the weight, times a factor.
PenaltyClaims(policy, offer, offenders) ==
    LET total == SumFunction([v \in DOMAIN policy |-> policy[v].delegation])
        penalty(v) == IF policy[v].delegation = 0 THEN 0
                      ELSE Quot(-policy[v].delegation * offer.amount * PenaltyFactor, total)
    IN  FlattenSeq([v \in DOMAIN policy |->
            IF v \in offenders THEN SigningSplit(policy, v, offer, penalty(v)) ELSE <<>>])

\* calculateFdcPenalties: by signing weight.
FdcPenaltyClaims(policy, offer, offenders) ==
    LET total == SumFunction([v \in DOMAIN policy |-> policy[v].signing])
        penalty(v) == IF policy[v].signing = 0 THEN 0
                      ELSE Quot(-policy[v].signing * offer.amount * PenaltyFactor, total)
    IN  FlattenSeq([v \in DOMAIN policy |->
            IF v \in offenders /\ penalty(v) < 0
            THEN SigningSplit(policy, v, offer, penalty(v)) ELSE <<>>])

-----------------------------------------------------------------------------
\* calculateFastUpdatesClaims: "submitted" lists the voters of the round's fast
\* updates, a voter once for each; value and median come with the same
\* decimals.  A missed reward band burns the offer.
FastUpdateClaims(policy, offer, median, value, submitted) ==
    LET delta == Quot(median * offer.rewardBand, TotalPpm)
        n == Len(submitted)
        amount(i) == (offer.amount \div n) + (IF i <= offer.amount % n THEN 1 ELSE 0)
        fee(i) == Quot(amount(i) * policy[submitted[i]].fee, TotalBips)
        burn == <<Claim(BurnAddress, "DIRECT", offer.amount)>>
    IN  IF offer.burn \/ n = 0 \/ median = Empty THEN burn
        ELSE IF value < median - delta \/ value > median + delta THEN burn
        ELSE FlattenSeq([i \in 1..n |->
                 <<Claim(<<"identity", submitted[i]>>, "FEE", fee(i)),
                   Claim(<<"delegation", submitted[i]>>, "WNAT", amount(i) - fee(i))>>])

\* A fifth, in parts per million.
BurntPart(amount) == Quot(200000 * amount, 1000000)

\* calculateSigningRewardsForFDC: parts are of the whole signing weight, what
\* belongs to those who did not sign is claimed back, and a fifth of a share
\* when the signer's own bit vote did not cover the consensus.  signers maps the
\* eligible signers to [time, dominates].
\*
\* With no weight left the code divides by zero; see FdcSigningThrows.
FdcSigningClaims(policy, offer, round, signers, first, bitVote) ==
    LET deadline == Min({first.time, EpochEnd(round + 1)})
        rewarded == {v \in DOMAIN signers : \/ SignedInGrace(round, signers[v])
                                            \/ SignedBefore(round, signers[v], deadline)}
        order == Select([v \in DOMAIN policy |-> v], LAMBDA v : v \in rewarded)
        parts == Shares([i \in DOMAIN order |-> policy[order[i]].signing]
                        \o <<SumFunction([v \in DOMAIN policy |->
                                IF v \in rewarded THEN 0 ELSE policy[v].signing])>>, offer.amount)
        burnt(i) == IF signers[order[i]].dominates THEN 0
                    ELSE BurntPart(parts[i])
        claims(i) == (IF burnt(i) > 0 THEN ClaimBack(offer, burnt(i)) ELSE <<>>)
                     \o SigningSplit(policy, order[i], offer, parts[i] - burnt(i))
        rest == offer.amount - SumFunction([i \in DOMAIN order |-> parts[i]])
    IN  IF first = Empty \/ bitVote = Empty \/ bitVote = {} THEN ClaimBack(offer, offer.amount)
        ELSE FlattenSeq([i \in DOMAIN order |-> claims(i)])
             \o (IF rest > 0 THEN ClaimBack(offer, rest) ELSE <<>>)

\* The last signer to be rewarded weighs nothing and all weight is given out:
\* BigInt division by zero (reward-signing.ts guards against it).
FdcSigningThrows(policy, round, signers, first, bitVote) ==
    LET deadline == Min({first.time, EpochEnd(round + 1)})
        rewarded == {v \in DOMAIN signers : \/ SignedInGrace(round, signers[v])
                                            \/ SignedBefore(round, signers[v], deadline)}
    IN  /\ first # Empty /\ bitVote # Empty /\ bitVote # {}
        /\ \E v \in rewarded :
               \A u \in DOMAIN policy : policy[u].signing > 0 => u \in rewarded /\ u < v

-----------------------------------------------------------------------------
\* splitRewardOfferByTypes and splitFDCRewardOfferByTypes.
SplitOffer(offer) ==
    LET signing == Quot(offer.amount * SigningBips, TotalBips)
        finalization == Quot(offer.amount * FinalizationBips, TotalBips)
    IN  [signing |-> [offer EXCEPT !.amount = signing],
         finalization |-> [offer EXCEPT !.amount = finalization],
         median |-> [offer EXCEPT !.amount = offer.amount - signing - finalization]]

SplitFdcOffer(offer) ==
    LET finalization == Quot(offer.amount * FinalizationBips, TotalBips)
    IN  [finalization |-> [offer EXCEPT !.amount = finalization],
         signing |-> [offer EXCEPT !.amount = offer.amount - finalization]]
=============================================================================
