----------------------------- MODULE RewardRound -----------------------------
(***************************************************************************)
(* The claims of one voting round                                          *)
(* (partialRewardClaimsForVotingRound), from the transactions on chain     *)
(* while these still come in: signatures and finalizations of the FTSO and *)
(* of the FDC, by voters and others, in time and late, right and wrong.    *)
(* The code reads the chain once the round is over; the machine makes the  *)
(* claims after every transaction, so that properties can relate what two  *)
(* chains give.                                                            *)
(*                                                                         *)
(* A scenario holds what is fixed before the signatures: the policy, the   *)
(* round's offers, the reveals, fast updates, attestation requests and bit *)
(* votes, the kinds of transactions that may be sent and whether claims    *)
(* are merged.                                                             *)
(***************************************************************************)
EXTENDS RewardData

CONSTANTS Scenarios,
          Ftso, Fdc,     \* the protocols
          PolicyEpoch,   \* the reward epoch of the round's signing policy
          LastTime       \* bound: the last second of the clock

\* A voter of a policy: weights, and a fee in bips.
Voters == [delegation : Nat, nodes : Seq(Nat), signing : Nat, fee : 0..TotalBips]

\* What the chain and the configuration guarantee of a scenario: the shares of
\* offers are parts of a whole, finalizers and the senders of fast updates are
\* voters.  Claims that go back or are burnt are told apart from those of voters.
WellFormed(s) ==
    /\ s.policy \in Seq(Voters)
    /\ \A offers \in {s.ftsoOffers, s.updateOffers, s.fdcOffers} :
          /\ offers \in Seq(ToSet(offers))
          /\ \A o \in ToSet(offers) : /\ {"amount", "claimBack"} \subseteq DOMAIN o
                                      /\ o.amount \in Nat /\ o.claimBack[2] \notin DOMAIN s.policy
    /\ BurnAddress[2] \notin DOMAIN s.policy
    /\ \A o \in ToSet(s.ftsoOffers) : "primaryShare" \in DOMAIN o /\ o.primaryShare \in 0..TotalPpm
    /\ s.finalizers \subseteq DOMAIN s.policy
    /\ s.updates # Empty => s.updates.submitted \in Seq(DOMAIN s.policy)
    /\ \A kind \in s.kinds :
          /\ {"time", "candidate"} \subseteq DOMAIN kind
          /\ kind.candidate \notin {Empty, Short, NoBits} => AsNumber(kind.candidate) \in Nat

ASSUME ScenariosAssumption == \A s \in Scenarios : WellFormed(s)

\* Times are seconds; the grace period of signatures ends with the voting epoch
\* at the latest.  (90, 45 and 10 seconds in the code)
ASSUME ClockAssumption ==
    /\ EpochSeconds \in Nat \ {0} /\ LastTime \in Nat /\ RewardedWindows \in Nat
    /\ RevealDeadline \in Nat /\ SignatureGrace \in Nat
    /\ RevealDeadline + SignatureGrace <= EpochSeconds

VARIABLES scenario, clock, sent
roundVars == <<scenario, clock, sent>>

policy == scenario.policy

RoundInit ==
    /\ scenario \in Scenarios
    /\ clock = EpochSeconds
    /\ sent = <<>>

RoundTick ==
    /\ clock < LastTime /\ Len(sent) < scenario.maxTxs
    /\ clock' = clock + 1
    /\ UNCHANGED <<scenario, sent>>

\* A transaction gets on chain.  The relay contract lets one finalization of a
\* protocol's round succeed.
Send ==
    /\ Len(sent) < scenario.maxTxs
    /\ \E kind \in scenario.kinds :
        /\ kind.successfulOnChain =>
              ~\E tx \in ToSet(sent) : tx.successfulOnChain /\ tx.protocol = kind.protocol
        /\ sent' = Append(sent, [kind EXCEPT !.time = clock])
    /\ UNCHANGED <<scenario, clock>>

RoundNext == RoundTick \/ Send

-----------------------------------------------------------------------------
\* The part of getDataForRewardCalculation that is of a protocol.  Signatures
\* are looked at once the round is finalized.
ProtocolData(txs, protocol) ==
    LET finalizations == ExtractFinalizations(WindowOf(txs, "finalize", 0), 0, PolicyEpoch, protocol)
        first == FirstSuccessful(finalizations)
    IN  [finalizations |-> finalizations, first |-> first,
         signatures |-> IF first = Empty THEN <<>>
                        ELSE ExtractSignatures(WindowOf(txs, "sign", 0), policy, 0, protocol, first.hash)]

FdcData(txs) ==
    LET data == ProtocolData(txs, Fdc)
        votes == BitVotes(BitVoteSubmissions(scenario.bitVotes, policy))
    IN  IF data.first = Empty THEN NoFdcData ELSE FdcRewardData(data.signatures, policy, votes)

\* The median of the round's feed, with the delegation weights of the voters.
RoundMedian ==
    MedianResults(scenario.reveals, [v \in DOMAIN policy |-> policy[v].delegation], 1)[1]

RevealedValues ==
    [v \in DOMAIN policy |-> FeedValues(scenario.reveals, 1)[v][1]]

\* The claims of one offer for the feed; median, signing, finalization and
\* penalties in this order.
FtsoOfferClaims(offer, data) ==
    LET split == SplitOffer(offer)
        median == MedianClaims(policy, split.median, RevealedValues, RoundMedian, scenario.coin)
        eligible == MedianEligible(median)
    IN  IF offer.burn THEN ClaimBack(offer, offer.amount)
        ELSE median
             \o SigningClaims(policy, split.signing, 0, data.signatures, data.first, eligible)
             \o FinalizationClaims(policy, split.finalization, 0, data.first, data.finalizations,
                                   scenario.finalizers, eligible)
             \o PenaltyClaims(policy, offer, scenario.revealOffenders)
             \o PenaltyClaims(policy, offer, DoubleSigners(0, data.signatures))

\* Missing fast update feeds burn the offers.
FastUpdateOfferClaims(offer) ==
    IF scenario.updates = Empty THEN <<Claim(BurnAddress, "DIRECT", offer.amount)>>
    ELSE FastUpdateClaims(policy, offer, RoundMedian.median, scenario.updates.value,
                          scenario.updates.submitted)

\* What cannot be paid of an FDC offer is burnt, whatever the offer says.
FdcOfferClaims(fdcOffer, data, fdc) ==
    LET offer == [fdcOffer EXCEPT !.claimBack = BurnAddress]
        split == SplitFdcOffer(offer)
    IN  IF offer.burn THEN ClaimBack(offer, offer.amount)
        ELSE FinalizationClaims(policy, split.finalization, 0, data.first, data.finalizations,
                                scenario.finalizers, scenario.finalizers)
             \o FdcSigningClaims(policy, split.signing, 0, fdc.signers, data.first, fdc.consensus)
             \o FdcPenaltyClaims(policy, offer, FdcOffenders(fdc))

\* When merging is on, claims are merged after every offer that is not burnt as
\* a whole.  The batch and the incremental calculation turn it off and merge what
\* they aggregate.
AddClaims(all, claims, merge) ==
    IF merge /\ scenario.merge THEN Merge(all \o claims) ELSE all \o claims

\* The claims of each offer in turn, and whether they are merged into the others.
FtsoPieces(data) ==
    [i \in DOMAIN scenario.ftsoOffers |->
        [claims |-> FtsoOfferClaims(scenario.ftsoOffers[i], data),
         merge |-> ~scenario.ftsoOffers[i].burn]]

FastUpdatePieces ==
    [i \in DOMAIN scenario.updateOffers |->
        [claims |-> FastUpdateOfferClaims(scenario.updateOffers[i]), merge |-> TRUE]]

FdcPieces(data, fdc) ==
    [i \in DOMAIN scenario.fdcOffers |->
        [claims |-> FdcOfferClaims(scenario.fdcOffers[i], data, fdc),
         merge |-> ~scenario.fdcOffers[i].burn]]

\* Mutant: the claims of the fast updates take the place of those before.
RoundClaimsOverwritten(txs) ==
    FoldLeft(LAMBDA all, piece : AddClaims(all, piece.claims, piece.merge), <<>>,
             (IF scenario.updateOffers = <<>> THEN FtsoPieces(ProtocolData(txs, Ftso)) ELSE <<>>)
             \o FastUpdatePieces \o FdcPieces(ProtocolData(txs, Fdc), FdcData(txs)))

RoundClaims(txs) ==
    FoldLeft(LAMBDA all, piece : AddClaims(all, piece.claims, piece.merge), <<>>,
             FtsoPieces(ProtocolData(txs, Ftso)) \o FastUpdatePieces
             \o FdcPieces(ProtocolData(txs, Fdc), FdcData(txs)))

\* The errors met when the data of the FDC is read, whatever the offers.
FdcDataThrows(txs) ==
    LET data == ProtocolData(txs, Fdc)
    IN  /\ data.first # Empty
        /\ \/ FdcRewardDataThrows(data.signatures)
           \/ BitVoteThrows(scenario.requests, FdcData(txs).consensus)

\* The errors that end the calculation of the round.
RoundThrows(txs) ==
    LET ftso == ProtocolData(txs, Ftso)
        fdc == FdcData(txs)
        unburnt(offers) == \E o \in ToSet(offers) : ~o.burn
    IN  \/ FdcDataThrows(txs)
        \/ unburnt(scenario.ftsoOffers) /\ SigningThrows(ftso.signatures, ftso.first)
        \/ unburnt(scenario.fdcOffers)
           /\ FdcSigningThrows(policy, 0, fdc.signers, ProtocolData(txs, Fdc).first, fdc.consensus)

-----------------------------------------------------------------------------
\* What the offers of the round amount to.
Offered == Amount(scenario.ftsoOffers) + Amount(scenario.updateOffers) + Amount(scenario.fdcOffers)

(***************************************************************************)
(* Every wei offered for a round is claimed by somebody, the one it goes   *)
(* back to or the burn address included, and no more than that, whatever   *)
(* was signed and finalized by whom and when: through the split of offers, *)
(* four ways to divide them, fees and merging.                             *)
(* (partialRewardClaimsForVotingRound)                                     *)
(***************************************************************************)
OffersPaidOut ==
    ~RoundThrows(sent) => Amount(Positive(RoundClaims(sent))) = Offered

(***************************************************************************)
(* Penalties are taken from what their voters earned and burnt, and never  *)
(* create or destroy a wei: once they are applied all claims are positive, *)
(* their sum is what was offered, and the sanity checks of                 *)
(* mergeWithBurnClaims never strike.                                       *)
(***************************************************************************)
PenaltiesBurnt ==
    ~RoundThrows(sent) =>
        \A merged \in {Merge(RoundClaims(sent))} :
            /\ ~BurnThrows(merged)
            /\ Amount(MergeWithBurn(merged)) = Offered
            /\ \A c \in ToSet(MergeWithBurn(merged)) : c.amount >= 0

\* The right signatures of voters in the window, over what a protocol finalized.
RightSignatures(txs, protocol) ==
    LET first == ProtocolData(txs, protocol).first
    IN  {tx \in ToSet(WindowOf(txs, "sign", 0)) :
            /\ tx.round = 0 /\ tx.protocol = protocol /\ tx.sender \in DOMAIN policy
            /\ first # Empty /\ tx.hash = first.hash /\ tx.signer = tx.sender}

\* The weight of the voters that signed with a candidate, and of those that
\* signed with no other.
Candidates == {tx.candidate : tx \in RightSignatures(sent, Fdc)}
SignedWith(c) == {tx.sender : tx \in {tx \in RightSignatures(sent, Fdc) : tx.candidate = c}}
SignedOnlyWith(c) == {v \in SignedWith(c) : \A d \in Candidates : v \in SignedWith(d) => d = c}
SigningWeight(voters) == SumFunction([v \in voters |-> policy[v].signing])

(***************************************************************************)
(* The calculation of a round stops with an error only when the FTSO was   *)
(* finalized without any right signature of a voter deposited in the       *)
(* rewarded window, or when right signatures of the FDC come with messages *)
(* that make it stop: one of a voter without any bits, whatever its        *)
(* weight, or a bit vote for more than was requested, by voters that weigh *)
(* as much as those behind any other candidate.  Nothing else voters and   *)
(* others send can stop it, as long as all voters have signing weight.     *)
(* (reward-signing.ts:92, reward-fdc-signing.ts:119, fdc-utils.ts:56, 129) *)
(***************************************************************************)
RoundCalculable ==
    RoundThrows(sent) =>
        \/ ProtocolData(sent, Ftso).first # Empty /\ RightSignatures(sent, Ftso) = {}
        \/ NoBits \in Candidates
        \/ \E c \in Candidates \ {Empty, Short} :
              /\ BitVoteThrows(scenario.requests, c)
              /\ \A d \in Candidates \ {Empty, Short} :
                    SigningWeight(SignedWith(c)) >= SigningWeight(SignedOnlyWith(d))

(***************************************************************************)
(* What happens after the rewarded window changes no claim, so two         *)
(* calculations of a round agree however much later one of them is made.   *)
(* (getSignAndFinalizeSubmissionDataForVotingRound)                        *)
(***************************************************************************)
LateTransactionsIgnored ==
    [][clock > EpochEnd(1) /\ ~RoundThrows(sent) =>
          /\ ~RoundThrows(sent')
          /\ RoundClaims(sent') = RoundClaims(sent)]_sent

(***************************************************************************)
(* A voter cannot hurt another by finalizing as well: once the round is    *)
(* finalized, a finalizer keeps its part of a finalization offer whoever   *)
(* comes after it.  (calculateFinalizationRewardClaims)                    *)
(***************************************************************************)
ShareOfOffer == [amount |-> 12, claimBack |-> <<"owner", 0>>]

FinalizationPaid(txs, protocol, v) ==
    LET data == ProtocolData(txs, protocol)
        claims == FinalizationClaims(policy, ShareOfOffer, 0, data.first, data.finalizations,
                                     scenario.finalizers, DOMAIN policy)
    IN  Amount(Select(claims, LAMBDA c : c.to[2] = v))

FinalizersKeepShare ==
    [][\A protocol \in {Ftso, Fdc} : ProtocolData(sent, protocol).first # Empty =>
          \A v \in DOMAIN policy :
              FinalizationPaid(sent', protocol, v) >= FinalizationPaid(sent, protocol, v)]_sent

(***************************************************************************)
(* A voter who signed what was finalized in the grace period, nothing else *)
(* and earned something for the median is paid its whole share of the      *)
(* signing offer at least: its part of all signing weight.  Others can add *)
(* to it by not signing and never take from it.  (calculateSigningRewards; *)
(* for voters with weights)                                                *)
(***************************************************************************)
SignedBy(v, protocol) ==
    {tx \in ToSet(sent) : tx.kind = "sign" /\ tx.sender = v /\ tx.protocol = protocol /\ tx.round = 0}

\* Signs what the finalization is of, with the voter's own key.
SignsRight(tx, first) == tx.hash = first.hash /\ tx.signer = tx.sender

GraceSignersPaid ==
    LET data == ProtocolData(sent, Ftso)
        claims == SigningClaims(policy, ShareOfOffer, 0, data.signatures, data.first, DOMAIN policy)
        all == SumFunction([v \in DOMAIN policy |-> policy[v].signing])
    IN  data.first # Empty /\ ~SigningThrows(data.signatures, data.first) =>
            \A v \in DOMAIN policy :
                /\ policy[v].signing > 0 /\ policy[v].delegation > 0
                /\ \A tx \in SignedBy(v, Ftso) : SignsRight(tx, data.first)
                /\ \E tx \in SignedBy(v, Ftso) :
                       /\ tx.time >= EpochSeconds + RevealDeadline
                       /\ tx.time < EpochSeconds + RevealDeadline + SignatureGrace
                => Amount(Select(claims, LAMBDA c : c.to[2] = v))
                       >= (ShareOfOffer.amount * policy[v].signing) \div all

(***************************************************************************)
(* Who signs two things for a round within its voting epoch loses: no part *)
(* of a signing offer, and a penalty instead, in proportion to its part of *)
(* the weight and all of it however it is split, in whatever order it      *)
(* signs, how often, and whatever finalizes.  (calculateDoubleSigners,     *)
(* calculatePenalties)                                                     *)
(***************************************************************************)
DoubleSignersLose ==
    LET data == ProtocolData(sent, Ftso)
        signing == SigningClaims(policy, ShareOfOffer, 0, data.signatures, data.first, DOMAIN policy)
        penalties == PenaltyClaims(policy, ShareOfOffer, DoubleSigners(0, data.signatures))
        inWindow(tx) == tx.time >= EpochSeconds + RevealDeadline /\ tx.time <= EpochEnd(1)
        all == SumFunction([v \in DOMAIN policy |-> policy[v].delegation])
    IN  data.first # Empty /\ ~SigningThrows(data.signatures, data.first) =>
            \A v \in DOMAIN policy :
                (\E tx, other \in SignedBy(v, Ftso) :
                    /\ inWindow(tx) /\ SignsRight(tx, data.first)
                    /\ inWindow(other) /\ ~SignsRight(other, data.first))
                => /\ \A c \in ToSet(signing) : c.to[2] # v
                   /\ policy[v].delegation > 0 =>
                         Amount(Select(penalties, LAMBDA c : c.to[2] = v))
                           = -((policy[v].delegation * ShareOfOffer.amount * PenaltyFactor) \div all)

(***************************************************************************)
(* An honest voter is never penalised, whatever others do: one that        *)
(* revealed, signed only what was finalized, for the FDC with the bit vote *)
(* of the consensus, and that did sign in the window if its own bit vote   *)
(* covered it.  (calculatePenalties, calculateFdcPenalties,                *)
(* extractFDCRewardData)                                                   *)
(***************************************************************************)
Honest(v) ==
    LET fdc == FdcData(sent)
        votes == BitVotes(BitVoteSubmissions(scenario.bitVotes, policy))
        signed == {tx \in SignedBy(v, Fdc) : tx.time \in WindowStart(0)..WindowEnd(0)}
    IN  /\ v \notin scenario.revealOffenders
        /\ \A protocol \in {Ftso, Fdc} :
               LET first == ProtocolData(sent, protocol).first
               IN  first # Empty => \A tx \in SignedBy(v, protocol) : SignsRight(tx, first)
        /\ \A tx \in SignedBy(v, Fdc) : tx.candidate = fdc.consensus
        /\ fdc.consensus # Empty /\ v \in DOMAIN votes /\ fdc.consensus \subseteq votes[v]
              => signed # {}

HonestNeverPenalised ==
    ~RoundThrows(sent) =>
        \A c \in ToSet(Negative(RoundClaims(sent))), v \in DOMAIN policy :
            Honest(v) => c.to[2] # v

(***************************************************************************)
(* The windows that slide along the transactions of a range of rounds hold *)
(* what a query for each round alone would find.                           *)
(* (getDataForRewardCalculationForVotingRoundRange)                        *)
(***************************************************************************)
WindowsAgree ==
    \A kind \in {"sign", "finalize"} :
        LET txs == Select(sent, LAMBDA tx : tx.kind = kind)
            windows == WindowsInRange(txs, 0, 1)
        IN  \A round \in 0..1 : windows[round] = WindowOf(sent, kind, round)
=============================================================================
