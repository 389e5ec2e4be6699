---------------------------- MODULE Calculations ----------------------------
(***************************************************************************)
(* The calculations of the reward code side by side, each on inputs of its *)
(* own: those that are loops with a state (the search of an epoch, the     *)
(* division of an amount, the selection of voters, a round on a growing    *)
(* chain, the feeds of a range of rounds, the passes of providers) run as  *)
(* machines, and those without steps are looked at for every input.  A     *)
(* behaviour is one calculation; all others rest.                          *)
(*                                                                         *)
(* The properties here compare a calculation with what it is to compute,   *)
(* or relate two calculations that have to agree.                          *)
(***************************************************************************)
EXTENDS EpochSearch, ShareOut, VoterSelection, RewardRound, FeedOrdering,
        RewardOffers, RewardEpoch, FeedEvents, MinimalConditions, MerkleTree, Messages

CONSTANT Inputs   \* of the calculations without steps: records with a "subject"

VARIABLE input

NoInput == [subject |-> "none"]

calcVars == <<vars, shareVars, selectionVars, roundVars, feedVars, passesVars, input>>

-----------------------------------------------------------------------------
\* A calculation at rest: at its end, with nothing to calculate.
SearchRests ==
    startVotingRoundIds = <<0, 1>> /\ votingRoundId = 0 /\ low = 1 /\ high = 2 /\ done = TRUE

ShareRests ==
    /\ weights = <<>> /\ amount = 0 /\ step = "done" /\ voter = 1 /\ totals = <<0>>
    /\ availableReward = 0 /\ availableWeight = 0 /\ totalReward = 0 /\ rewards = <<>>

SelectionRests ==
    voterWeights = <<>> /\ selected = {} /\ selectedWeight = 0 /\ selecting = FALSE

QuietRound ==
    [policy |-> <<>>, maxTxs |-> 0, ftsoOffers |-> <<>>, updateOffers |-> <<>>, fdcOffers |-> <<>>,
     reveals |-> <<>>, revealOffenders |-> {}, coin |-> <<>>, updates |-> Empty, requests |-> <<>>, bitVotes |-> <<>>,
     finalizers |-> {}, kinds |-> {}, merge |-> TRUE]

RoundRests == scenario = QuietRound /\ clock = LastTime /\ sent = <<>>

FeedEventsRest ==
    /\ feedRounds = <<>> /\ position = 1 /\ processed = LastFeedRound
    /\ slots = [i \in 1..(LastFeedRound - FirstFeedRound + 1) |-> Missing]

PassesRest ==
    /\ epochs = MaxEpochs /\ passes = <<>> /\ outcome = <<>>
    /\ earned = [p \in Providers |-> 0] /\ forgiven = [p \in Providers |-> 0]

CalcInit ==
    \/ Init /\ ShareRests /\ SelectionRests /\ RoundRests /\ FeedEventsRest /\ PassesRest
            /\ input = NoInput
    \/ ShareInit /\ SearchRests /\ SelectionRests /\ RoundRests /\ FeedEventsRest /\ PassesRest
            /\ input = NoInput
    \/ SelectionInit /\ SearchRests /\ ShareRests /\ RoundRests /\ FeedEventsRest /\ PassesRest
            /\ input = NoInput
    \/ RoundInit /\ SearchRests /\ ShareRests /\ SelectionRests /\ FeedEventsRest /\ PassesRest
            /\ input = NoInput
    \/ FeedEventsInit /\ SearchRests /\ ShareRests /\ SelectionRests /\ RoundRests /\ PassesRest
            /\ input = NoInput
    \/ PassesInit /\ SearchRests /\ ShareRests /\ SelectionRests /\ RoundRests /\ FeedEventsRest
            /\ input = NoInput
    \/ input \in Inputs /\ SearchRests /\ ShareRests /\ SelectionRests /\ RoundRests
            /\ FeedEventsRest /\ PassesRest

\* What rests has no step, so at most one disjunct is enabled.
CalcNext ==
    /\ UNCHANGED input
    /\ \/ Next /\ UNCHANGED <<shareVars, selectionVars, roundVars, feedVars, passesVars>>
       \/ ShareNext /\ UNCHANGED <<vars, selectionVars, roundVars, feedVars, passesVars>>
       \/ SelectionNext /\ UNCHANGED <<vars, shareVars, roundVars, feedVars, passesVars>>
       \/ RoundNext /\ UNCHANGED <<vars, shareVars, selectionVars, feedVars, passesVars>>
       \/ FeedEventsNext /\ UNCHANGED <<vars, shareVars, selectionVars, roundVars, passesVars>>
       \/ PassesNext /\ UNCHANGED <<vars, shareVars, selectionVars, roundVars, feedVars>>

\* Loops go on: they wait for nothing.
CalcSpec ==
    /\ CalcInit /\ [][CalcNext]_calcVars
    /\ WF_vars(Next) /\ WF_feedVars(FeedEventsNext)

-----------------------------------------------------------------------------
(***************************************************************************)
(* The loops of ShareOut.tla, which the proofs are about, give what the    *)
(* operator Shares gives, which the claims are made with.                  *)
(***************************************************************************)
SharesAgree == step = "done" => rewards = Shares(weights, amount)

(***************************************************************************)
(* calculateMedian computes the weighted median and quartiles of their     *)
(* definition: of the list that holds every value as often as its weight   *)
(* says, in ascending order, the middle (the floor of the average of both  *)
(* middle ones), and the elements a quarter from either end.  That is so   *)
(* when all weights are positive; with any weight at all it never throws.  *)
(***************************************************************************)
MedianRight ==
    input.subject = "median" =>
        LET voters == VotersByValue(input.values)
            all == FlattenSeq([k \in DOMAIN voters |->
                      [j \in 1..input.byVoter[voters[k]] |-> input.values[voters[k]]]])
            n == Len(all)
            result == CalculateMedian(input.values, input.byVoter)
        IN  /\ n > 0 => ~result.throws
            /\ n > 0 /\ (\A v \in DOMAIN input.byVoter : input.byVoter[v] > 0) =>
                  /\ result.participating = n
                  /\ result.median = (all[(n + 1) \div 2] + all[(n \div 2) + 1]) \div 2
                  /\ result.quartile1 = all[(n \div 4) + 1]
                  /\ result.quartile3 = all[n - (n \div 4)]

(***************************************************************************)
(* Voters with less than half of the participating weight cannot move the  *)
(* median out of the range of the others' values, whatever they submit.    *)
(* (calculateMedian)                                                       *)
(***************************************************************************)
MajorityHoldsMedian ==
    input.subject = "median" =>
        LET voted == {v \in DOMAIN input.values : input.values[v] # Empty}
            weigh(S) == SumFunction([v \in S |-> input.byVoter[v]])
            result == CalculateMedian(input.values, input.byVoter)
        IN  \A others \in SUBSET voted : 2 * weigh(others) > weigh(voted) =>
                \E a, b \in others :
                    input.values[a] <= result.median /\ result.median <= input.values[b]

(***************************************************************************)
(* The values a provider submits are those the median is calculated from:  *)
(* encoded, stripped of empty values at the end, and decoded for the feeds *)
(* of the epoch they are the same, and never a payload that cannot be      *)
(* decoded.  Decoded for fewer feeds, they are those of the first feeds or *)
(* are refused, and refused only if a value would be lost otherwise.       *)
(* (FeedValueEncoder)                                                      *)
(***************************************************************************)
FeedValuesSurvive ==
    input.subject = "median" =>
        LET values == input.values
            codes == Encode(values)
            cut(n) == \E i \in (n + 1)..Len(values) : values[i] # Empty
        IN  (\A i \in DOMAIN values : Encodable(values[i])) =>
                \A n \in DOMAIN values :
                    IF cut(n) THEN ~Decodable(codes, n)
                    ELSE Decodable(codes, n) /\ Decode(codes, n) = SubSeq(values, 1, n)

(***************************************************************************)
(* A community offer never hurts the feed it is for: one more offer moves  *)
(* no other feed ahead of it and leaves the order of the others as it was. *)
(* (sortFeedWithValuesToCanonicalOrder; the order decides where providers  *)
(* put the value of a feed, so it must not depend on anything else.)       *)
(***************************************************************************)
FeedOrderMonotone ==
    input.subject = "feeds" =>
        LET before == FeedSequence(input.inflation, input.community)
            after == FeedSequence(input.inflation, Append(input.community, input.offer))
            place(sequence, feed) == CHOOSE i \in DOMAIN sequence : sequence[i] = feed
        IN  \A a, b \in ToSet(before) :
                place(before, a) < place(before, b) /\ b # input.offer.feed
                => place(after, a) < place(after, b)

\* Claims as they are made: of whole amounts and of any type; what is of the
\* first provider is of its identity or delegation address or a node.  An address
\* may have claims of several types: who finalizes late is paid to the address it
\* sends from, which may be any of a provider's, and its identity and delegation
\* addresses may be one.  (ClaimType, reward-finalization.ts:55)
MadeClaims(claims) ==
    /\ claims \in Seq(ToSet(claims))
    /\ \A c \in ToSet(claims) :
          /\ c = Claim(c.to, c.type, c.amount) /\ c.amount \in Int
          /\ c.type \in {"DIRECT", "FEE", "WNAT", "MIRROR"}
          /\ c.to = BurnAddress \/ c.to[1] \in {"identity", "delegation", "node"} \/ c.to[2] # 1

ASSUME ClaimsAssumption == \A i \in Inputs : i.subject = "claims" => MadeClaims(i.claims)

(***************************************************************************)
(* Claims may be merged in pieces, as they are in aggregates of rounds,    *)
(* with the result of merging them at once: one claim for a beneficiary,   *)
(* type and sign that holds all amounts, so penalties never hide in        *)
(* rewards before they are burnt.  (RewardClaim merge)                     *)
(***************************************************************************)
ClaimsMerged ==
    input.subject = "claims" =>
        LET claims == input.claims
            first(k) == Merge(SubSeq(claims, 1, k))
        IN  \A k \in 0..Len(claims) :
                LET merged == Merge(first(k) \o SubSeq(claims, k + 1, Len(claims)))
                IN  /\ merged = Merge(claims)
                    /\ \A c \in ToSet(claims \o merged) :
                          LET key == <<c.to, c.type, c.amount < 0>>
                          IN  /\ Amount(OfKey(merged, key)) = Amount(OfKey(claims, key))
                              /\ Len(OfKey(merged, key)) = 1

(***************************************************************************)
(* Burning the claims of ineligible providers keeps the total and leaves   *)
(* nothing to them, their delegators or nodes and everything else as it    *)
(* was.  For claims that come out of mergeWithBurnClaims the check for two *)
(* equal claims never strikes, and the one for two claims of a beneficiary *)
(* when somebody who keeps its claims has some of two types, and only      *)
(* then: neither two claims of a provider to be burnt nor any number of    *)
(* rewards and penalties make it strike.                                   *)
(* (updateClaimsForMinimalConditions, buildRewardClaimMerkleTree)          *)
(***************************************************************************)
IneligibleBurnt ==
    input.subject = "claims" =>
        LET claims == MergeWithBurn(Merge(input.claims))
            new == BurnIneligible(claims, {1})
            others(list) == Select(list, LAMBDA c : c.to # BurnAddress /\ c.to[2] # 1)
        IN  /\ BurnIneligibleThrows(claims, {1}) <=>
                  \E c, d \in ToSet(others(claims)) : c.to = d.to /\ c.type # d.type
            /\ ~ClaimTreeThrows(new)
            /\ Amount(new) = Amount(claims)
            /\ others(new) = others(claims)
            /\ \A c \in ToSet(new) : c.to[2] # 1 \/ c.to = BurnAddress

-----------------------------------------------------------------------------
OfferedFeeds ==
    FeedSequence([i \in DOMAIN input.inflation |-> input.inflation[i].feeds], input.community)

\* Offers as they are made: of whole amounts and for some feed; and what a round
\* has of a random number.
MadeOffers(i) ==
    /\ i.inflation \in Seq(ToSet(i.inflation)) /\ i.community \in Seq(ToSet(i.community))
    /\ \A o \in ToSet(i.inflation) : o.amount \in Nat /\ o.feeds \in Seq(ToSet(o.feeds)) /\ o.feeds # <<>>
    /\ \A o \in ToSet(i.community) : o.amount \in Nat
    /\ i.inflation # <<>> \/ i.community # <<>>
    /\ i.randoms \in Seq(Nat \cup {Empty}) /\ i.randoms # <<>>

\* Shares of attestation types are parts of something, and a consensus bit vote
\* is of requests of the round.
MadeSides(i) ==
    /\ i.amount \in Nat /\ i.incentives \in Seq(Nat)
    /\ i.randoms \in Seq(ToSet(i.randoms)) /\ i.randoms # <<>>
    /\ i.configurations \in Seq(ToSet(i.configurations))
    /\ \A c \in ToSet(i.configurations) : c.share \in Nat
    /\ \E c \in ToSet(i.configurations) : c.share > 0
    /\ i.requests \in Seq(ToSet(i.requests)) /\ i.requests # <<>>
    /\ \A n \in DOMAIN i.requests :
          LET requests == i.requests[n]
          IN  /\ requests \in Seq(ToSet(requests)) /\ \A r \in ToSet(requests) : r.fee \in Nat
              /\ i.bits[n] = Empty \/ i.bits[n] \in SUBSET Nat
              /\ ~BitVoteThrows([k \in DOMAIN requests |-> requests[k].data], i.bits[n])

ASSUME OffersAssumption ==
    \A i \in Inputs : /\ i.subject = "offers" => MadeOffers(i)
                      /\ i.subject = "sides" => MadeSides(i)

(***************************************************************************)
(* The offers of the rounds of an epoch add up to all that was offered for *)
(* it, with no wei lost in two divisions, and no two rounds differ by more *)
(* than one; rounds without a random number keep their part, to be burnt.  *)
(* (granulatedPartialOfferMapForRandomFeedSelection)                       *)
(***************************************************************************)
EpochOffersComplete ==
    input.subject = "offers" =>
        LET offers == GranulatedOffers(input.inflation, input.community, OfferedFeeds, input.randoms)
        IN  /\ Total(offers) = Total(input.inflation) + Total(input.community)
            /\ \A i, j \in DOMAIN offers : offers[i].amount <= offers[j].amount + 1
            /\ \A i \in DOMAIN offers : offers[i].burn <=> input.randoms[i] = Empty

(***************************************************************************)
(* Offers made before the random numbers are known, for every feed of      *)
(* every round, and fixed to the selected feed later are the offers made   *)
(* at once when all random numbers are known.  The incremental and the     *)
(* batch calculation rest on one of the two each.                          *)
(* (fixOffersForRandomFeedSelection)                                       *)
(***************************************************************************)
FixingCommutes ==
    input.subject = "offers" =>
        FixOffers(OfferTemplates(input.inflation, input.community, OfferedFeeds, Len(input.randoms)),
                  OfferedFeeds, input.randoms)
            = GranulatedOffers(input.inflation, input.community, OfferedFeeds, input.randoms)

(***************************************************************************)
(* All inflation and incentives for fast updates, all inflation of the FDC *)
(* and the fee of every attestation request go into the offers of the      *)
(* rounds once, be it to be paid or to be burnt, whatever was requested    *)
(* twice, confirmed or asked for too seldom.                               *)
(* (granulatedPartialOfferMapForFastUpdates, granulatedPartialOfferMapForFDC) *)
(***************************************************************************)
Marked(round) ==
    LET requests == input.requests[round]
        marks == MarkRequests([k \in DOMAIN requests |-> requests[k].data], input.bits[round])
    IN  [k \in DOMAIN requests |->
            [type |-> requests[k].type, fee |-> requests[k].fee,
             confirmed |-> marks[k].confirmed, duplicate |-> marks[k].duplicate]]

SideOffersComplete ==
    input.subject = "sides" =>
        LET rounds == [i \in DOMAIN input.requests |-> Marked(i)]
            updates == FastUpdateOffers(input.amount, input.incentives, input.updateFeeds,
                                        input.randoms)
            configurations == [type \in DOMAIN input.configurations |->
                [share |-> input.configurations[type].share,
                 minRequests |-> input.configurations[type].minRequests,
                 appearances |-> Appearances(rounds, rounds, type)]]
            fdc == FdcOffers(input.amount, configurations, rounds)
            fees == FlattenSeq([i \in DOMAIN rounds |-> [k \in DOMAIN rounds[i] |-> rounds[i][k].fee]])
        IN  /\ Total(updates) = input.amount + SumFunction(input.incentives)
            /\ Total(FlattenSeq(fdc)) = input.amount + SumFunction(fees)

(***************************************************************************)
(* Appearances of attestation types, which decide about the burning of     *)
(* their inflation, count what was confirmed: one for every bit of the     *)
(* rounds' bit votes, however many times the same was asked.               *)
(* (calculateAttestationTypeAppearances, uniqueRequestsIndices)            *)
(***************************************************************************)
ConfirmedOnce ==
    input.subject = "sides" =>
        LET rounds == [i \in DOMAIN input.requests |-> Marked(i)]
            types == {r.type : r \in UNION {ToSet(rounds[i]) : i \in DOMAIN rounds}}
        IN  SumFunction([type \in types |-> Appearances(rounds, rounds, type)])
                = SumFunction([i \in DOMAIN rounds |->
                                 IF input.bits[i] = Empty THEN 0 ELSE Cardinality(input.bits[i])])

-----------------------------------------------------------------------------
Pairs == PairRegistrations(input.registered, input.infos)
KnownEpoch == MakeEpoch(input.policy, Pairs)

(***************************************************************************)
(* The addresses of a voter of the signing policy lead to one another and  *)
(* to its weights, in whatever order its events were logged, and the       *)
(* addresses of a voter that registered but is not in the policy lead      *)
(* nowhere, so it is given no weight and no reward.  (RewardEpoch,         *)
(* getFullVoterRegistrationInfoEvents)                                     *)
(***************************************************************************)
AddressesAgree ==
    input.subject = "epoch" =>
        LET epoch == KnownEpoch
            event(v) == CHOOSE e \in ToSet(input.registered) : e.voter = v
            info(v) == CHOOSE e \in ToSet(input.infos) : e.voter = v
        IN  /\ ~PairingThrows(input.registered, input.infos)
            /\ \A e \in ToSet(input.registered) :
                LET inPolicy == e.signing \in ToSet(input.policy.voters)
                    known(x) == IF inPolicy THEN x ELSE NoAddress
                IN  /\ SubmitOfSubmitSignature(epoch, e.submitSignatures) = known(e.submit)
                    /\ SubmitSignatureOfSubmit(epoch, e.submit) = known(e.submitSignatures)
                    /\ SigningOfSubmitSignature(epoch, e.submitSignatures) = known(e.signing)
                    /\ WeightOfSubmitSignature(epoch, e.submitSignatures)
                          = known(Lookup(epoch.signingAddressToSigningWeight, e.signing))
                    /\ RegistrationOfSigner(epoch, e.signing)
                          = known([registered |-> e, info |-> info(e.voter)])
                    /\ Lookup(epoch.submitAddressToCappedWeight, e.submit) = known(info(e.voter).weight)
            /\ \A i \in DOMAIN input.policy.voters :
                  epoch.signingAddressToSigningWeight[input.policy.voters[i]] = input.policy.weights[i]

(***************************************************************************)
(* What the claims are calculated with, made again from the files of the   *)
(* epoch and the round, is what the reward epoch said when the files were  *)
(* written: the same weights for the same voters.                          *)
(* (getRewardEpochInfo, augmentDataForCalculation, getVotersWeights)       *)
(***************************************************************************)
FilesKeepVoters ==
    input.subject = "epoch" =>
        LET epoch == KnownEpoch
            again == Augmented(input.policy, StoredRegistrations(epoch),
                               epoch.orderedVotersSubmitAddresses)
        IN  /\ again.votersWeightsMap = VotersWeights(epoch)
            /\ again.signingAddressToSubmitAddress = epoch.signingAddressToSubmitAddress
            /\ again.signerToSigningWeight = epoch.signingAddressToSigningWeight
            /\ again.totalSigningWeight = epoch.totalSigningWeight

-----------------------------------------------------------------------------
(***************************************************************************)
(* Every attestation request of the range goes to the round it was made    *)
(* in, those at the seconds where rounds meet included, and none to two.   *)
(* (getAttestationRequestEvents)                                           *)
(***************************************************************************)
RequestsOfTheirRounds ==
    input.subject = "chain" =>
        LET byRound == RequestsByRound(input.txs, 1, 2)
        IN  \A round \in 1..2 :
                byRound[round] = Select(input.txs, LAMBDA r : EpochOf(r.time) = round)

(***************************************************************************)
(* The finalization that signing rewards are measured by is the first on   *)
(* chain, though the transactions to an old and to the new relay contract  *)
(* come from two queries: no earlier one succeeded, unless its sender had  *)
(* sent another one before.  (getFinalizationDataInRange,                  *)
(* sortSubmissionDataArray, extractFinalizations)                          *)
(***************************************************************************)
FirstFinalizationFirst ==
    input.subject = "chain" =>
        LET relays == <<Select(input.txs, LAMBDA tx : tx.relay = "old"),
                        Select(input.txs, LAMBDA tx : tx.relay = "new")>>
            sorted == SortSubmissions(FinalizationsInRange(relays, 0, EpochEnd(3)))
            first == FirstSuccessful(ExtractFinalizations(sorted, 0, PolicyEpoch, Ftso))
        IN  \A i \in DOMAIN input.txs :
                /\ input.txs[i].successfulOnChain
                /\ \A j \in 1..(i - 1) : input.txs[j].sender # input.txs[i].sender
                => \E k \in 1..i : first = input.txs[k]

-----------------------------------------------------------------------------
ASSUME EpochsAssumption ==
    \A i \in Inputs : i.subject = "conditions" => i.feeds \in Nat /\ IsEpoch(i.epoch, i.feeds)

(***************************************************************************)
(* Rounding is never at a provider's disadvantage: one with its share of   *)
(* all fast updates meets their condition.  And whatever rounds are left   *)
(* out for missing fast updates, one with a fee and without an offense in  *)
(* every FDC round in which anybody has a fee meets the FDC's.  (A share   *)
(* of these rounds is not enough: those left out may be the provider's.)   *)
(* (calculateMinimalConditions)                                            *)
(***************************************************************************)
ShareMeetsCondition ==
    input.subject = "conditions" =>
        LET epoch == input.epoch
            all == FlattenSeq([i \in DOMAIN epoch.rounds |->
                      IF epoch.rounds[i].updates = Empty THEN <<>> ELSE epoch.rounds[i].updates])
            total == SumFunction(epoch.weights)
        IN  \A v \in DOMAIN epoch.weights :
                /\ TotalPpm * total * Len(Select(all, LAMBDA u : u = v))
                      >= epoch.weights[v] * UpdatesShare * Len(all)
                   => UpdatesMet(epoch, v)
                /\ (\A i \in DOMAIN epoch.rounds :
                       LET fees == epoch.rounds[i].signing \cup epoch.rounds[i].finalization
                       IN  fees # {} => v \in fees \ epoch.rounds[i].offense)
                   => FdcMet(epoch, v)

(***************************************************************************)
(* A provider that took full part, at the median in every feed of every    *)
(* round, with its updates, all its nodes up and bonded, and a fee in      *)
(* every FDC round, meets all four conditions and earns a pass, whatever   *)
(* the others do.  (calculateMinimalConditions; for feeds with a median    *)
(* that is not negative, and rounds that all have their fast updates)      *)
(***************************************************************************)
FullPart(epoch, v) ==
    /\ \A i \in DOMAIN epoch.rounds :
          LET round == epoch.rounds[i]
          IN  /\ round.updates # Empty
              /\ 2 * Len(Select(round.updates, LAMBDA u : u = v)) >= Len(round.updates)
              /\ \A k \in DOMAIN round.feeds :
                    LET feed == round.feeds[k]
                    IN  feed.median # Empty /\ feed.median >= 0 /\ feed.values[v] = feed.median
              /\ v \in round.signing /\ v \notin round.offense
    /\ 2 * epoch.weights[v] <= SumFunction(epoch.weights)
    /\ \A k \in DOMAIN epoch.nodes[v] : epoch.nodes[v][k].uptime
    /\ BondOf(epoch.nodes[v]) >= DesiredSelfBond /\ StakeOf(epoch.nodes[v]) >= DesiredStake

FullPartPays ==
    input.subject = "conditions" =>
        \A v \in DOMAIN input.epoch.weights :
            FullPart(input.epoch, v) =>
                LET conditions == ConditionsOf(input.epoch, v, input.feeds)
                IN  Strikes(conditions) = 0 /\ PassEarned(conditions)

-----------------------------------------------------------------------------
\* Results, claims and messages are proven, read and verified for what they are:
\* the properties of MerkleTree.tla and Messages.tla for the inputs here.
ResultsProven ==
    input.subject = "tree" =>
        /\ ProofsProve(input.values)
        /\ RootsDiffer(input.values, input.others)
        /\ NothingElseProven(input.values, input.others)

MessagesReadBack ==
    /\ input.subject = "payloads" => PayloadsReadBack(input.messages)
    /\ input.subject = "relay" => RelayReadBack(input.relay)
    /\ input.subject = "signature" => SignatureReadBack(input.payload)

MajorityVerifies ==
    input.subject = "relay" => VerifiedByThreshold(input.relay) /\ CollectedVerify(input.relay)

-----------------------------------------------------------------------------
(***************************************************************************)
(* What the runs check, by what is at stake.                               *)
(***************************************************************************)

\* From the offers of an epoch to those of its rounds nothing is lost or made
\* up, whichever way and in whatever pieces they are calculated.
\* (reward-offers.ts)
OffersConserved == EpochOffersComplete /\ FixingCommutes /\ SideOffersComplete /\ ConfirmedOnce

\* From the claims of a round to those of an epoch that are paid nothing is lost
\* or made up, though claims are merged, penalties and claims of the ineligible
\* burnt.  (RewardClaim.ts, updateClaimsForMinimalConditions)
ClaimsConserved == PenaltiesBurnt /\ ClaimsMerged /\ IneligibleBurnt

\* Signers get their due: who signed rightly and in time its share at least (of
\* the loops that divide an offer) and no penalty, who signed two things nothing,
\* whatever the others send.
SignersGetTheirDue ==
    SharesAgree /\ GraceSignersPaid /\ DoubleSignersLose /\ HonestNeverPenalised

\* What comes later does no harm: after the rewarded window it changes nothing,
\* and within it takes nothing from those that finalized.
LaterIsHarmless == LateTransactionsIgnored /\ FinalizersKeepShare

\* Every event counts for the round it belongs to, in the order of the chain,
\* be it fetched for one round or for many, from one contract or from two.
EventsOfTheirRounds ==
    WindowsAgree /\ FeedsOfTheirRounds /\ RequestsOfTheirRounds /\ FirstFinalizationFirst

\* Providers are held to the minimal conditions as they were earned: rounding
\* never costs one its condition, and no pass is invented or counted twice.
ConditionsJust == PassesEarned /\ PassFilesAgree /\ ShareMeetsCondition /\ FullPartPays

\* The result of a voting round: the feeds in their order, the medians the
\* majority of the weight stands for, a root with proofs for these alone, and
\* signatures for it that verify when voters of more than the threshold signed.
ResultRight ==
    /\ FeedOrderMonotone /\ MedianRight /\ MajorityHoldsMedian
    /\ ResultsProven /\ MajorityVerifies

\* What is written is read as it was: voters with their addresses and weights,
\* from the events on chain to the files the claims are calculated from, feed
\* values, payloads, signatures and relay messages, whole or cut off.
ReadAsWritten == AddressesAgree /\ FilesKeepVoters /\ FeedValuesSurvive /\ MessagesReadBack

\* The loops of findRewardEpochId and getFastUpdateFeedsEvents end.
LoopsEnd == SearchEnds /\ <>FeedsFetched
=============================================================================
