---------------------------- MODULE RewardOffers ----------------------------
(***************************************************************************)
(* How the rewards of an epoch become the offers of its voting rounds      *)
(* (reward-offers.ts, PartialRewardOffer.ts): every round has an equal     *)
(* part of all rewards, for one feed that a random number chooses.         *)
(*                                                                         *)
(* An inflation offer is [feeds, amount, minTurnout, primaryShare,         *)
(* secondaryBands], a community offer [feed, amount, ...] with bands and   *)
(* turnout of its own.  Rounds of an epoch are 1..n here; a random number  *)
(* is Empty while it is undefined.                                         *)
(***************************************************************************)
EXTENDS RewardShares

\* Part i of an amount divided into n, the rest going to the first ones.
Part(amount, n, i) == (amount \div n) + (IF i <= amount % n THEN 1 ELSE 0)

Total(offers) == FoldLeft(LAMBDA sum, o : sum + o.amount, 0, offers)

-----------------------------------------------------------------------------
\* fromInflationRewardOfferedEquallyDistributed.
InflationFeedOffers(offer) ==
    [i \in DOMAIN offer.feeds |->
        [feed |-> offer.feeds[i], amount |-> Part(offer.amount, Len(offer.feeds), i),
         minTurnout |-> offer.minTurnout, primaryShare |-> offer.primaryShare,
         secondaryBand |-> offer.secondaryBands[i], claimBack |-> BurnAddress, inflation |-> TRUE]]

\* fromRewardOffered and adaptCommunityRewardOffer: bands, turnout and the
\* address to claim back to are not those of the offer.
CommunityFeedOffer(offer) ==
    [feed |-> offer.feed, amount |-> offer.amount, minTurnout |-> 0, primaryShare |-> TotalPpm,
     secondaryBand |-> 0, claimBack |-> BurnAddress, inflation |-> FALSE]

\* The configuration of a feed: of the last inflation offer with it, or else of
\* the first community offer.
FeedConfiguration(inflation, community, feed) ==
    LET inflationOffers == Select(FlattenSeq([i \in DOMAIN inflation |-> InflationFeedOffers(inflation[i])]),
                                     LAMBDA o : o.feed = feed)
        communityOffers == Select(community, LAMBDA o : o.feed = feed)
    IN  IF inflationOffers # <<>> THEN Last(inflationOffers)
        ELSE CommunityFeedOffer(communityOffers[1])

-----------------------------------------------------------------------------
\* Mutant: the rest of the division is left.
RoundOfferFloor(inflation, community, n, round, feed) ==
    [FeedConfiguration(inflation, community, feed) EXCEPT
        !.amount = (Total(inflation) + Total(community)) \div n]

\* The offer of a round for a feed: the feed's configuration with the round's
\* part of all rewards.
RoundOffer(inflation, community, n, round, feed) ==
    [FeedConfiguration(inflation, community, feed) EXCEPT
        !.amount = Part(Total(inflation) + Total(community), n, round)]

\* Without a random number the first feed stands in, and the offer is burnt.
SelectedFeed(feeds, random) == IF random = Empty THEN feeds[1] ELSE feeds[(random % Len(feeds)) + 1]

WithBurn(offer, burn) ==
    [field \in DOMAIN offer \cup {"burn"} |-> IF field = "burn" THEN burn ELSE offer[field]]

\* granulatedPartialOfferMapForRandomFeedSelection.
GranulatedOffers(inflation, community, feeds, randoms) ==
    [round \in DOMAIN randoms |->
        WithBurn(RoundOffer(inflation, community, Len(randoms), round, SelectedFeed(feeds, randoms[round])),
                 randoms[round] = Empty)]

\* The same with provideAllOptions: an offer for every feed of every round.
OfferTemplates(inflation, community, feeds, n) ==
    [round \in 1..n |-> [feed \in ToSet(feeds) |->
        WithBurn(RoundOffer(inflation, community, n, round, feed), FALSE)]]

\* Mutant: an offer without a random number is kept.
FixOffersKept(templates, feeds, randoms) ==
    [round \in DOMAIN randoms |-> templates[round][SelectedFeed(feeds, randoms[round])]]

\* fixOffersForRandomFeedSelection.
FixOffers(templates, feeds, randoms) ==
    [round \in DOMAIN randoms |->
        [templates[round][SelectedFeed(feeds, randoms[round])] EXCEPT !.burn = randoms[round] = Empty]]

-----------------------------------------------------------------------------
\* granulatedPartialOfferMapForFastUpdates: feeds are those of the fast updates
\* configuration, with their reward bands.
FastUpdateOffers(amount, incentives, configurations, randoms) ==
    LET total == amount + SumFunction(incentives)
        selected(random) == SelectedFeed(configurations, random)
    IN  [round \in DOMAIN randoms |->
            [feed |-> selected(randoms[round]).feed, rewardBand |-> selected(randoms[round]).rewardBand,
             amount |-> Part(total, Len(randoms), round), burn |-> randoms[round] = Empty]]

\* Mutant: the fees of unconfirmed requests are forgotten.
FdcOffersConfirmed(amount, configurations, requests) ==
    LET weigh(S) == SumFunction([i \in S |-> configurations[i].share])
        seldom == {i \in DOMAIN configurations :
                      configurations[i].appearances < configurations[i].minRequests}
        burnt == (weigh(seldom) * amount) \div weigh(DOMAIN configurations)
        n == Len(requests)
        fees(round) == SumFunction([i \in {i \in DOMAIN requests[round] :
                                              requests[round][i].confirmed}
                                              |-> requests[round][i].fee])
    IN  [round \in 1..n |->
            <<[amount |-> Part(amount - burnt, n, round) + fees(round), burn |-> FALSE],
              [amount |-> Part(burnt, n, round), burn |-> TRUE]>>]

\* granulatedPartialOfferMapForFDC: the part of the inflation of the attestation
\* types that were requested too seldom is burnt, and so are the fees of requests
\* that were not confirmed; the fees of the others add to the offer of the round.
FdcOffers(amount, configurations, requests) ==
    LET weigh(S) == SumFunction([i \in S |-> configurations[i].share])
        seldom == {i \in DOMAIN configurations :
                      configurations[i].appearances < configurations[i].minRequests}
        burnt == (weigh(seldom) * amount) \div weigh(DOMAIN configurations)
        n == Len(requests)
        fees(round, confirmed) == SumFunction([i \in {i \in DOMAIN requests[round] :
                                                         requests[round][i].confirmed = confirmed}
                                              |-> requests[round][i].fee])
    IN  [round \in 1..n |->
            <<[amount |-> Part(amount - burnt, n, round) + fees(round, TRUE), burn |-> FALSE],
              [amount |-> Part(burnt, n, round) + fees(round, FALSE), burn |-> TRUE]>>]
=============================================================================
