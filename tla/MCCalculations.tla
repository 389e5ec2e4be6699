--------------------------- MODULE MCCalculations ---------------------------
(***************************************************************************)
(* Inputs for Calculations.tla: small amounts, weights and times in which  *)
(* the divisions leave rests, weights tie and rounds meet.                 *)
(***************************************************************************)
EXTENDS Calculations

CONSTANTS LastRound, MaxLength,      \* bounds of the lists of epochs to search
          MaxVoters, MaxWeight,      \* of the lists of weights to divide by
          MaxAmount

UpTo(n, S) == UNION {[1..k -> S] : k \in 0..n}

MCLists ==
    {l \in UpTo(MaxLength, 0..LastRound) :
        Len(l) >= 2 /\ \A i \in 1..(Len(l) - 1) : l[i] < l[i + 1]}
MCWeightLists == UpTo(MaxVoters, 0..MaxWeight)
MCAmounts == 0..MaxAmount
MCSelectionWeights == UNION {[1..k -> 0..3] : k \in 1..3}
MCFeedChains == {l \in UpTo(4, 1..5) : \A i \in 1..(Len(l) - 1) : l[i] < l[i + 1]}
MCBurnAddress == <<"burn", 0>>
Owner == <<"owner", 0>>

-----------------------------------------------------------------------------
\* Rounds.
Sign(protocol, v, what, candidate) ==
    [kind |-> "sign", time |-> 0, sender |-> v, signer |-> v, protocol |-> protocol,
     round |-> 0, hash |-> <<protocol, what>>, candidate |-> candidate, epoch |-> 1,
     valid |-> TRUE, successfulOnChain |-> FALSE]

Finalize(protocol, v, succeeds, valid, epoch) ==
    [kind |-> "finalize", time |-> 0, sender |-> v, signer |-> v, protocol |-> protocol,
     round |-> 0, hash |-> <<protocol, "right">>, candidate |-> Empty, epoch |-> epoch,
     valid |-> valid, successfulOnChain |-> succeeds]

MCVoter(delegation, nodes, signing, fee) ==
    [delegation |-> delegation, nodes |-> nodes, signing |-> signing, fee |-> fee]
FeedOffer(total, burn) ==
    [amount |-> total, claimBack |-> Owner, burn |-> burn, minTurnout |-> 5, primaryShare |-> 7,
     secondaryBand |-> 2, rewardBand |-> 5]
SideOffer(total, burn) == [amount |-> total, claimBack |-> Owner, burn |-> burn]
BitVote(v, bits) == [sender |-> v, time |-> 5, votes |-> <<[round |-> 0, bits |-> bits]>>]

TwoVoters ==
    [QuietRound EXCEPT
        !.policy = <<MCVoter(2, <<1>>, 3, 6), MCVoter(1, <<>>, 1, 0)>>, !.maxTxs = 3,
        !.reveals = << <<13>>, <<15>> >>, !.coin = <<TRUE, TRUE>>, !.finalizers = {1, 2}]

\* The FTSO: double signers, finalizers among the selected and others.
FtsoRound ==
    [TwoVoters EXCEPT
        !.ftsoOffers = <<FeedOffer(29, FALSE)>>,
        !.kinds = {Sign(Ftso, 1, "right", Empty), Sign(Ftso, 1, "wrong", Empty),
                   Sign(Ftso, 2, "right", Empty), Finalize(Ftso, 1, TRUE, TRUE, 1),
                   Finalize(Ftso, 2, FALSE, TRUE, 1), Finalize(Ftso, Empty, TRUE, TRUE, 1)}]

\* The FDC: bit votes that cover the consensus, and candidates that differ.
FdcRound ==
    [TwoVoters EXCEPT
        !.merge = FALSE,
        !.fdcOffers = <<SideOffer(23, FALSE), SideOffer(3, TRUE)>>, !.requests = <<2, 3, 2>>,
        !.bitVotes = <<BitVote(1, {0, 1}), BitVote(2, {0})>>,
        !.kinds = {Sign(Fdc, 1, "right", {0}), Sign(Fdc, 1, "right", {0, 1}),
                   Sign(Fdc, 1, "wrong", {0}), Sign(Fdc, 2, "right", {0}),
                   Finalize(Fdc, 1, TRUE, TRUE, 1), Finalize(Fdc, 2, FALSE, TRUE, 1),
                   Finalize(Fdc, Empty, TRUE, TRUE, 1)}]

\* All offers at once, a voter that did not reveal, finalizations that do not
\* verify or are of another reward epoch.
MixedRound ==
    [TwoVoters EXCEPT
        !.merge = FALSE,
        !.ftsoOffers = <<FeedOffer(5, TRUE), FeedOffer(29, FALSE)>>,
        !.updateOffers = <<FeedOffer(11, FALSE)>>, !.fdcOffers = <<SideOffer(23, FALSE)>>,
        !.updates = [value |-> 4, submitted |-> <<1, 2, 1>>], !.requests = <<2>>,
        !.revealOffenders = {2}, !.reveals = << <<13>>, Empty >>,
        !.bitVotes = <<BitVote(1, {0}), BitVote(2, {0})>>, !.finalizers = {1},
        !.kinds = {Sign(Ftso, 1, "right", Empty), Sign(Fdc, 1, "right", {0}),
                   Finalize(Ftso, 2, FALSE, FALSE, 1), Finalize(Ftso, 1, TRUE, TRUE, 1),
                   Finalize(Ftso, 2, FALSE, TRUE, 2), Finalize(Fdc, 1, TRUE, TRUE, 1)}]

\* The FDC once more: a bit vote for more than was requested, which is two
\* requests, and unsigned messages that are none.
SpoiltRound ==
    [FdcRound EXCEPT
        !.kinds = {Sign(Fdc, 1, "right", {0}), Sign(Fdc, 1, "right", Short),
                   Sign(Fdc, 2, "right", {1, 2}), Sign(Fdc, 2, "right", NoBits),
                   Sign(Fdc, 2, "wrong", {1, 2}), Finalize(Fdc, 1, TRUE, TRUE, 1)}]

MCScenarios == {FtsoRound, FdcRound, MixedRound, SpoiltRound}

-----------------------------------------------------------------------------
\* Calculations without steps.
MedianInputs ==
    UNION {[subject : {"median"}, values : [1..k -> {Empty, -1, 2, 3}], byVoter : [1..k -> 0..3]] :
           k \in 1..3}

FeedInputs ==
    [subject : {"feeds"}, inflation : {<<>>, << <<2>>, <<3, 2>> >>},
     community : UpTo(2, [feed : 1..3, amount : {1, 3}]), offer : [feed : 1..3, amount : {1, 3}]]

MCClaims ==
    {Claim(to[1], to[2], total) :
        to \in {<<<<"identity", 1>>, "FEE">>, <<<<"delegation", 1>>, "WNAT">>,
                <<<<"identity", 2>>, "FEE">>, <<MCBurnAddress, "DIRECT">>},
        total \in {-5, 0, 7}}
    \cup {Claim(<<"identity", v>>, "DIRECT", 4) : v \in {1, 2}}
ClaimInputs == [subject : {"claims"}, claims : UpTo(3, MCClaims)]

Inflation(feeds, total) ==
    [feeds |-> feeds, amount |-> total, minTurnout |-> 5, primaryShare |-> 7,
     secondaryBands |-> [i \in DOMAIN feeds |-> i]]
OfferInputs ==
    [subject : {"offers"},
     inflation : {<<Inflation(<<2, 1>>, x)>> : x \in {0, 5, 10}}
                 \cup {<<Inflation(<<1>>, 4), Inflation(<<2, 3, 1>>, x)>> : x \in {3, 8}},
     community : UpTo(2, [feed : {1, 4}, amount : {3, 5}]),
     randoms : UNION {[1..k -> {Empty, 0, 3}] : k \in 1..3}]

Request(data, fee) == [data |-> data, type |-> 1 + (data % 2), fee |-> fee]
SideInputs ==
    [subject : {"sides"}, amount : {0, 7, 20}, incentives : {<<>>, <<3, 2>>},
     updateFeeds : {<<[feed |-> 1, rewardBand |-> 2], [feed |-> 2, rewardBand |-> 3]>>},
     randoms : {<<0, Empty>>, <<1, 3>>},
     configurations : {<<[share |-> 1, minRequests |-> 2], [share |-> 2, minRequests |-> n]>> :
                       n \in 0..2},
     requests : [1..2 -> {<<Request(2, 1)>>,
                          <<Request(2, 1), Request(3, 2), Request(2, 4)>>}],
     bits : [1..2 -> {Empty, {}, {0}}]]

\* Three voters with the addresses of each in another order; the events come in
\* any order, the policy holds some of the voters in any order.
Registered(v, same) ==
    [voter |-> v, epoch |-> 1, signing |-> IF same THEN v ELSE 14 - v,
     submit |-> IF same THEN v ELSE 20 + ((2 * v) % 5),
     submitSignatures |-> IF same THEN v ELSE 30 + ((2 * v) % 3)]
Info(v) == [voter |-> v, epoch |-> 1, delegation |-> 40 + v, weight |-> 5 * v]
Orders(S) == {f \in [1..Cardinality(S) -> S] : \A i, j \in DOMAIN f : i # j => f[i] # f[j]}
EpochInputs ==
    UNION {UNION {
        [subject : {"epoch"},
         registered : {[i \in 1..3 |-> Registered(f[i], same)] : f \in Orders(1..3)},
         infos : {[i \in 1..3 |-> Info(f[i])] : f \in Orders(1..3)},
         policy : {[epoch |-> 1, voters |-> [i \in DOMAIN f |-> Registered(f[i], same).signing],
                    weights |-> [i \in DOMAIN f |-> 7 * i]] : f \in Orders(members)}] :
        members \in (SUBSET (1..3)) \ {{}}} : same \in BOOLEAN}

ChainTx(time, relay, sender, succeeds, place) ==
    [kind |-> "finalize", time |-> time, block |-> time, index |-> place, relay |-> relay,
     sender |-> sender, protocol |-> Ftso, round |-> 0, epoch |-> 1, valid |-> TRUE,
     hash |-> "right", successfulOnChain |-> succeeds]
Ascending(S) == {f \in UpTo(3, S) : \A i \in 1..(Len(f) - 1) : f[i] <= f[i + 1]}
ChainInputs ==
    {[subject |-> "chain",
      txs |-> [i \in DOMAIN times |-> ChainTx(times[i], "old", 1, FALSE, i)]] :
        times \in Ascending({4, 5, 9, 10, 14, 15})}
    \cup UNION {
        {[subject |-> "chain",
          txs |-> [i \in 1..3 |-> ChainTx(times[i], kinds[i][1], kinds[i][2], kinds[i][3], i)]] :
            kinds \in [1..3 -> {"old", "new"} \X {1, 2, Empty} \X BOOLEAN]} :
        times \in {<<6, 6, 6>>, <<6, 6, 7>>}}

MCRounds(updates, feeds, offenses) ==
    [updates : updates, feeds : {feeds}, signing : {{}, {1}, {1, 2}}, finalization : {{}, {2}},
     offense : offenses]
MCFeed(median, x, y) == <<[median |-> median, values |-> <<x, y>>]>>
ConditionEpochs ==
    [weights : {<<1, 1>>, <<2, 3>>, <<3, 1>>},
     nodes : {<< <<[stake |-> 6, selfBond |-> 3, uptime |-> up]>>, <<>> >> : up \in BOOLEAN},
     rounds : {<<r, s>> : r \in MCRounds({<<1>>, <<1, 2>>, Empty}, MCFeed(3, 3, 9), {{}, {1}}),
                          s \in MCRounds({<<>>, <<2, 1, 1>>}, MCFeed(0, 0, Empty), {{}})}]
ConditionInputs == [subject : {"conditions"}, feeds : {1}, epoch : ConditionEpochs]

\* Trees of up to seven leaves, and other data that share some.
TreeInputs ==
    [subject : {"tree"},
     values : {Reverse(InOrder(S)) : S \in SUBSET (1..6) \cup {1..7}} \cup UpTo(3, 1..2),
     others : {InOrder(S) : S \in SUBSET (1..4)}]

\* Messages.
PayloadInputs ==
    [subject : {"payloads"},
     messages : UpTo(2, [protocol : 1..2, round : {3}, payload : UpTo(2, 0..1) \cup {<<0, 1, 1>>}])]

MCMessage == [protocol |-> 1, round |-> 3, secure |-> TRUE, root |-> "root"]
MCPolicy(epoch, voters, ofVoters, threshold) ==
    [epoch |-> epoch, start |-> 5, threshold |-> threshold, seed |-> "seed", voters |-> voters,
     weights |-> ofVoters]
MCRelay(by, message, newPolicy) ==
    [policy |-> by, message |-> message, newPolicy |-> newPolicy, signatures |-> <<>>]
OfTwo == {MCRelay(MCPolicy(1, <<2, 1>>, ofVoters, threshold), MCMessage, <<>>) :
            ofVoters \in {<<2, 1>>, <<1, 3>>}, threshold \in 1..3}
OfThree == {MCRelay(MCPolicy(1, <<3, 1, 2>>, <<1, 2, 1>>, threshold), <<>>,
                    MCPolicy(2, <<1>>, <<4>>, 2)) : threshold \in 2..3}
\* A signature of the message or of another one, at any index.
MCSignatures(m) == [signer : 1..2, of : {SignedHash(m), <<"other", <<>>>>}, index : 1..3]
Signed(m, f) ==
    [m EXCEPT !.signatures =
        [i \in DOMAIN f |-> [signer |-> m.policy.voters[f[i]], of |-> SignedHash(m), index |-> f[i]]]]
RelayInputs ==
    [subject : {"relay"},
     relay : UNION {{[m EXCEPT !.signatures = list] : list \in UpTo(2, MCSignatures(m))} :
                    m \in OfTwo \cup OfThree}
             \cup {Signed(m, f) : m \in OfThree, f \in [1..3 -> 1..3]}]
SignatureInputs ==
    [subject : {"signature"},
     payload : [message : {MCMessage}, signer : {1}, of : {"hash"}, unsigned : UpTo(2, 0..1)]]

MCInputs == TreeInputs \cup PayloadInputs \cup RelayInputs \cup SignatureInputs
            \cup MedianInputs \cup FeedInputs \cup ClaimInputs \cup OfferInputs
            \cup SideInputs \cup EpochInputs \cup ChainInputs \cup ConditionInputs
=============================================================================
