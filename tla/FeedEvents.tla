----------------------------- MODULE FeedEvents -----------------------------
(***************************************************************************)
(* The events of a range of rounds (IndexerClientForRewarding.ts and what  *)
(* DataManagerForRewarding.ts makes of them): the feeds of the fast        *)
(* updates, one slot for each round with the slots of missing events       *)
(* filled in, the submitted updates, the attestation requests and the      *)
(* finalizations of the relay contracts.                                   *)
(*                                                                         *)
(* The machine is the loop of getFastUpdateFeedsEvents.  An event is       *)
(* known by its round.  The fast updates contract emits one event for a    *)
(* round, in the order of the rounds; for rounds that were not emitted     *)
(* once only, the loops at the end of the function would never end.        *)
(***************************************************************************)
EXTENDS RewardData

CONSTANTS FeedChains,          \* the events that the query may return: lists of rounds
          FirstFeedRound, LastFeedRound,   \* the range asked for
          Missing              \* "MISSING_FAST_UPDATE_FEEDS"

ASSUME FeedAssumption ==
    /\ FeedChains \subseteq Seq(Nat)
    /\ \A chain \in FeedChains : \A i \in 1..(Len(chain) - 1) : chain[i] < chain[i + 1]
    /\ FirstFeedRound \in Nat \ {0} /\ LastFeedRound \in Nat
    /\ FirstFeedRound <= LastFeedRound

VARIABLES feedRounds,   \* the events, by their rounds
          position,     \* the next event
          processed,    \* the last round with a slot, or -1
          slots         \* the feeds by round: an event or Missing
feedVars == <<feedRounds, position, processed, slots>>

InFeedRange(round) == round \in FirstFeedRound..LastFeedRound

FeedEventsInit ==
    /\ feedRounds \in FeedChains
    /\ position = 1 /\ processed = -1 /\ slots = <<>>

\* No event at all: every round misses its own.
NoFeedEvents ==
    /\ feedRounds = <<>> /\ processed = -1 /\ slots = <<>>
    /\ slots' = [i \in 1..(LastFeedRound - FirstFeedRound + 1) |-> Missing]
    /\ processed' = LastFeedRound
    /\ UNCHANGED <<feedRounds, position>>

\* The query ends a voting epoch late, and the switch of contracts may bring
\* older rounds.
\*
\* Mutant: the event is passed over without counting it.
SkipFeedEventStays ==
    /\ position <= Len(feedRounds) /\ ~InFeedRange(feedRounds[position])
    /\ UNCHANGED feedVars

SkipFeedEvent ==
    /\ position <= Len(feedRounds) /\ ~InFeedRange(feedRounds[position])
    /\ position' = position + 1
    /\ UNCHANGED <<feedRounds, processed, slots>>

\* The event of the next round, or one after a gap that is filled first.
\*
\* Mutant: with the first events missing the gap is taken to start one later.
TakeFeedEventLate ==
    /\ position <= Len(feedRounds) /\ InFeedRange(feedRounds[position])
    /\ LET round == feedRounds[position]
           before == IF processed = -1 THEN FirstFeedRound ELSE processed
           gap == [i \in 1..(round - before - 1) |-> Missing]
       IN  /\ slots' = slots \o gap \o <<round>>
           /\ processed' = before + Len(gap) + 1
    /\ position' = position + 1
    /\ UNCHANGED feedRounds

TakeFeedEvent ==
    /\ position <= Len(feedRounds) /\ InFeedRange(feedRounds[position])
    /\ LET round == feedRounds[position]
           before == IF processed = -1 THEN FirstFeedRound - 1 ELSE processed
           gap == [i \in 1..(round - before - 1) |-> Missing]
       IN  /\ slots' = slots \o gap \o <<round>>
           /\ processed' = before + Len(gap) + 1
    /\ position' = position + 1
    /\ UNCHANGED feedRounds

\* The gap at the end.  With events of other rounds only it starts from -1, and
\* there are more slots than rounds.
FillFeedEnd ==
    /\ position > Len(feedRounds) /\ feedRounds # <<>> /\ processed # LastFeedRound
    /\ slots' = Append(slots, Missing)
    /\ processed' = processed + 1
    /\ UNCHANGED <<feedRounds, position>>

FeedEventsNext == NoFeedEvents \/ SkipFeedEvent \/ TakeFeedEvent \/ FillFeedEnd

FeedsFetched == position > Len(feedRounds) /\ processed = LastFeedRound

-----------------------------------------------------------------------------
\* getFastUpdateFeedsSubmittedEvents: events [round, signer] by their round, in
\* the order of the chain.
UpdatesByRound(submitted, first, last) ==
    [i \in 1..(last - first + 1) |->
        Select(submitted, LAMBDA e : e.round = first + i - 1)]

\* getFastUpdatesDataForVotingRoundRange: none for a round without its feeds.
FastUpdatesData(feeds, submitted, first, last) ==
    [i \in 1..(last - first + 1) |->
        IF feeds[i] = Missing THEN Empty
        ELSE [feeds |-> feeds[i],
              submitted |-> [k \in DOMAIN UpdatesByRound(submitted, first, last)[i] |->
                                UpdatesByRound(submitted, first, last)[i][k].signer]]]

\* Mutant: a request of the last second of a round goes to the next one.
RequestsByRoundShort(requests, first, last) ==
    LET queried == Select(requests, LAMBDA r : /\ r.time >= first * EpochSeconds
                                                  /\ r.time <= EpochEnd(last))
        next(starts, round) ==
            Append(starts, Slide(queried, starts[Len(starts)], LAMBDA r : r.time < EpochEnd(round)))
        starts == FoldLeft(next, <<1>>, [i \in 1..(last - first + 1) |-> first + i - 1])
    IN  [i \in 1..(last - first + 1) |-> SubSeq(queried, starts[i], starts[i + 1] - 1)]

\* getAttestationRequestEvents: an index goes along the requests once.
RequestsByRound(requests, first, last) ==
    LET queried == Select(requests, LAMBDA r : /\ r.time >= first * EpochSeconds
                                                  /\ r.time <= EpochEnd(last))
        next(starts, round) ==
            Append(starts, Slide(queried, starts[Len(starts)], LAMBDA r : r.time <= EpochEnd(round)))
        starts == FoldLeft(next, <<1>>, [i \in 1..(last - first + 1) |-> first + i - 1])
    IN  [i \in 1..(last - first + 1) |-> SubSeq(queried, starts[i], starts[i + 1] - 1)]

\* calculateAttestationTypeAppearances: what was confirmed, once each, by type.
Appearances(requestsOfRounds, marksOfRounds, type) ==
    SumFunction([i \in DOMAIN requestsOfRounds |->
        Cardinality({k \in DOMAIN requestsOfRounds[i] :
            /\ marksOfRounds[i][k].confirmed /\ ~marksOfRounds[i][k].duplicate
            /\ requestsOfRounds[i][k].type = type})])

-----------------------------------------------------------------------------
\* getFinalizationDataInRange: the transactions to the older relay contracts of
\* the network come before those to the present one.
FinalizationsInRange(relays, from, to) ==
    FlattenSeq([k \in DOMAIN relays |->
        Select(relays[k], LAMBDA tx : tx.time >= from /\ tx.time <= to)])

\* Mutant: within a block the transactions are left as they come.
SortSubmissionsByBlock(txs) ==
    LET order == SetToSortSeq(DOMAIN txs, LAMBDA i, j :
            txs[i].block < txs[j].block \/ (txs[i].block = txs[j].block /\ i < j))
    IN  [k \in DOMAIN order |-> txs[order[k]]]

\* sortSubmissionDataArray: by block and by the index in it.
SortSubmissions(txs) ==
    LET order == SetToSortSeq(DOMAIN txs, LAMBDA i, j :
            \/ txs[i].block < txs[j].block
            \/ txs[i].block = txs[j].block /\ txs[i].index < txs[j].index)
    IN  [k \in DOMAIN order |-> txs[order[k]]]

-----------------------------------------------------------------------------
(***************************************************************************)
(* Each round gets its own feeds, or is known to miss them, wherever the   *)
(* gaps are: at the start of the range, within it, at its end, or all of   *)
(* it.  Reading a slot of another round would pay fast updates for         *)
(* another round's values.  (getFastUpdateFeedsEvents)                     *)
(***************************************************************************)
FeedsOfTheirRounds ==
    FeedsFetched =>
        \A round \in FirstFeedRound..LastFeedRound :
            slots[round - FirstFeedRound + 1] =
                IF round \in ToSet(feedRounds) THEN round ELSE Missing
=============================================================================
