------------------------- MODULE IncrementalRewards -------------------------
(***************************************************************************)
(* The incremental reward calculation: CalculatorService.                  *)
(* runRewardCalculationIncremental and the files it keeps for one reward   *)
(* epoch.  The rewards of an epoch are shared equally among its voting     *)
(* rounds, and in every round one feed is rewarded, chosen by the first    *)
(* secure random of a later round.  The calculation runs while the epoch   *)
(* is going on, so neither its last round nor that random is known yet:    *)
(* template offers are made for the expected end, offers are fixed and     *)
(* claims calculated when randoms appear, and the real end is learned from *)
(* the signing policy of the next epoch.                                   *)
(*                                                                         *)
(* One process, cut at the awaits at which the database is read; it may be *)
(* killed anywhere and is then started again.  Offers and claims are       *)
(* abstracted to what decides their contents: the end of the epoch the     *)
(* share was calculated with and the round whose random chose the feed.    *)
(* Fast updates and FDC are not calculated incrementally.                  *)
(***************************************************************************)
EXTENDS Integers, Sequences, FiniteSetsExt

CONSTANTS
    StartRound,    \* first voting round of the epoch
    ExpectedEnd,   \* its last round, by the epoch settings
    RealEnds,      \* the last rounds it may turn out to have
    FutureRounds,  \* FUTURE_VOTING_ROUNDS: rounds searched for a random after the end
    ExtraRounds,   \* ADDITIONAL_ROUNDS of an extension
    BatchOffset,   \* INCREMENTAL_BATCH_END_OFFSET of the catch-up
    MaxRound,      \* bound: last round of the clock
    MaxStarts      \* bound: number of times the calculation is started

\* Epochs may start late, never early.
ASSUME IncrementalRewardsAssumption ==
    /\ {StartRound, ExpectedEnd, FutureRounds, ExtraRounds, BatchOffset} \subseteq Nat \ {0}
    /\ StartRound <= ExpectedEnd
    /\ RealEnds \subseteq ExpectedEnd..MaxRound
    /\ MaxRound \in Nat /\ MaxStarts \in Nat

Rounds == StartRound..(MaxRound + ExtraRounds)

Unfixed == 0                             \* no nextVotingRoundRandomResult yet
AllFeeds == 0                            \* a template offers for every feed
NoOffer == [end |-> 0, feed |-> AllFeeds]
\* Rounds whose random matters: later than the first, with data within the bound.
Randomized == (StartRound + 1)..(MaxRound - 2)
Offers == [end : Rounds, feed : Rounds \cup {AllFeeds}]
NoClaims == <<>>

VARIABLES
    (* chain and indexer *)
    now,             \* current voting round
    secure,          \* the rounds with a secure random
    realEnd,         \* last round of the epoch
    policyIndexed,   \* is the next epoch's signing policy in the database?
    nextStarted,     \* is the next epoch's start event in the database?
    (* the process *)
    pc, failure, starts, catchingUp,
    votingRoundId, endVotingRoundId, finalProcessedVotingRoundId,
    nextRewardEpochIdentified, maxVotingRoundIdFolder,
    nextVotingRoundIdWithNoSecureRandom, nextVotingRoundForClaimCalculation,
    (* the files *)
    data,            \* rounds with reward calculation data
    fixed,           \* the round whose random was assigned to a round
    offers, claims,
    aggregated,      \* the claims added up, as the sequence of their rounds' claims
    status, finalClaims

nextNoSecure == nextVotingRoundIdWithNoSecureRandom
nextClaim == nextVotingRoundForClaimCalculation

chain   == <<now, secure, realEnd, policyIndexed, nextStarted>>
ends    == <<endVotingRoundId, finalProcessedVotingRoundId, nextRewardEpochIdentified>>
next    == <<nextVotingRoundIdWithNoSecureRandom, nextVotingRoundForClaimCalculation>>
results == <<claims, aggregated>>
outcome == <<status, finalClaims>>
vars == <<chain, pc, failure, starts, catchingUp, votingRoundId, ends,
          maxVotingRoundIdFolder, next, data, fixed, offers, results, outcome>>

-----------------------------------------------------------------------------
(* Data for a round includes the signatures of the round after it.  Blocks   *)
(* are indexed in order: whoever has data of rounds at the end of the epoch  *)
(* also has the policy of the next one, which is on chain before it starts.  *)
DataReady(v) == /\ now > v + 1
                /\ v >= realEnd => policyIndexed
                /\ v > realEnd => nextStarted

\* End of the epoch as getRewardEpochDurationRange has it.
DurationEnd == IF policyIndexed THEN realEnd ELSE ExpectedEnd

Earlier(a, b) == IF a <= b THEN a ELSE b
Later(a, b) == IF a >= b THEN a ELSE b

\* Mutant: offers are also made for the rounds that are searched for a random.
TemplateOffersAhead(e) ==
    [r \in Rounds |-> IF r <= e + FutureRounds THEN [end |-> e, feed |-> AllFeeds]
                      ELSE offers[r]]

\* Offers for all feeds of all rounds of an epoch that ends with round e.
TemplateOffers(e) ==
    [r \in Rounds |-> IF r <= e THEN [end |-> e, feed |-> AllFeeds] ELSE offers[r]]

\* In the rounds from..to only the offer of the selected feed is left.
FixOffers(off, random, from, to) ==
    [r \in Rounds |-> IF r \in from..to THEN [off[r] EXCEPT !.feed = random[r]] ELSE off[r]]

\* Rounds of from+1..to with a secure random.
SecureRounds(from, to) == secure \cap ((from + 1)..to)

-----------------------------------------------------------------------------
Init ==
    /\ now = StartRound
    /\ secure \in SUBSET Randomized
    /\ realEnd \in RealEnds
    /\ policyIndexed = FALSE /\ nextStarted = FALSE
    /\ pc = "off" /\ failure = "none" /\ starts = 0 /\ catchingUp = FALSE
    /\ votingRoundId = 0 /\ endVotingRoundId = 0 /\ finalProcessedVotingRoundId = 0
    /\ nextRewardEpochIdentified = FALSE /\ maxVotingRoundIdFolder = 0
    /\ nextVotingRoundIdWithNoSecureRandom = StartRound
    /\ nextVotingRoundForClaimCalculation = StartRound
    /\ data = {}
    /\ fixed = [r \in Rounds |-> Unfixed]
    /\ offers = [r \in Rounds |-> NoOffer]
    /\ claims = [r \in Rounds |-> NoOffer]
    /\ aggregated = [r \in Rounds |-> NoClaims]
    /\ status = "none" /\ finalClaims = NoClaims

(* Chain and indexer *)

NewRound ==
    /\ now < MaxRound
    /\ now' = now + 1
    /\ UNCHANGED <<secure, realEnd, policyIndexed, nextStarted>>

IndexPolicy ==
    /\ ~policyIndexed
    /\ policyIndexed' = TRUE
    /\ UNCHANGED <<now, secure, realEnd, nextStarted>>

IndexNextStart ==
    /\ ~nextStarted /\ policyIndexed /\ now > realEnd
    /\ nextStarted' = TRUE
    /\ UNCHANGED <<now, secure, realEnd, policyIndexed>>

Environment ==
    /\ NewRound \/ IndexPolicy \/ IndexNextStart
    /\ UNCHANGED <<pc, failure, starts, catchingUp, votingRoundId, ends,
                   maxVotingRoundIdFolder, next, data, fixed, offers, results, outcome>>

-----------------------------------------------------------------------------
(* Start and catch-up *)

\* An exception ends the process.
Throw(why) == pc' = "failed" /\ failure' = why

\* The process starts, or goes on after an epoch: the latest reward epoch that
\* started is this one, and its storage is destroyed.
Begin ==
    /\ pc \in {"off", "failed", "done"}
    /\ ~nextStarted /\ starts < MaxStarts
    /\ starts' = starts + 1
    /\ pc' = "init" /\ failure' = "none"
    /\ data' = {}
    /\ fixed' = [r \in Rounds |-> Unfixed]
    /\ offers' = [r \in Rounds |-> NoOffer]
    /\ claims' = [r \in Rounds |-> NoOffer]
    /\ aggregated' = [r \in Rounds |-> NoClaims]
    /\ status' = "none" /\ finalClaims' = NoClaims
    /\ UNCHANGED <<chain, catchingUp, votingRoundId, ends, maxVotingRoundIdFolder, next>>

\* The duration is known, as far as it is: folders, template offers and the
\* initial state.  Catch-up is for the rounds some time before the present one.
Initialize ==
    /\ pc = "init"
    /\ pc' = "data" /\ catchingUp' = TRUE
    /\ status' = "IN_PROGRESS"
    /\ offers' = TemplateOffers(DurationEnd)
    /\ votingRoundId' = Earlier(now, DurationEnd) - BatchOffset
    /\ endVotingRoundId' = DurationEnd
    /\ finalProcessedVotingRoundId' = DurationEnd + FutureRounds
    /\ nextRewardEpochIdentified' = FALSE
    /\ maxVotingRoundIdFolder' = DurationEnd
    /\ nextVotingRoundIdWithNoSecureRandom' = StartRound
    /\ nextVotingRoundForClaimCalculation' = StartRound
    /\ UNCHANGED <<chain, failure, starts, data, fixed, results, finalClaims>>

\* Workers calculate the data of all rounds of the catch-up, each retrying
\* until it is available.
CatchUpData ==
    /\ pc = "data" /\ catchingUp
    /\ votingRoundId >= StartRound => DataReady(votingRoundId)
    /\ data' = StartRound..votingRoundId
    /\ pc' = "fix"
    /\ UNCHANGED <<chain, failure, starts, catchingUp, votingRoundId, ends,
                   maxVotingRoundIdFolder, next, fixed, offers, results, outcome>>

-----------------------------------------------------------------------------
(* The main loop, from pc = "loop" over "data", "fix", "claims", "find" *)

\* Mutant: the epoch is extended when its end is known, too.
SearchedInVainAnyway == votingRoundId = finalProcessedVotingRoundId

SearchedInVain == /\ votingRoundId = finalProcessedVotingRoundId
                  /\ ~nextRewardEpochIdentified

\* The search for a secure random is over and the next epoch is still not
\* known: the epoch is extended and all offers are made anew.
ExtendRewardEpochDuration ==
    LET newEnd == votingRoundId + ExtraRounds IN
    /\ pc = "loop"
    /\ SearchedInVain
    /\ pc' = "data"
    /\ endVotingRoundId' = newEnd
    /\ finalProcessedVotingRoundId' = newEnd + FutureRounds
    /\ maxVotingRoundIdFolder' = newEnd
    /\ offers' = FixOffers(TemplateOffers(newEnd), fixed, StartRound, nextNoSecure - 1)
    /\ UNCHANGED <<chain, failure, starts, catchingUp, votingRoundId,
                   nextRewardEpochIdentified, next, data, fixed, results, outcome>>

EnterRound ==
    /\ pc = "loop"
    /\ votingRoundId <= finalProcessedVotingRoundId /\ ~SearchedInVain
    /\ pc' = "data"
    /\ UNCHANGED <<chain, failure, starts, catchingUp, votingRoundId, ends,
                   maxVotingRoundIdFolder, next, data, fixed, offers, results, outcome>>

LeaveLoop ==
    /\ pc = "loop"
    /\ votingRoundId > finalProcessedVotingRoundId
    /\ pc' = "cleanup"
    /\ UNCHANGED <<chain, failure, starts, catchingUp, votingRoundId, ends,
                   maxVotingRoundIdFolder, next, data, fixed, offers, results, outcome>>

\* Mutant: folders made by the data calculation are forgotten.
FolderForgotten == maxVotingRoundIdFolder

FolderCounted == Later(maxVotingRoundIdFolder, votingRoundId)

\* The data of the round is available at last; it is written without a random
\* to reward the round with, which may create the round's folder.
RoundData ==
    /\ pc = "data" /\ ~catchingUp
    /\ DataReady(votingRoundId)
    /\ data' = data \cup {votingRoundId}
    /\ fixed' = [fixed EXCEPT ![votingRoundId] = Unfixed]
    /\ maxVotingRoundIdFolder' = FolderCounted
    /\ pc' = "fix"
    /\ UNCHANGED <<chain, failure, starts, catchingUp, votingRoundId, ends,
                   next, offers, results, outcome>>

\* Mutant: rounds are fixed with the last secure random found.
FixWithLatest(secured) ==
    [r \in Rounds |-> IF nextNoSecure <= r /\ r < Max(secured) THEN Max(secured) ELSE fixed[r]]

\* Every round without a random gets the first secure one after it.
FixRandomNumbers(secured) ==
    [r \in Rounds |-> IF nextNoSecure <= r /\ r < Max(secured)
                      THEN Min({v \in secured : v > r})
                      ELSE fixed[r]]

\* Mutant: a missing file is read as no offers.
SelectableOrMissing(r, v) == offers[r] = NoOffer \/ offers[r].feed \in {AllFeeds, v}

\* Is there an offer of round r for the feed the random of round v selects?
Selectable(r, v) == offers[r] # NoOffer /\ offers[r].feed \in {AllFeeds, v}

\* Randoms are fixed up to the last secure one, then the offers of the same
\* rounds.  A round that has no offer for the selected feed ends the process,
\* after the randoms are written and before the offers are.
FixRandomNumbersAndOffers ==
    LET secured == SecureRounds(nextNoSecure, votingRoundId)
        random == FixRandomNumbers(secured)
        fixedRounds == nextNoSecure..(Max(secured) - 1)
    IN
    /\ pc = "fix"
    /\ IF secured = {}
       THEN pc' = "claims" /\ UNCHANGED <<failure, fixed, offers, next>>
       ELSE /\ fixed' = random
            /\ nextVotingRoundIdWithNoSecureRandom' = Max(secured)
            /\ IF \A r \in fixedRounds : Selectable(r, random[r])
               THEN /\ offers' = FixOffers(offers, random, nextNoSecure, Max(secured) - 1)
                    /\ pc' = "claims" /\ UNCHANGED failure
               ELSE Throw("no offer") /\ UNCHANGED offers
            /\ UNCHANGED nextVotingRoundForClaimCalculation
    /\ UNCHANGED <<chain, starts, catchingUp, votingRoundId, ends,
                   maxVotingRoundIdFolder, data, results, outcome>>

\* Claims of the next round with a random, and their aggregation with those of
\* the rounds before.  Aggregates that exist are kept, except for the first.
CalculateClaims ==
    LET r == nextClaim IN
    /\ pc = "claims" /\ r < nextNoSecure
    /\ claims' = [claims EXCEPT ![r] = offers[r]]
    /\ aggregated' = [aggregated EXCEPT ![r] =
                        IF r = StartRound THEN <<offers[r]>>
                        ELSE IF @ = NoClaims THEN Append(aggregated[r - 1], offers[r])
                        ELSE @]
    /\ nextVotingRoundForClaimCalculation' = r + 1
    /\ UNCHANGED <<chain, pc, failure, starts, catchingUp, votingRoundId, ends,
                   maxVotingRoundIdFolder, nextVotingRoundIdWithNoSecureRandom,
                   data, fixed, offers, outcome>>

\* The temporary rewards are reported from the last aggregate; when there is
\* none yet, this ends the process.  On to the next round.
ReportRewards ==
    /\ pc = "claims" /\ nextClaim >= nextNoSecure
    /\ IF nextClaim = StartRound
       THEN Throw("no aggregate to report") /\ UNCHANGED <<catchingUp, votingRoundId>>
       ELSE /\ votingRoundId' = votingRoundId + 1
            /\ pc' = IF catchingUp THEN "loop" ELSE "find"
            /\ catchingUp' = FALSE
            /\ UNCHANGED failure
    /\ UNCHANGED <<chain, starts, ends, maxVotingRoundIdFolder, next, data, fixed,
                   offers, results, outcome>>

\* Mutant: the epoch ends with the first round of the next one.
PolicyEndInclusive == realEnd + 1

\* The signing policy of the next epoch says where this one ends.
PolicyEnd == realEnd

\* Mutant: one more round is waited for.
RandomsCompleteLate(end) == nextNoSecure > end + 1

RandomsComplete(end) == nextNoSecure > end

\* Mutant: the end is compared before it is set, as the branch after it intends.
TryFindNextRewardEpochComparing ==
    LET identified == nextRewardEpochIdentified \/ policyIndexed
        changes == ~nextRewardEpochIdentified /\ policyIndexed /\ endVotingRoundId # realEnd
    IN
    /\ pc = "find"
    /\ nextRewardEpochIdentified' = identified
    /\ IF policyIndexed
       THEN /\ endVotingRoundId' = PolicyEnd
            /\ finalProcessedVotingRoundId' = PolicyEnd + FutureRounds
       ELSE UNCHANGED <<endVotingRoundId, finalProcessedVotingRoundId>>
    /\ IF changes
       THEN /\ offers' = FixOffers(TemplateOffers(realEnd), fixed, StartRound, nextNoSecure - 1)
            /\ maxVotingRoundIdFolder' = Later(maxVotingRoundIdFolder, realEnd)
            /\ nextVotingRoundForClaimCalculation' = StartRound
       ELSE UNCHANGED <<offers, maxVotingRoundIdFolder, nextVotingRoundForClaimCalculation>>
    /\ pc' = IF identified /\ RandomsComplete(endVotingRoundId') THEN "cleanup" ELSE "loop"
    /\ UNCHANGED <<chain, failure, starts, catchingUp, votingRoundId,
                   nextVotingRoundIdWithNoSecureRandom, data, fixed, results, outcome>>

\* Once the policy of the next epoch is there, the end is set.  The offers stay
\* what they are: the code that would make them anew compares the end with
\* itself.  The loop is left when all rounds of the epoch have a random.
TryFindNextRewardEpoch ==
    LET identified == nextRewardEpochIdentified \/ policyIndexed IN
    /\ pc = "find"
    /\ nextRewardEpochIdentified' = identified
    /\ IF ~nextRewardEpochIdentified /\ policyIndexed
       THEN /\ endVotingRoundId' = PolicyEnd
            /\ finalProcessedVotingRoundId' = PolicyEnd + FutureRounds
       ELSE UNCHANGED <<endVotingRoundId, finalProcessedVotingRoundId>>
    /\ pc' = IF identified /\ RandomsComplete(endVotingRoundId') THEN "cleanup" ELSE "loop"
    /\ UNCHANGED <<chain, failure, starts, catchingUp, votingRoundId, maxVotingRoundIdFolder,
                   next, data, fixed, offers, results, outcome>>

-----------------------------------------------------------------------------
(* The end of the calculation *)

\* The duration is asked for again, the folders of later rounds are removed and
\* the ends are compared.  Then the status is set, and only after that the final
\* claims are written.
Cleanup ==
    LET kept(f, none) == [r \in Rounds |-> IF r \in (realEnd + 1)..maxVotingRoundIdFolder
                                           THEN none ELSE f[r]]
    IN
    /\ pc = "cleanup"
    /\ IF ~policyIndexed
       THEN Throw("no policy") /\ UNCHANGED <<data, fixed, offers, results, status>>
       ELSE /\ data' = data \ ((realEnd + 1)..maxVotingRoundIdFolder)
            /\ fixed' = kept(fixed, Unfixed)
            /\ offers' = kept(offers, NoOffer)
            /\ claims' = kept(claims, NoOffer)
            /\ aggregated' = kept(aggregated, NoClaims)
            /\ IF endVotingRoundId = realEnd
               THEN pc' = "finish" /\ status' = "DONE" /\ UNCHANGED failure
               ELSE Throw("mismatch of ends") /\ UNCHANGED status
    /\ UNCHANGED <<chain, starts, catchingUp, votingRoundId, ends, maxVotingRoundIdFolder,
                   next, finalClaims>>

WriteFinalClaims ==
    /\ pc = "finish"
    /\ IF aggregated[endVotingRoundId] = NoClaims
       THEN Throw("no aggregate at the end") /\ UNCHANGED finalClaims
       ELSE /\ finalClaims' = aggregated[endVotingRoundId]
            /\ pc' = "done" /\ UNCHANGED failure
    /\ UNCHANGED <<chain, starts, catchingUp, votingRoundId, ends, maxVotingRoundIdFolder,
                   next, data, fixed, offers, results, status>>

\* The next epoch has started: the process, or the one started in its place,
\* turns to it and leaves this one as it is.
TurnToNextEpoch ==
    /\ pc \in {"off", "failed", "done"} /\ nextStarted
    /\ pc' = "next"
    /\ UNCHANGED <<chain, failure, starts, catchingUp, votingRoundId, ends,
                   maxVotingRoundIdFolder, next, data, fixed, offers, results, outcome>>

Kill ==
    /\ pc \notin {"off", "failed", "next"}
    /\ pc' = "off"
    /\ UNCHANGED <<chain, failure, starts, catchingUp, votingRoundId, ends,
                   maxVotingRoundIdFolder, next, data, fixed, offers, results, outcome>>

Calculation ==
    \/ Initialize \/ CatchUpData
    \/ ExtendRewardEpochDuration \/ EnterRound \/ LeaveLoop
    \/ RoundData \/ FixRandomNumbersAndOffers \/ CalculateClaims \/ ReportRewards
    \/ TryFindNextRewardEpoch \/ Cleanup \/ WriteFinalClaims

Next == Environment \/ Begin \/ Calculation \/ TurnToNextEpoch \/ Kill

Spec == Init /\ [][Next]_vars

\* The process runs unless it is killed, time passes and the indexer catches up.
FairSpec == /\ Spec
            /\ WF_vars(Calculation)
            /\ WF_vars(NewRound /\ Environment)
            /\ WF_vars(IndexPolicy /\ Environment)
            /\ WF_vars(IndexNextStart /\ Environment)

-----------------------------------------------------------------------------
Running == pc \notin {"off", "failed", "done", "next"}

TypeOK ==
    /\ now \in StartRound..MaxRound
    /\ secure \subseteq Randomized
    /\ realEnd \in RealEnds
    /\ policyIndexed \in BOOLEAN /\ nextStarted \in BOOLEAN
    /\ pc \in {"off", "init", "data", "fix", "claims", "loop", "find", "cleanup",
               "finish", "done", "failed", "next"}
    /\ failure \in {"none", "no offer", "no aggregate to report", "no policy",
                    "mismatch of ends", "no aggregate at the end"}
    /\ starts \in 0..MaxStarts
    /\ catchingUp \in BOOLEAN
    /\ votingRoundId \in Int
    /\ endVotingRoundId \in Nat /\ finalProcessedVotingRoundId \in Nat
    /\ nextRewardEpochIdentified \in BOOLEAN
    /\ maxVotingRoundIdFolder \in Nat
    /\ nextNoSecure \in Rounds /\ nextClaim \in Rounds
    /\ data \subseteq Rounds
    /\ fixed \in [Rounds -> Rounds \cup {Unfixed}]
    /\ offers \in [Rounds -> Offers \cup {NoOffer}]
    /\ claims \in [Rounds -> Offers \cup {NoOffer}]
    /\ aggregated \in [Rounds -> Seq(Offers)]
    /\ status \in {"none", "IN_PROGRESS", "DONE"}
    /\ finalClaims \in Seq(Offers)

(* Properties *)

\* Behind nextVotingRoundForClaimCalculation, an aggregate is the sum of the
\* claims on file of all rounds up to its own, each of them once.  At risk
\* because aggregates that exist are not made again: whoever calculates claims
\* a second time leaves stale aggregates behind.
AggregatesFresh ==
    \A r \in Rounds : r < nextClaim /\ aggregated[r] # NoClaims =>
        aggregated[r] = [i \in 1..(r - StartRound + 1) |-> claims[StartRound + i - 1]]

\* v is the first round after r with a secure random.
FirstSecureAfter(r, v) == /\ v > r /\ v \in secure
                          /\ \A w \in (r + 1)..(v - 1) : w \notin secure

\* Claims are calculated for one feed only, which the first secure random after
\* the round selects: a random that nobody knew in the round, and not one of
\* several to choose from.  Offers are made anew and rounds are fixed one by one
\* or in a batch, so it could be another one.
ClaimsForSelectedFeed ==
    \A r \in Rounds : claims[r] # NoOffer => FirstSecureAfter(r, claims[r].feed)

\* The final claims of the epoch are those of all its rounds, each with its share
\* for the real length of the epoch, so that they add up to what was offered.
\* The process starts with an expected length; when the epoch turns out longer
\* it must not get to the end with these shares.  Holds as long as the epoch ends
\* before the expected end is extended.
FinalClaimsShareOffers ==
    finalClaims # NoClaims /\ realEnd < ExpectedEnd + FutureRounds =>
        /\ Len(finalClaims) = realEnd - StartRound + 1
        /\ \A i \in DOMAIN finalClaims : finalClaims[i].end = realEnd

\* The sanity check of cleanupAndReturnFinalEpochDuration never fails, nor is the
\* next epoch unknown by then: end and duration come from the same policy.
EndsAgree == failure \notin {"mismatch of ends", "no policy"}

\* When the calculation is done, nothing of rounds after the epoch is left on
\* file.  Folders come into being in four places, and are counted by hand.
NoRoundsLeftOver ==
    status = "DONE" => \A r \in Rounds : r > realEnd => r \notin data /\ offers[r] = NoOffer

\* State and files agree with one another and with the chain.
StateConsistent == TypeOK /\ EndsAgree /\ NoRoundsLeftOver

\* The doc of tryFindNextRewardEpoch, "If the next reward epoch is found, offers
\* get reinitialized": from then on the offers of all rounds are for its real end.
OffersReinitialized ==
    nextRewardEpochIdentified /\ pc \in {"loop", "data"} =>
        \A r \in StartRound..realEnd : offers[r].end = realEnd

\* The calculation does not go on forever: the next epoch is found, or the search
\* for a random given up.
CalculationEnds == Running ~> ~Running

\* An epoch of the expected length, with a secure random in the first round
\* after it, is completed by a process that got through its catch-up, unless it
\* is killed.
PunctualEpochCompletes ==
    (pc = "loop" /\ realEnd = ExpectedEnd /\ realEnd + 1 \in secure)
        ~> (pc = "done" \/ pc = "off")
=============================================================================
