# TLA+ models of the FTSO Scaling data provider and reward calculator

This directory holds TLA+ models of the code in this repository, TLC
configurations that check them on small instances, and proofs checked by TLAPS
that hold for every value of the constants.  All line references are to the
repository; `PROJECT.json` maps every definition to the lines it stands for.

    tlc -workers 2 -config MCVotingRound.cfg MCVotingRound     # one run
    tlapm VotingRoundProofs.tla                                # one set of proofs

## 1. Inventory

Two programs share a library. `apps/ftso-data-provider` is an HTTP server a
*client* (Flare Systems Client, not in this repository) asks, in every voting
round, for what it then sends to the chain. `apps/ftso-reward-calculation-process`
computes the rewards of an epoch from what is on chain. Both read a MySQL
database an external *indexer* fills from the chain and prunes at its old end.

| Component | State | Operations | What is hard | What makes it correct |
|---|---|---|---|---|
| Commit and reveal requests (`ftso-data-provider.controller.ts`, `.service.ts`) | LRU cache of reveal data, set of pending rounds, shutdown flag | `submit1`, `submit2`, `beforeApplicationShutdown` | requests overlap at awaits; eviction; restart; shutdown during a request | a reveal opens the commit that was given out; no random is used twice; a reveal that is due is served; shutdown waits for it and ends |
| Result requests (`submitSignatures`, `data`, `specific-feed`, `medianCalculationResults`) | none of their own | one read of a round's data, Merkle tree | indexer lags, stops, prunes between two reads | data providers that answer OK agree |
| `DataManager`, `ftso-random.ts` | none | `getDataForCalculations`, `calculateRandom` | last of several messages; boundary seconds; answers on timeout; withheld reveals | final results; a secure random nobody could still influence |
| `IndexerClient` | none | range checks, queries | check and query are separate database calls | a range checked is a range read |
| `RewardEpochManager` | cache of reward epochs, ordered list of consecutive ones | `getRewardEpochForVotingEpochId`, `initializeRewardEpoch`, `getRewardEpochDurationRange`, `findRewardEpochId` | concurrent initialisation; epochs that start late; policies not indexed yet; pruned history | a round is never attributed to another epoch; ranges are exact |
| Results of a round (`ftso-median.ts`, `FeedValueEncoder.ts`, `feed-ordering.ts`, `MerkleTree.ts`) | none | median, order of feeds, encoding of values, trees and proofs | ties, halves of weights, order of offers, any number of leaves | agreement with their definition; a majority decides; proofs for the results alone |
| Messages (`fsp-utils/*`) | none | encode, decode, verify | parts follow one another without a mark | read as written, or refused; verified by weight |
| `RewardEpoch` and its files (`reward-epoch-info.ts`, `reward-calculation-data.ts`) | immutable maps | made from events, made again from files | events paired by position; several addresses of a voter | both agree |
| Incremental calculation (`calculator.service.ts`, `libs/*-utils.ts`) | `IncrementalCalculationState`, files per round | main loop: data, random fixing, offers, claims, aggregation, next epoch | the end of the epoch is only learned late; claims are calculated before it is known | each round's claims rest on its final offer; totals match the offers |
| Batch calculation (`processOneRewardEpoch` and what it calls) | files per round | four stages, two of them in worker threads; single stages; ranges of epochs | kill and restart between any two files; workers | files agree; nothing is counted twice or left out; the epoch gets done |
| Data for rewarding (`DataManagerForRewarding.ts`, `IndexerClientForRewarding.ts`, `fdc-utils.ts`) | none | windows of signatures and finalizations, FDC data, fast update feeds, requests | windows overlap and are sought in one list; events missing; two relay contracts | every event counts for its round, in chain order |
| Offers, claims, shares, penalties (`reward-calculation/*`, `RewardClaim.ts`) | none | split, share out, merge, burn | remainders, caps, several kinds of offenders | no amount is lost or invented; who did right gets its due |
| Minimal conditions (`minimal-conditions/*`) | passes from epoch to epoch | conditions, passes, burning | rounding; passes worked out twice | conditions are met when they are earned; totals stay |

Interaction: controller → service → `DataManager` → `IndexerClient` → database;
`DataManager` and calculator → `RewardEpochManager` → `IndexerClient`; the
calculator extends `DataManager` and `IndexerClient` for rewarding and passes
results between its steps through files. All of it is one Node.js process per
program: code runs until the next `await`, and only there other requests run.
So every model cuts its handlers at awaits and nowhere else.

`PROJECT.json` lists all components with what is left out of each, and the
hazards, each at the line where it bites, with the properties that watch it.

## 2. Modules

| Module | Extends | Models |
|---|---|---|
| `CommitReveal` | - | abstract: what a provider promises its client |
| `DataProvider` | - | controller and service with cache, pending set, shutdown, restart |
| `SigningPolicies` | - | chain, indexer and clock as the reward epoch manager sees them, in voting rounds |
| `RewardEpochManager` | `SigningPolicies` | the three lookups, initialisation, duration ranges |
| `EpochSearch` | - | the binary search, one iteration per step |
| `SubmissionChain` | - | transactions, indexer and clock in seconds; range checks and query |
| `VotingRound` | `SubmissionChain` | `getDataForCalculations` and `calculateRandom` |
| `IncrementalRewards` | - | the incremental reward calculation of one epoch, its files, and what it sees of the chain |
| `RewardLedger` | - | abstract: claims are made once per round and published once, in full |
| `BatchRewards` | - | the batch calculation: stages, worker threads, files, kills, runs over ranges |
| `ShareOut` | - | the loops that divide an amount by weights, one iteration per step |
| `VoterSelection` | - | `RandomVoterSelector`, one draw per step |
| `Filtering` | - | `Array.prototype.filter`, in a form that can be proved about |
| `RewardClaims` | `Filtering` | claims: merge, burn |
| `Median` | - | feed values on the wire, weighted median and quartiles |
| `RewardShares` | `RewardClaims`, `Median` | an offer becomes claims: median, signing, finalization, penalties, fast updates, FDC |
| `RewardData` | `RewardShares` | windows, signatures, finalizations, FDC bit votes and offenders |
| `RewardRound` | `RewardData` | all claims of a round, while its transactions come in |
| `RewardOffers` | `RewardShares` | rewards of an epoch become offers of rounds |
| `FeedEvents` | `RewardData` | fast update feeds, requests and finalizations of a range of rounds |
| `MinimalConditions` | `RewardShares` | conditions, passes from epoch to epoch, burning |
| `FeedOrdering` | - | the canonical order of feeds |
| `RewardEpoch` | - | a voter's addresses and weights, from events and from files |
| `MerkleTree` | - | trees, proofs, verification |
| `Messages` | - | payloads, policies, signatures, relay messages; verification by weight |
| `Calculations` | `EpochSearch`, `ShareOut`, `VoterSelection`, `RewardRound` and those above | these calculations side by side, and the properties that relate them |
| `NumberFacts` | `FiniteSetsExt`, `Functions`, `TLAPS` | lemmas: the smallest and largest element of a set of numbers, sums, division |
| `RewardRoundFacts` | `RewardRound`, `RewardOffers`, `FeedOrdering`, `NumberFacts` | lemmas: lists and what they weigh, claims, shares, the claims of a round, the offers of an epoch, requests |
| `MC*` | the module | values of constants, inputs and symmetry for TLC |
| `*Proofs` | the module, `TLAPS` | proofs |

An operator with a comment `Mutant:` is a faulty variant of the definition
below it. No specification uses it: it is there to be put in the place of the
right one, to see that the property aimed at fails.

### DataProvider

`votingRoundData` and `age` are the LRU cache of `service.ts:60` (contents, and
how many keys were used later), `pendingReveals` and `shutdownInitiated` the
fields of the controller, `call` the requests in progress. `call[c].pc` names the
await: `epoch` (`getRewardEpochForVotingEpochId`), `feeds` (the value provider,
with its retries), `commit` and `reveal` (the return of the service's promise to
the controller). Actions: `Submit1`, `CommitFromCache`, `RequestFeeds`,
`FeedsArrive`, `CommitReply` are `submit1` cut at its awaits, `Submit1Fails` each
of its error paths, `Submit2` and `RevealReply` are `submit2`; `BeginShutdown` and
`Drained` are `beforeApplicationShutdown`; `Restart` loses the memory.

Data is abstracted to its random: `Bytes32.random()` does not repeat, so a draw is
a new number, and a commit is the random it hides. The client is external:
`submit1` for a round comes during it, `submit2` during the next. `ClientTimeouts`
lets it give up and ask again while the server still works, `TimelyClient`
makes it fetch a reveal before the round is over.

`CommitReveal` is the specification it implements: a commit may be replaced as
long as nothing was revealed, and a reveal shows the last commit. No refinement
mapping is needed beyond the names: `commit` and `reveal` are what the client saw.

### RewardEpochManager, SigningPolicies, EpochSearch

Time is in voting rounds. An epoch's policy goes on chain during the epoch before
(`NextPolicy`), may start late but not early, reaches the database later
(`IndexPolicy`), and history goes (`DropHistory`). `rewardEpochsCache` and
`startVotingRoundIds` are the fields of the class; epochs stand for their
objects. `AnswerPredicted`, `AnswerListed` and `AskIndexer` are the three ways
`getRewardEpochForVotingEpochId` goes, then `HistoryKnown`, `PoliciesArrive`,
`EventsArrive`, `Store` follow its awaits, first for the hinted epoch and then for
the one asked for. `range` holds the requests of `getRewardEpochDurationRange`.
An exception is `Finish`, which any request may take at any await.

`TimelyIndexer` (a policy is indexed before the first round it is for) is what
`IndexerClient.ts:131` asks for: "All these events should be available before the
first voting round of the rewardEpochId in order for the protocol data provider to
function properly." Without it the answer can be the epoch before, and no code could
do better.

`AnswerListed` takes the result of `findRewardEpochId` by its definition;
`EpochSearch` runs the loop and shows that it ends there. Its constant `Lists`
ranges over all ascending lists; `ListContiguous` shows that the manager only
searches such lists. The comment `RewardEpochManager.ts:282`, "invariant
startVotingRoundIds[low] >= votingRoundId", has its sign reversed: the loop keeps
`startVotingRoundIds[low] <= votingRoundId`, which is in the inductive invariant
of `CalculationsProofs`.

### VotingRound, SubmissionChain

Time is in seconds, blocks may share a timestamp. `txs` is the chain, and the
database a stretch of it: `dropped` submissions before it, `indexed` up to its end,
`first` and `top` the timestamps of its first and last block. One request runs
`checkCommits` → `queryCommits` → `checkReveals` → `queryReveals` → `answered`;
each step is the code between two awaits. Only the range checks of one
`ensureEventRange` are put together: it reads the lower bound and then the upper,
and as `top` only grows, reading both at the later moment allows the same
outcomes, with history that is dropped in between dropped right after instead
(which `KeepsHistory = FALSE` covers).

The filters are set expressions: `LastCommits`, `LastReveals`, `ValidReveals`,
`RevealOffenders`, `BenchingWindowRevealOffenders`; `DataForCalculations` is their
combination. The random is `Terms`, the function from counted voters to the
values added up: the sum modulo 2^256 is determined by it, and equal terms are what
agreement is about. A commit matches a reveal iff they carry the same value,
since the hash covers address and round.

What is left out: voting weights and feed order (carried along), and the await
on `getRewardEpochForVotingEpochId` inside (the subject of the other module; a
failure there is an error answer, after which the client asks anew). The local
clock is the chain's clock. `NOT_OK` sends the client back to the start. The
reward epoch does not change between a round and its benching window except for the
first one, whose start clips the window.

### IncrementalRewards

`runRewardCalculationIncremental` for one reward epoch, time in voting rounds. The
variables named like the fields of `IncrementalCalculationState` are these fields;
`data`, `fixed`, `offers`, `claims`, `aggregated`, `status` and `finalClaims` are the
files of the epoch's folder. `pc` names the place in the function:

| `pc` | Action | Code (`calculator.service.ts` unless named) |
|---|---|---|
| `off`, `failed`, `done` | `Begin` | 95-101, and the `while (true)` of `run`; a failed process is started again from outside |
| `init` | `Initialize` | 102-150: duration, folders, status, template offers, initial state |
| `data` | `CatchUpData` / `RoundData` | `incrementalBatchCatchup` / `calculationOfRewardCalculationDataForRange` |
| `fix` | `FixRandomNumbersAndOffers` | `claim-utils.ts:88-117` |
| `claims` | `CalculateClaims`, `ReportRewards` | `claim-utils.ts:22-152`, 153-173 / 196-212 |
| `loop` | `EnterRound`, `ExtendRewardEpochDuration`, `LeaveLoop` | 175-178 |
| `find` | `TryFindNextRewardEpoch` | `calculator-utils.ts:45-106`, 214-216 |
| `cleanup` | `Cleanup` | `incremental-calculation-utils.ts:49-68`, 219 |
| `finish` | `WriteFinalClaims` | 220-224 |

The catch-up and the loop do the same things to the state, so they share actions;
`catchingUp` tells where `ReportRewards` goes on. Worker threads of the catch-up
write to different rounds and nothing reads before all are done, so they are one
step.

An offer is abstracted to two facts: the end of the epoch its share was calculated
with, and whether it is still for all feeds or for the one a round's random
selects. Claims are what the offer was when they were calculated, an aggregate the
sequence of what was added up. Two rounds select different feeds: equal
ones would only allow more, since the lookup of the selected feed in `fixOffers...`
could succeed where the model throws. Fast updates and FDC are switched off
in this mode by the code (`claim-utils.ts:144-145`).

The environment: blocks are indexed in order, so data of rounds that include
blocks of the next epoch come with that epoch's policy and start event
(`DataReady`); the policy may come long before or as late as that.

The exceptions end the process, as in the code, and are named by `failure`:
no offer for the selected feed, no aggregate to report, a missing policy, ends that do
not agree, no aggregate at the end.

### BatchRewards, RewardLedger

`processOneRewardEpoch` keeps nothing in memory that outlives a stage, so the state
is the epoch's `file`s, the place `pc` of the process, its loop counter `at`, and the
batch each worker thread has (`job`). A file holds what tells its contents apart: the
data, offers and claims of a round hold the round whose random number they rest on
(`Unfixed` for none: the offer is burnt), an aggregate the sequence it adds up.

| Stage | `pc` | Actions | Code |
|---|---|---|---|
| data | `data`, `pending`, `progress` | `Destroy`, `SetPending`, `SetInProgress` | `reward-data-calculation.ts`, `storage.ts`, `reward-calculation-status.ts` |
| | `working`, `temp` | `Take`, `WriteData` (workers), `DataDone`, `TempDone` | `incremental-calculation-utils.ts:71-140`, `calculation-data-worker.ts` |
| | `fix`, `appearances` | `Fix`, `DestroyTemp` | `random-number-fixing-utils.ts` |
| offers | `offers` | `WriteOffers` | `offer-utils.ts` |
| claims | `claims`, `claiming` | `BeginClaims`, `Take`, `WriteClaims`, `ClaimsDone` | `reward-claims-calculation.ts`, `claim-only-calculation-worker.ts` |
| aggregate | `aggregate`, `final`, `distribute` | `WriteAggregate`, `SetDone`, `WriteFinal`, `WriteDistribution` | `reward-calculation.ts:560-618`, `calculator.service.ts:280-300` |

`Run` is an operator who starts any of the stages, `RunRange` the command over a range of
epochs, which skips those that are `DONE`; `Kill` ends the process between any two writes.
Errors of the database are retried for ever inside `WriteData` (`retry.ts`); every other
error is `Throw`. `RewardLedger` is what the files implement: `claimed` is `file.claims`,
`published` is `file.final`.

Two assumptions about the operator are in the guards: after a data stage that was not
completed, the data stage is chosen again (`unfinished`), and all runs use the same
options. Without the first, a process killed while it fixed random numbers and started
again with the later stages burns the offers of the rest of the rounds without a word;
without the second, existing aggregates are kept when claims were made again with other
options. A write is whole or not there: a file torn by a kill is left out.

### Calculations: one round's rewards

All of the following is deterministic code on data that is there. `Calculations` puts
it side by side: loops with a state run as machines, and functions are evaluated on every
`input` that `MCCalculations` enumerates, by its `subject`. A behaviour is one of them, the
others rest. Its properties compare a calculation with what it is to compute or relate two
that have to agree.

* `RewardRound` is `partialRewardClaimsForVotingRound` on a growing chain. `Send` puts one
  of the `scenario`'s transactions on chain, `RoundTick` moves the clock; the claims are a
  function (`RoundClaims`) of the chain so far, evaluated after every transaction. So a
  property can ask what a transaction changes. The relay contract, external, lets one
  finalization of a round succeed.
* `RewardData` extracts what counts: `WindowOf` and `WindowsInRange` the two ways the windows
  of rounds are found, `ExtractSignatures`, `ExtractFinalizations`, the consensus bit vote,
  who covered it and who offended. `RewardShares` makes claims of the parts of an offer
  (`MedianClaims`, `SigningClaims`, `FinalizationClaims`, penalties, `FastUpdateClaims`,
  `FdcSigningClaims`); `RewardClaims` merges them (`Merge`, `MergeWithBurn`).
* `ShareOut` is the loop they all contain, step by step and with its own proofs;
  `SharesAgree` ties the operator `Shares` of `RewardShares` to it.
* `RewardOffers`: `GranulatedOffers` makes the offers at once, `OfferTemplates` and `FixOffers`
  make them first and fix them later, `FastUpdateOffers` and `FdcOffers` the others.
* `FeedEvents`: the loop of `getFastUpdateFeedsEvents` that fills slots of rounds
  (`TakeFeedEvent`, `SkipFeedEvent`, ...), and the joining of two relay contracts' transactions.
* `MinimalConditions`: the four conditions, `NextEpoch` as the step from one epoch's passes to
  the next, `BurnIneligible`.
* `Median`, `FeedOrdering`, `VoterSelection`, `RewardEpoch`, `MerkleTree`, `Messages`: see the
  comments at their head. Values, weights and amounts are small integers (the code has
  BigInt, so nothing overflows); BIPS and PPM are parts of 10; hashes are free terms (no two
  data have the same), a draw from the hash chain is any number; a message is a sequence with
  one place per field.

## 3. Runs

| Run | Question | States | Bounds |
|---|---|---|---|
| `dataprovider` | `OpenCommitsCached`, `RepeatedCommitUnchanged`, and does `DataProvider` implement `CommitReveal`? | 3.4 M | 1 address, 2 requests, cache of 4, 5 rounds, 6 draws, 1 restart |
| `dataprovider_overlap` | `OwnRandoms` with a client that times out, so that requests of one key overlap | 947 k | 2 addresses, 2 requests, cache of 1, 2 rounds, 3 draws, 1 restart |
| `dataprovider_shutdown` | `AnsweredRoundsTracked`; does shutdown end? | 178 k | 2 addresses, 2 requests, 2 rounds, 3 draws, 1 restart |
| `dataprovider_timeouts` | does a reveal open the commit when the client times out? **No** | - | 1 address, 1 round |
| `rewardepoch` | `TypeOK`, `ListContiguous`, `RightEpoch`, `RangesRight` | 419 k | 2 requests or 1 for a range, 4 epochs of 1 round, late when their policy is |
| `votinground` | `TypeOK`, `ResultFinal`, `CommitsFinal`, `EventuallyAnswered` | 880 k | 1 voter, 1 value and junk, rounds of 2 s, deadline 1 s, window 1, 2 transactions, 2 rounds asked |
| `votinground_random` | `SecureRandom` | 2.1 M | 2 voters, 2 values and junk, rounds of 1 s, window 1, 3 transactions |
| `votinground_history` | is a result final when history is dropped during a request? **No** | - | as `votinground` |
| `incremental` | `StateConsistent`, `AggregatesFresh`, `ClaimsForSelectedFeed`, `FinalClaimsShareOffers`, `CalculationEnds`, `PunctualEpochCompletes` | 539 k | epoch of 3 rounds, up to 2 late, search of 2 rounds, extension by 1, 9 rounds, 2 starts, all sets of secure randoms |
| `incremental_reinitialized` | are offers made anew when the next epoch is found? **No** | - | as `incremental` |
| `batch` | `ClaimsOfRightRandom`, `FilesConsistent`, `UndisturbedRunComplete`, `EpochDone`; does it implement `RewardLedger`? | 343 k | epoch of 3 rounds, 2 of the next, batches of 2, 2 workers, 2 kills, 2 runs of chosen stages and any number over ranges, all sets of secure randoms |
| `calculations` | the 14 properties below | 85 k | see below |

Some properties of the runs are conjunctions of named ones about one thing at stake:

| Property | Parts |
|---|---|
| `OwnRandoms` (`DataProvider`) | `TypeOK`; `RandomsApart`: a random drawn for a round and address is never known for another, in the cache, in a request, in a commit or in a reveal |
| `StateConsistent` (`IncrementalRewards`) | `TypeOK`, `EndsAgree`, `NoRoundsLeftOver` |
| `FilesConsistent` (`BatchRewards`) | `TypeOK`, `AggregatesAreSums`, `DistributionComplete` |
| `UndisturbedRunComplete` (`BatchRewards`) | `NoKillNoGap`, `FullRunNeverThrows` |
| `SharedFairly` (`ShareOut`) | `AllSharedOut`: everything is given; `NobodyShort`: no voter, and no set of the first ones, is off its part by more than rounding |
| `ByWeight` (`VoterSelection`) | `SelectionReachesThreshold`, `SelectionProportional` |
| `OffersConserved` | `EpochOffersComplete`, `FixingCommutes`, `SideOffersComplete`, `ConfirmedOnce` |
| `ClaimsConserved` | `PenaltiesBurnt`, `ClaimsMerged`, `IneligibleBurnt` |
| `SignersGetTheirDue` | `SharesAgree`, `GraceSignersPaid`, `DoubleSignersLose`, `HonestNeverPenalised` |
| `LaterIsHarmless` | `LateTransactionsIgnored`, `FinalizersKeepShare` (both about steps) |
| `EventsOfTheirRounds` | `WindowsAgree`, `FeedsOfTheirRounds`, `RequestsOfTheirRounds`, `FirstFinalizationFirst` |
| `ConditionsJust` | `PassesEarned`, `PassFilesAgree`, `ShareMeetsCondition`, `FullPartPays` |
| `ResultRight` | `FeedOrderMonotone`, `MedianRight`, `MajorityHoldsMedian`, `ResultsProven`, `MajorityVerifies` |
| `ReadAsWritten` | `AddressesAgree`, `FilesKeepVoters`, `FeedValuesSurvive`, `MessagesReadBack` |
| `LoopsEnd` | `SearchEnds`, and the loop of `getFastUpdateFeedsEvents` ends |

With these, `calculations` checks `FindsEpoch` (a search ends at the right epoch),
`OffersPaidOut` (the claims of a round add up to its offers, penalties apart), and
`RoundCalculable` (the calculation of a round throws only when the FTSO was finalized and no right
signature was deposited in the window, or when voters signed the FDC's result with certain
messages: "Of the rewards of a round" below names them).

Why the bounds are enough:

* Eviction needs more keys than the cache holds. One address over five rounds and
  a cache of `3 * addresses + requests - 1 = 4` entries does that, with entries
  of slow requests for past rounds; one entry less and `OpenCommitsCached` fails. That
  many are enough for every number of addresses and requests (`OpenCommitsStayCached`);
  the default of the code is far above. Six draws are one more than the rounds, so a
  delayed request can draw again for a round whose data was evicted.
* Two requests are the least that interleave. The invariants are about pairs of
  requests and pairs of keys; the proofs cover any number.
* Two epochs next to each other and one beyond show a wrong neighbour; the list
  must be extended at both ends, which takes three epochs after the first.
  The constraint `RangeAlone` keeps requests for ranges from overlapping those for
  rounds: they share nothing but the indexer, which answers each alone, and the
  proofs do without it.
* A round of two seconds with a deadline of one has a second before, at and after
  each boundary. Two transactions are the least with an order; three, from two
  voters, are the least for a commit of each and a reveal of one. `MinRevealers`
  is 1 instead of 2 so that a random is secure within these bounds.
* An epoch two rounds late, with a search of two, is late enough to be extended
  (`votingRoundId = finalProcessedVotingRoundId` with the policy unknown), one round
  late is not; the clock leaves room for the extension and the search after it. A
  second start finds the folder of the first, and possibly another end of the
  epoch. In the code the numbers are 3360 rounds, 30 and 10.
* Three rounds and batches of two make a full and a cut batch, so two workers are at
  work at once in both pools; a round's random can be made in the next round, later, in
  the next epoch or nowhere. Two kills hit a run and the run that repairs it; two runs of
  chosen stages before or after come in every order of stages that matters.
* A round has up to three transactions of seven kinds over the seconds of its window:
  before and after the grace period of signatures, of finalizations, and the window. Three
  are the least for a double signer and a finalization in every order, or two
  finalizations and a signature. Four scenarios: the FTSO alone, the FDC alone, all
  offers at once with burnt ones, reveal offenders and finalizations that do not verify
  or are of another reward epoch, and the FDC with messages that are no bit votes or one for
  more than the two requests of the round.
* Weights 0 to 3 of up to three voters and amounts up to 7 leave every rest; four
  values, empty and negative among them, tie in every way. Lists to search have up to four
  epochs, trees up to seven leaves (a full tree, one more and one less), epochs up
  to three voters with their events in every order.
* Four epochs of passes are one more than the most passes a provider can hold.

Deadlock: the data provider and reward epoch runs say `CHECK_DEADLOCK FALSE`,
because clock, draws and requests are bounded and the run ends where they do;
`calculations` ends when the calculation does, `batch` when the epoch is done and the runs
are used up, and the incremental runs when the process turns to the next epoch. In
`VotingRound` a client can always ask again, so deadlock is checked.

### What the violations show

* `dataprovider_timeouts`: `calculateOrGetRoundData` looks the cache up, awaits feed
  values, and writes the cache whatever is in it by then (`service.ts:91-106`). Two
  overlapping `submit1` for one key draw two randoms; the commit of the first is
  sent, the data of the second is cached and revealed.
* `votinground_history`: range check and query are two database calls without a
  transaction, so history can be dropped in between and the answer is still OK.
* `incremental_reinitialized`: `tryFindNextRewardEpoch` sets `state.endVotingRoundId`
  (`calculator-utils.ts:68`) and compares it afterwards (line 70), so the branch that
  makes the offers anew is dead. The process goes on with shares for the expected end;
  when it fixes a round that has no offer it throws. A process started again before
  the next epoch begins calculates everything with the end known by then; one started later
  turns to the next epoch, and this one stays unfinished. Either way no final claims
  come of the wrong shares: that is `FinalClaimsShareOffers`. To move the comparison
  before the assignment is not enough: the branch resets the claims but not the
  aggregates, which are kept where they exist (`reward-calculation.ts:604`), so the final
  claims would still be made of the old shares. The mutant
  `TryFindNextRewardEpochComparing` is this repair, and `AggregatesFresh` fails with it.

Seen while modelling, without a run of their own:

* A `submit1` that is delayed until the data of its round was evicted draws a new random and
  answers with another commit than before. No reveal can be of use by then, so
  `RepeatedCommitUnchanged` speaks of commits that can still be revealed.
* `FinalClaimsShareOffers` has a premise. An epoch that is late by
  `FUTURE_VOTING_ROUNDS` (30 rounds) or more is extended: offers are made anew for another
  number of rounds, claims that were calculated are kept
  (`incremental-calculation-utils.ts:33`), and the final claims can mix shares. Without the
  premise TLC finds this.
* The status `DONE` is written before the final claims (`calculator.service.ts:219`). A
  process killed in between, or one whose epoch has no aggregate at its end, leaves
  an epoch that is done and has no claims.
* A process that is killed, or throws, after the next epoch began is started for
  the next epoch; the old one is left as it is (`TurnToNextEpoch`).
* A process started in the first rounds of an epoch throws until a round of the
  catch-up has a secure random after it (`calculator.service.ts:168`).
* Randoms are searched up to 30 rounds after the epoch, but offers exist up to its end.
  Fixing a round beyond the end throws, which happens whenever the first round after an
  epoch that was not extended has no secure random; the next start turns to the next epoch.
  `PunctualEpochCompletes` therefore asks for a secure random in that round.
* The incremental calculation never burns: rounds without a random are
  not claimed, and without an aggregate at the end it throws, where the batch
  calculation burns their offers (`random-number-fixing-utils.ts:151`).
* All rounds that wait for the same random get the same number and reward the same
  feed: line 75 of `random-number-fixing-utils.ts` hashes the round the random
  comes from, its doc (line 31) says the round it is for.
* The shutdown of the data provider logs "No more pending reveals, safe to
  terminate." (`controller.ts:195`) as soon as `pendingReveals` is empty. A `submit1` that
  passed the check before (`controller.ts:53`) can still be answered later, and a reveal of one
  submit address removes the round for all (`controller.ts:82`), so a commit can be open then.
* `getRewardEpochDurationRange` returns undefined when the epoch is not among the
  events (action `RangeUndefined`), where its doc (`RewardEpochManager.ts:217`) promises an error.

Of the batch calculation:

* As in the incremental one, `DONE` is written before the final claims
  (`calculator.service.ts:291`). Killed in between, the epoch is skipped by runs over ranges, and
  a run of the aggregation alone throws because the status is not `IN_PROGRESS`. Only the
  whole calculation helps. `NoKillNoGap` has the premise.
* `progress.ts` puts the prefix of temporary folders twice before a name and sorts rounds as
  strings; it only reports.

Of the rewards of a round:

* Only the first finalization of a sender counts (`DataManagerForRewarding.ts:675`). When it
  did not succeed and a later one did, the round has no finalization and its signers get
  nothing; the comment at line 671 speaks of the first successful one. Similarly the doc at
  line 225 says "last signed message" where the first is kept.
* Voters can stop the calculation of a round, and `RoundCalculable` says with what. A round of the
  FTSO can be finalized with signatures nobody deposited in the window (`reward-signing.ts:92`). A
  right signature for the FDC can come with a message of nothing but the two bytes of length: what
  is left for the bits is `"0x"`, which `BigInt` refuses (`fdc-utils.ts:129`), whatever the voter
  weighs. And if the bit vote with the most weight behind it is for more requests than the round
  has, `bitVoteIndicesNum` throws (`fdc-utils.ts:56`, from `DataManagerForRewarding.ts:522`). The last two
  happen while the data of a whole range of rounds is read with `useFDCData`, so they stop all
  of the range. Left out are the errors for data that contradicts itself, a Merkle tree that does
  not give the finalized root for one: here data is what the contracts emit.
* Without a finalization the whole signing offer goes back: the
  payment by weight that the doc of `calculateSigningRewards` (`reward-signing.ts:31`) describes
  is commented out.
* The doc at `fdc-utils.ts:97` says "the function returns undefined" when nobody signed the
  hash; it returns empty data. `relativeTimestamp >= 90` can never hold there, and a voter's bit
  vote is the first FDC message of its submission.
* A voter of zero weight as the last signer makes the FDC's loop divide by zero
  (`reward-fdc-signing.ts:119`); the selector and the median, too, assume that not all weights are
  zero. `RoundCalculable` therefore speaks of positive weights. A voter whose fee is zero never
  counts as rewarded by the FDC.
* When the votes between the quartiles have no weight and those in the percentage band do, all
  normalized weights are zero and the whole median offer goes back.
* A feed's value doubles with each community offer before the offer is added
  (`feed-ordering.ts:51`), so the order of the offers decides about the order of the feeds.
* A negative median turns the bands of fast updates and of the minimal conditions inside out; an
  empty value counts as 0, and so as a hit when the median is 0.
* A round without fast updates data is skipped for all conditions that are counted by rounds,
  medians and FDC included (`minimal-conditions.ts:242`). The provider's share of the FDC's rounds is
  counted over those left, so a fee in that share of all rounds is not enough: `ShareMeetsCondition`
  asks for one in every round in which anybody has a fee. The comment at line 64 says that a missing
  file of passes gives undefined; reading it throws. What a provider gets for finalizing after the
  grace period goes to the sender's address and is not burnt with the rest when it is ineligible, unless it sent
  from its own identity or delegation address.
* The sanity check for two claims of one beneficiary (`minimal-conditions.ts:517`) does not ask for
  their type, but claims are merged by beneficiary and type. A voter that finalizes late from its
  identity or delegation address gets a `DIRECT` claim (`reward-finalization.ts:55`) besides its `FEE` or
  `WNAT`, and so does one whose two addresses are one: if it meets the conditions, the check throws and the
  claims of the epoch cannot be updated. `IneligibleBurnt` says that it throws in these cases and in no other.
* A repeated `FastUpdateFeeds` event shifts the data of later rounds, or the loop that fills
  the range never ends (`IndexerClientForRewarding.ts:262`, `:271`). The contract emits one a round.

Of messages:

* `PayloadMessage.encode` does not check that the length of a payload fits its two bytes;
  `PayloadsReadBack` speaks of payloads that fit.
* `RelayMessage.encode` does not check that a new policy is of the next epoch, as its doc says;
  and a protocol message of protocol 0 would be read as a policy.
* `SignaturePayload.encode` writes a message also for type `0x01`, which `decode` reads without one.

### Fairness

`DataProvider!FairSpec`: promises resolve or fail (weak fairness per request),
the shutdown loop polls once a second, the clock runs, and the client asks for the
reveal of a commit it received (strong fairness, since it can only do so within the
next round). The client's part is an assumption about the Flare Systems Client and
is named `TimelyClient`. `VotingRound!FairSpec`: the database answers, the client
keeps asking, and the clock goes on. There is **no** fairness on the indexer: that
it may stop is the point of the timeout. `Calculations!CalcSpec`: the two loops whose end is
checked run, as a loop without an await does.
`IncrementalRewards!FairSpec`: the process runs while it is not killed, the clock goes
on, and the indexer catches up: `calculationOfRewardCalculationDataForRange` retries for
ever, so without the indexer nothing could be claimed. Nobody is assumed to start
the process again. `BatchRewards!BatchSpec`: the process and each worker thread go on while
they are not killed (queries are retried for ever), and an epoch that is not done is
in the range of a later run: `EpochDone` is about what a run finds, not about whether
somebody starts one.

## 4. Proofs

All proofs are for arbitrary constants that satisfy the named assumptions of the
modules.

* `DataProviderProofs`. `RandomsStayApart`: `RInv` adds to `RandomsApart` that what is known of any key was drawn before
  (`KnownDrawn`), so a new draw is known for no other; it needs no assumption about the client.
  `RevealOpens` and `ProviderImplementsScheme` assume `~ClientTimeouts`. `RevealOpensCommit` is not inductive: it says nothing of
  requests in progress. `IInv` adds that the client waits for every request
  (`AllHeard`), hence has at most one per key (`OneCallPerKey`), that a `submit1` about
  to be answered holds what the cache has for its key, unless that was evicted
  (`CommitCallMatches`), that a reveal request carries the commit
  (`RevealCallMatches`), that cached data was received or is about to be
  (`CacheMatches`), and that a revealed key is no longer being committed
  (`RevealedSettled`). Refinement follows step by step from the same invariant.
  `RoundsTracked` needs it too.
  `OpenCommitsStayCached` and `RepeatedCommitsEqual` assume `RoomForOpenRounds` besides:
  finitely many addresses and requests, and `CacheSize >= 3 * |Addresses| + |Calls| - 1`. An
  entry is evicted when `CacheSize` other keys were used after it. `CacheInv` adds to `IInv`
  that the ages of entries differ and none is older than there are younger keys (`AgesRight`),
  that no cached key is of a future round (`NotAhead`), and that the keys of earlier rounds
  that are younger than an open commit's, or may become so, are fewer than the requests
  (`FewLate`): each belongs to another slot than the one that made the commit. With the
  `3 * |Addresses|` keys of the round itself and the rounds next to it, this leaves room for the
  data of a commit as long as its reveal can be asked for (`OpenKept`). The bound is
  the least: the run fails with one entry less.
* `RewardEpochManagerProofs`. `SafeInv` (schedule, what is cached is on chain, list
  contiguous, ranges) carries `ListStaysContiguous` and `RangesCorrect` without any
  assumption on the indexer; `TimelyInv` adds that every policy that matters now is
  indexed, and yields `RightEpochAnswered` from `TimelyIndexer`.
* `CalculationsProofs`, for `EpochSearch`. `SearchFinds`: the loop keeps the round between
  `startVotingRoundIds[low]` and `[high]`, with the end of the list as `high` at
  the start.
* `VotingRoundProofs`. `IInv`: timestamps never decrease (`Chronological`); the
  database is a stretch of the chain (`Stretch`); after a range check that said OK
  nothing of that range is outside the database now or later (`Covered`); and what
  was read is everything of the range (`ReadAll`). `ResultIsFinal` and
  `CommitsAreFinal` follow since nothing else is consulted; `SecureRandomFixed`
  adds that a counted voter who is no offender has revealed what was committed.
  The three assume `KeepsHistory`; `votinground_history` shows why.
* `CalculationsProofs`, for `ShareOut`. `SharesFair`: for all lists of weights and all amounts, the loops give
  everything away and nobody is short by more than rounding. `ShareInv` carries the sums: what was
  given and what is left make the amount, the weight that is left is the sum of the
  weights to come, and what was given to the first voters is their part but for less than one.
* `CalculationsProofs`, for `VoterSelection`. `SelectionByWeight`: for all lists of weights, every threshold
  the constructor accepts and all random numbers, the selection ends with the threshold's weight and
  with a voter that was still needed, and a voter is drawn by as many of the numbers below the total
  weight as it has weight. `SelectionInv` says that every voter counts once. What a draw leads to
  needs `binarySearch` to end at the right threshold (`SearchFinds`): its loop keeps the value between
  the ends of the range (`Around`), ranges get shorter (`StepLooksInside`), and the three ways out give the
  same voter when no weight is zero (`VoterFound`). That the loop ends is part of it
  (`SearchDefined`). With voters of no weight the number at the edge may lead to one of them; it
  counts nothing and the selection goes on.

* `BatchRewardsProofs`. The invariant `BatchInv` is about the stages of a run and what each
  finds when it begins, however the runs before ended: a data stage that is not completed leaves
  nothing of earlier runs (`DataStage`), the data of rounds have the random numbers the stage
  has come to (`RandomsFixed`), every round given to the workers is done or in a batch
  (`PoolProgress`, `JobsOfPool`), the offers and claims of all rounds are there when the
  next stage of a whole run relies on them (`LoopProgress`, `FullRun`), and final claims are
  the claims (`Published`). `ClaimsRestOnLaterRandom`, `FilesStayConsistent` and
  `UndisturbedRunsComplete` follow from it. None of the three is inductive alone: that a
  whole run never throws, for one, needs that its batches left no round out. `BatchKeepsLedger` is
  the refinement of `RewardLedger`, one step of the ledger or none for every step. They hold for
  every length of the epoch, batches of every size, any workers and any number of kills and runs,
  from `BatchAssumption` and from `NoneAssumption`, that `None` is no value of a file.
* `IncrementalRewardsProofs`. `IncInv` says where the two loops are (`Position`), what is known of
  the end of the epoch there (`EndKnown`), that the highest folder counts all files (`Folders`:
  why `Cleanup` leaves no round over), that rounds before `nextVotingRoundIdWithNoSecureRandom`
  have their random and its feed (`Fixing`), that exactly those before
  `nextVotingRoundForClaimCalculation` have claims and aggregates (`ClaimsSoFar`), that an
  aggregate adds up claims that are on file (`AggregatesSound`), and that all shares are for one
  length of the epoch unless it was extended (`SharesOfOneLength`). `StaysConsistent`,
  `AggregatesStayFresh`, `ClaimsAreForSelectedFeed` and `FinalClaimsAreShares` follow; from
  `IncrementalRewardsAssumption`, for every length and end of the epoch, all sets of secure randoms
  and any number of starts. `AggregatesFresh` rests on the order of the writes: claims change
  only where no aggregate includes them, which is what the repair of the dead branch breaks.
* `CalculationsProofs`, for the rewards of a round, with lemmas in `RewardRoundFacts`. `RoundInv`: the
  scenario is `WellFormed` (policies are lists of voters with weights, shares are parts of a whole, finalizers
  and senders of fast updates are voters, no claim that is burnt or goes back is to a voter), and what
  was sent is a list whose bit votes have an order (`CandidatesCount`). `SharesAssumption` and `ClockAssumption` are about the constants: shares of an offer
  are not more than all of it, and the grace period ends within the voting epoch.
  - `OffersArePaid`: each way to divide an offer `Pays` it, whoever did not vote, sign or finalize; what pays the
    offers one by one pays their list (`PartsAddUp`); merging keeps what is claimed under every key.
  - `RoundsCalculable` goes through the throws. While the data is read (`FdcDataStops`): the candidate that
    won outweighs the others (`ConsensusWeighs`), so one that is too long was behind as much weight as those
    who signed with any other only. While offers are shared out: where somebody signed rightly the weights
    are not all zero (`SignersWeigh`), which leaves a finalized round of the FTSO with no right
    signature. It assumes that all voters of all scenarios sign with some weight.
  - `LaterDoesNoHarm` compares the claims before and after a transaction: claims only read
    the window, and a finalizer that earned its share goes on earning it. It
    assumes `RewardedWindows = 0`, as it is for all networks (`constants.ts:54-71`).
  - `SignersAreGivenTheirDue` needs that transactions are in the order of the clock (`SentInOrder`), so that
    the first signature of a sender is its earliest (`WellExtracted`). Then who signed in the grace period is
    rewarded (`GraceRewarded`), the division is fair to it and its nodes (`SharesAreFair`, `SigningGives`), no other claim takes
    from it (`SigningSpares`, `TheseSpare`), and a penalty is the claim of a voter with two signatures.
    `LoopsDivideAlike`: the operator `Shares` of the claims and the loops of `ShareOut` do the same, step by step.
* `CalculationsProofs`, for claims. `ClaimsAreConserved`: a merge keeps the sum for every beneficiary, type
  and sign, and leaves one claim of each, hence merging in parts is merging at once; burning moves
  amounts and makes none, whatever the sizes of penalties. That two equal claims never come out, and two of a
  beneficiary exactly when it keeps claims of two types, follows from the merging: a type has one claim of
  each sign, and `mergeWithBurnClaims` sets rewards off against penalties. `ClaimsAssumption` (`MadeClaims`): claims
  are of whole amounts and of one of the four types, and those of a provider are to its addresses or nodes.
* `CalculationsProofs`, for minimal conditions. `ConditionsAreJust`: passes held are those earned less those
  forgiven (`PassesInv`), and who takes full part, or just its share, meets the conditions, whatever rounds are left out: sums by
  weights, however they are rounded, are compared with sums by numbers. `ConditionsAssumption` and
  `EpochsAssumption` (`IsEpoch`): shares are parts of a whole, updates are those of voters, every round has all feeds.
* `CalculationsProofs`, for offers. `OffersAreConserved`: equal parts with the rest given to the first add up to the
  amount (`TotalOfParts`), whatever the feeds; fixing a template later marks the offer that would have
  been made (`FixedAre`); the burnt share of the FDC's inflation is a part of it (`BurntIsPart`), and every
  fee is one of a confirmed request or of another (`FeesAddUp`, `FdcTotal`). Same requests make one group, in the
  order of their first (`GroupsAre`), and of each group that a bit confirms one request counts (`CountedAre`); the sum of
  the appearances by types is exchanged with the one by rounds (`AppearancesAre`). `OffersAssumption`: some feed
  is offered (`MadeOffers`), some attestation type has a share of the inflation, and bit votes are of requests of the
  round (`MadeSides`): for others the code throws before it makes an offer.
* `NumberFacts`. `Min`, `Max` and `SumFunctionOnSet` of the community modules are CHOOSE expressions.
  That they are what their names say needs a least element of every set of natural numbers
  (`LeastNatural`), which the library's theorem gives that finite sets are well-founded by
  inclusion. `LeastNatural` then stands in for induction, one least counterexample at a time:
  `SumAnyFirst` is that a sum does not depend on the order, and `StepByStep` that a set of numbers with 0
  and every successor has all: the form in which folds over lists are proved;
  `ElementByElement` is the same for finite sets, from one element to the next. There are the facts of
  division the shares need, too, and of opposites, for amounts that are burnt or taken as a penalty.

Only model-checked:

* all liveness properties, which rest on fairness and ENABLED and are out of TLAPS's reach
  (`ShutdownCompletes`, `EventuallyAnswered`, `CalculationEnds`, `PunctualEpochCompletes`,
  `EpochDone`, `LoopsEnd`);
* three properties of `Calculations`: `EventsOfTheirRounds` (two indices that slide along a fold, and
  searches of the indexer client), `ResultRight` (median and Merkle tree: sorted lists and recursion over
  pairs of hashes), and `ReadAsWritten` (encodings, folded byte by byte).

## 5. Plan

1. `DataProvider` with `CommitReveal` - done, proved.
2. `SigningPolicies`, `RewardEpochManager`, `EpochSearch` - done, proved.
3. `SubmissionChain`, `VotingRound` - done, proved.
4. `IncrementalRewards` - done, proved.
5. `BatchRewards` with `RewardLedger` - done, proved.
6. Rewards of a round and of an epoch, results, messages (`Calculations`) - done, checked; eleven of
   its fourteen properties proved.
7. The cache of `DataProvider` - proved.
8. `VoterSelection`, `RewardRound`, `RewardClaims`, `MinimalConditions`, `RewardOffers` - proved. Left: the three
   properties of `Calculations` named above.

## 6. Not modelled

* `libs/contracts`: addresses, ABIs and names of events; there is nothing to check
  without the contracts.
* `src/scripts`: command line tools that print statistics or send one finalization.
* The JSON of the calculation files, the progress list and the statistics; what files
  exist, when, and what decides their content is in `IncrementalRewards` and `BatchRewards`.
* HTTP, DTOs and configuration of both programs; the code of the value provider, the client, the
  database and the contracts, which the models take as their environment.
* The waits of `retry.ts` (how long; that it repeats, and when it gives up, is in the
  models), `retryWithTimeout`, which nothing uses, and logging.
* Recovery of a signer from a signature, and hex formats: a signature is who signed what.
