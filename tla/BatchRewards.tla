---------------------------- MODULE BatchRewards ----------------------------
(***************************************************************************)
(* The batch calculation of a reward epoch                                 *)
(* (calculator.service.ts, processOneRewardEpoch): four stages an operator *)
(* starts together or one by one, whose only memory are files, with two    *)
(* stages in worker threads, while the process may be killed at any time.  *)
(*                                                                         *)
(*   data        everything of the epoch is destroyed; workers write the   *)
(*               data of the rounds, then those of the first rounds of the *)
(*               next epoch to a temporary folder; the random number of    *)
(*               every round is fixed from the first later secure one      *)
(*   offers      offers for the feeds the random numbers select            *)
(*   claims      workers write the claims of the rounds                    *)
(*   aggregate   the claims are added up from round to round, the status   *)
(*               is set to DONE, final claims and distribution are written *)
(*                                                                         *)
(* A file holds what tells its content apart: data, offers and claims of a *)
(* round the round whose random number they rest on.  The files are whole  *)
(* or missing, a kill within one write is left out.  The info file is left *)
(* out: what needs it needs data as well, written later.                   *)
(***************************************************************************)
EXTENDS Integers, Sequences, FiniteSets, FiniteSetsExt

CONSTANTS
    LastRound,      \* the epoch's rounds are 1..LastRound
    FutureRounds,   \* FUTURE_VOTING_ROUNDS: rounds of the next epoch looked at
    BatchSize,
    Workers,        \* the threads of the pool
    None,           \* no file
    Unfixed,        \* no random number: the offers of the round are burnt
    MaxKills, MaxRuns   \* bounds on kills and on runs of single stages

ASSUME BatchAssumption ==
    /\ LastRound \in Nat \ {0} /\ FutureRounds \in Nat /\ BatchSize \in Nat \ {0}
    /\ MaxKills \in Nat /\ MaxRuns \in Nat
    /\ Unfixed \notin 0..(LastRound + FutureRounds)

VARIABLES
    secure,         \* the rounds with a secure random number, on chain
    file,           \* the files of the epoch
    pc, stages,     \* the running process and the stages it was started for
    at,             \* the round its loop is at
    job,            \* of each worker: the rest of its batch
    unfinished,     \* a data stage was started and not completed since
    threw, kills, runs   \* history: a run of all stages threw; kills; runs of stages

history == <<threw, kills, runs>>
batchVars == <<secure, file, pc, stages, at, job, unfinished, history>>

Rounds == 1..LastRound
Future == (LastRound + 1)..(LastRound + FutureRounds)
Stages == <<"data", "offers", "claims", "aggregate">>
AllStages == {"data", "offers", "claims", "aggregate"}
Nothing == [r \in Rounds |-> None]
Idle == [w \in Workers |-> None]
Sources == Rounds \cup Future \cup {Unfixed}
Jobs == {j \in [next : Rounds \cup Future, end : Rounds \cup Future] : j.next <= j.end}

\* None is nothing a file can hold and no batch.
ASSUME NoneAssumption ==
    /\ None \notin Sources /\ None \notin Seq(Sources)
    /\ None \notin {"PENDING", "IN_PROGRESS", "DONE"} /\ None \notin Jobs

\* status   the epoch's status file
\* data, offers, claims   of the rounds
\* temp     the rounds of the temporary folder that have data
\* aggregates   of each round, the claims it adds up
Files ==
    [status : {None, "PENDING", "IN_PROGRESS", "DONE"},
     data : [Rounds -> {None} \cup Sources], temp : SUBSET Future,
     offers : [Rounds -> {None} \cup Sources], claims : [Rounds -> {None} \cup Sources],
     aggregates : [Rounds -> {None} \cup Seq(Sources)],
     final : {None} \cup Seq(Sources), distribution : {None} \cup Seq(Sources)]

NoFiles(temp) ==
    [status |-> None, data |-> Nothing, temp |-> temp, offers |-> Nothing, claims |-> Nothing,
     aggregates |-> Nothing, final |-> None, distribution |-> None]

TypeOK ==
    /\ secure \subseteq Rounds \cup Future
    /\ file \in Files
    /\ pc \in AllStages \cup {"idle", "pending", "progress", "working", "temp", "fix", "appearances",
                              "claiming", "final", "distribute"}
    /\ stages \subseteq AllStages
    /\ at \in 1..(LastRound + FutureRounds + 1)
    /\ job \in [Workers -> {None} \cup Jobs]
    /\ unfinished \in BOOLEAN /\ threw \in BOOLEAN
    /\ kills \in 0..MaxKills /\ runs \in 0..MaxRuns

BatchInit ==
    /\ secure \in SUBSET (Rounds \cup Future)
    /\ file = NoFiles({})
    /\ pc = "idle" /\ stages = {} /\ at = 1 /\ job = Idle
    /\ unfinished = FALSE /\ threw = FALSE /\ kills = 0 /\ runs = 0

-----------------------------------------------------------------------------
\* Mutant: the round's own random number will do.
NextSecureOrSame(r) == IF \E s \in secure : s >= r THEN Min({s \in secure : s >= r}) ELSE Unfixed

\* The first round later than r with a secure random number.
NextSecure(r) == IF \E s \in secure : s > r THEN Min({s \in secure : s > r}) ELSE Unfixed

\* The stage that follows; the process ends after the last one.
After(stage) ==
    LET place(name) == CHOOSE i \in 1..4 : Stages[i] = name
        later == {i \in (place(stage) + 1)..4 : Stages[i] \in stages}
    IN  IF later = {} THEN "idle" ELSE Stages[Min(later)]

\* The step of a process that writes no file but these.
Write(new) == file' = new /\ UNCHANGED <<secure, history>>
GoTo(next) == pc' = next /\ at' = 1 /\ job' = Idle /\ UNCHANGED stages
Repeat == at' = at + 1 /\ UNCHANGED <<pc, stages, job, unfinished>>

\* An error ends the process, and its threads with it.
Throw ==
    /\ pc' = "idle" /\ stages' = {} /\ at' = 1 /\ job' = Idle
    /\ threw' = (threw \/ stages = AllStages)
    /\ UNCHANGED <<secure, file, unfinished, kills, runs>>

\* An operator runs some stages of the epoch.  After a data stage that was not
\* completed the operator starts with it again.
Run(chosen) ==
    /\ pc = "idle" /\ runs < MaxRuns
    /\ unfinished => "data" \in chosen
    /\ pc' = Stages[Min({i \in 1..4 : Stages[i] \in chosen})]
    /\ stages' = chosen /\ at' = 1 /\ runs' = runs + 1
    /\ UNCHANGED <<secure, file, job, unfinished, threw, kills>>

\* Mutant: an epoch that has a status is taken for done.
RunRangeSkipsStarted ==
    /\ pc = "idle" /\ file.status = None
    /\ pc' = "data" /\ stages' = AllStages /\ at' = 1
    /\ UNCHANGED <<secure, file, job, unfinished, history>>

\* A run over a range of epochs does all stages, unless the epoch is done.
RunRange ==
    /\ pc = "idle" /\ file.status # "DONE"
    /\ pc' = "data" /\ stages' = AllStages /\ at' = 1
    /\ UNCHANGED <<secure, file, job, unfinished, history>>

Kill ==
    /\ pc # "idle" /\ kills < MaxKills
    /\ pc' = "idle" /\ stages' = {} /\ at' = 1 /\ job' = Idle
    /\ kills' = kills + 1
    /\ UNCHANGED <<secure, file, unfinished, threw, runs>>

-----------------------------------------------------------------------------
\* Mutant: the files of the final claims stay.
DestroyKeepsFinal ==
    /\ pc = "data"
    /\ Write([NoFiles(file.temp) EXCEPT !.final = file.final])
    /\ GoTo("pending") /\ unfinished' = TRUE

\* destroyStorage
Destroy ==
    /\ pc = "data"
    /\ Write(NoFiles(file.temp))
    /\ GoTo("pending") /\ unfinished' = TRUE

\* setRewardCalculationStatus
SetPending ==
    /\ pc = "pending"
    /\ Write([file EXCEPT !.status = "PENDING"])
    /\ GoTo("progress") /\ UNCHANGED unfinished

SetInProgress ==
    /\ pc = "progress"
    /\ Write([file EXCEPT !.status = "IN_PROGRESS"])
    /\ GoTo("working") /\ UNCHANGED unfinished

\* The rounds of the pool's tasks; "at" counts those given out.
PoolAtWork == pc \in {"working", "temp", "claiming"}
First == IF pc = "temp" THEN LastRound + 1 ELSE 1
Last == IF pc = "temp" THEN LastRound + FutureRounds ELSE LastRound
NextTask == First + at - 1

\* Mutant: the last batch is not cut off at the end.
TakePastEnd(w) ==
    /\ PoolAtWork /\ job[w] = None /\ NextTask <= Last
    /\ job' = [job EXCEPT ![w] = [next |-> NextTask, end |-> NextTask + BatchSize - 1]]
    /\ at' = at + BatchSize
    /\ UNCHANGED <<secure, file, pc, stages, unfinished, history>>

\* A free worker takes the next batch.
Take(w) ==
    /\ PoolAtWork /\ job[w] = None /\ NextTask <= Last
    /\ LET end == Min({NextTask + BatchSize - 1, Last})
       IN  /\ job' = [job EXCEPT ![w] = [next |-> NextTask, end |-> end]]
           /\ at' = at + end - NextTask + 1
    /\ UNCHANGED <<secure, file, pc, stages, unfinished, history>>

Advance(w) ==
    /\ job' = [job EXCEPT ![w] = IF @.next = @.end THEN None
                                     ELSE [next |-> @.next + 1, end |-> @.end]]
    /\ UNCHANGED <<pc, stages, at, unfinished>>

\* prepareDataForRewardCalculationsForRange, from chain; errors are retried.
WriteData(w) ==
    /\ pc \in {"working", "temp"} /\ job[w] # None
    /\ Write(IF pc = "working" THEN [file EXCEPT !.data[job[w].next] = Unfixed]
             ELSE [file EXCEPT !.temp = @ \cup {job[w].next}])
    /\ Advance(w)

\* partialRewardClaimsForVotingRound; an error is not retried.
WriteClaims(w) ==
    /\ pc = "claiming" /\ job[w] # None
    /\ LET r == job[w].next
       IN  IF file.offers[r] = None \/ file.data[r] = None THEN Throw
           ELSE Write([file EXCEPT !.claims[r] = file.offers[r]]) /\ Advance(w)

\* Mutant: the process goes on when the last task is given out.
PoolDoneUnawaited == NextTask > Last

\* All promises of the pool are fulfilled.
PoolDone == NextTask > Last /\ job = Idle

\* The temporary folder is destroyed before it is filled, and again at the end.
DataDone ==
    /\ pc = "working" /\ PoolDone
    /\ Write([file EXCEPT !.temp = {}])
    /\ GoTo("temp") /\ UNCHANGED unfinished

TempDone ==
    /\ pc = "temp" /\ PoolDone
    /\ Write(file)
    /\ GoTo("fix") /\ UNCHANGED unfinished

\* runRandomNumberFixing: one file after another, in the order of the rounds.
Fix ==
    /\ pc = "fix"
    /\ IF (\E r \in Rounds : file.data[r] = None) \/ (\E r \in Future : r \notin file.temp) THEN Throw
       ELSE IF at <= LastRound /\ NextSecure(at) # Unfixed
       THEN Write([file EXCEPT !.data[at] = NextSecure(at)]) /\ Repeat
       ELSE Write(file) /\ GoTo("appearances") /\ UNCHANGED unfinished

DestroyTemp ==
    /\ pc = "appearances"
    /\ Write([file EXCEPT !.temp = {}])
    /\ GoTo(After("data")) /\ unfinished' = FALSE

-----------------------------------------------------------------------------
\* fullRoundOfferCalculation
WriteOffers ==
    /\ pc = "offers"
    /\ IF \E r \in Rounds : file.data[r] = None THEN Throw
       ELSE IF at <= LastRound THEN Write([file EXCEPT !.offers[at] = file.data[at]]) /\ Repeat
       ELSE Write(file) /\ GoTo(After("offers")) /\ UNCHANGED unfinished

\* runCalculateRewardClaimsTopJob
BeginClaims ==
    /\ pc = "claims"
    /\ Write(file)
    /\ GoTo("claiming") /\ UNCHANGED unfinished

ClaimsDone ==
    /\ pc = "claiming" /\ PoolDone
    /\ Write(file)
    /\ GoTo(After("claims")) /\ UNCHANGED unfinished

\* claimAggregation and aggregateRewardClaimsInStorage, round after round: an
\* aggregate that exists is kept, but that of the first round.
\* Mutant: what exists is taken for the sum of the rounds before.
AggregateAgain(r) ==
    IF file.aggregates[r] # None THEN Append(file.aggregates[r], file.claims[r])
    ELSE Append(IF r = 1 THEN <<>> ELSE file.aggregates[r - 1], file.claims[r])

Aggregate(r) ==
    IF r = 1 THEN <<file.claims[1]>>
    ELSE IF file.aggregates[r] # None THEN file.aggregates[r]
    ELSE Append(file.aggregates[r - 1], file.claims[r])

AggregateThrows(r) ==
    \/ file.claims[r] = None /\ (r = 1 \/ file.aggregates[r] = None)
    \/ r > 1 /\ file.aggregates[r - 1] = None

\* Mutant: the status is set before the work is done.
WriteAggregateDoneFirst ==
    /\ pc = "aggregate" /\ at <= LastRound
    /\ IF AggregateThrows(at)
       THEN Write([file EXCEPT !.status = "DONE"]) /\ GoTo("idle") /\ UNCHANGED unfinished
       ELSE Write([file EXCEPT !.aggregates[at] = Aggregate(at)]) /\ Repeat

WriteAggregate ==
    /\ pc = "aggregate" /\ at <= LastRound
    /\ IF AggregateThrows(at) THEN Throw
       ELSE Write([file EXCEPT !.aggregates[at] = Aggregate(at)]) /\ Repeat

\* The status is set before the final claims are written, and not twice.
SetDone ==
    /\ pc = "aggregate" /\ at > LastRound
    /\ IF file.status # "IN_PROGRESS" THEN Throw
       ELSE Write([file EXCEPT !.status = "DONE"]) /\ GoTo("final") /\ UNCHANGED unfinished

\* Mutant: the final claims are those of the last round but one.
WriteFinalEarly ==
    /\ pc = "final"
    /\ Write([file EXCEPT !.final = file.aggregates[Max({1, LastRound - 1})]])
    /\ GoTo("distribute") /\ UNCHANGED unfinished

WriteFinal ==
    /\ pc = "final"
    /\ Write([file EXCEPT !.final = file.aggregates[LastRound]])
    /\ GoTo("distribute") /\ UNCHANGED unfinished

WriteDistribution ==
    /\ pc = "distribute"
    /\ Write([file EXCEPT !.distribution = file.aggregates[LastRound]])
    /\ GoTo("idle") /\ UNCHANGED unfinished

-----------------------------------------------------------------------------
WorkerStep(w) == Take(w) \/ WriteData(w) \/ WriteClaims(w)

ProcessStep ==
    \/ Destroy \/ SetPending \/ SetInProgress \/ DataDone \/ TempDone \/ Fix \/ DestroyTemp
    \/ WriteOffers \/ BeginClaims \/ ClaimsDone
    \/ WriteAggregate \/ SetDone \/ WriteFinal \/ WriteDistribution

BatchNext ==
    \/ ProcessStep
    \/ \E w \in Workers : WorkerStep(w)
    \/ \E chosen \in (SUBSET AllStages) \ {{}} : Run(chosen)
    \/ RunRange
    \/ Kill

\* The process and its threads go on, and an epoch that is not done is in the
\* range of a later run.
BatchSpec ==
    /\ BatchInit /\ [][BatchNext]_batchVars
    /\ WF_batchVars(ProcessStep) /\ WF_batchVars(RunRange)
    /\ \A w \in Workers : WF_batchVars(WorkerStep(w))

-----------------------------------------------------------------------------
(***************************************************************************)
(* The offers and claims of a round rest on the first secure random number *)
(* made after it, never on the round's own, which its voters could have    *)
(* influenced; with none they are burnt.  That is so however batches are   *)
(* spread over threads and stages over runs.  (processRandomNumberFixingRange) *)
(***************************************************************************)
ClaimsOfRightRandom ==
    \A r \in Rounds, s \in Rounds \cup Future :
        file.claims[r] # None =>
            /\ file.claims[r] = s => s > r /\ s \in secure
            /\ s \in secure /\ s > r => file.claims[r] \in 1..s

(***************************************************************************)
(* An aggregate is the sum of the claims of all rounds up to its own, each *)
(* counted once, though aggregation may be killed and repeated and keeps   *)
(* what it finds.  (aggregateRewardClaimsInStorage)                        *)
(***************************************************************************)
AggregatesAreSums ==
    \A r \in Rounds :
        file.aggregates[r] # None =>
            /\ file.aggregates[r] = [q \in 1..r |-> file.claims[q]]
            /\ \A q \in 1..r : file.claims[q] # None

(***************************************************************************)
(* The distribution that is paid out is of the final claims, of an epoch   *)
(* that is done, and holds the claims of all its rounds.                   *)
(***************************************************************************)
DistributionComplete ==
    file.distribution # None =>
        /\ file.status = "DONE"
        /\ file.distribution = file.final
        /\ file.distribution = file.claims

\* The files never contradict one another, whatever was killed and repeated.
FilesConsistent == TypeOK /\ AggregatesAreSums /\ DistributionComplete

(***************************************************************************)
(* As long as no process was killed, an epoch that is done has its final   *)
(* claims and their distribution once the process ended, whatever stages   *)
(* were run in whatever order.  (A process killed right after it set the   *)
(* status leaves an epoch that later runs skip or refuse to aggregate.)    *)
(***************************************************************************)
NoKillNoGap ==
    pc = "idle" /\ kills = 0 /\ file.status = "DONE" =>
        file.final # None /\ file.distribution # None

(***************************************************************************)
(* A run of all stages finds every file it needs: the stages wait for all  *)
(* threads of the pool, and nothing left by earlier runs is in the way.    *)
(***************************************************************************)
FullRunNeverThrows == ~threw

\* Runs that are left alone do all of their work.
UndisturbedRunComplete == NoKillNoGap /\ FullRunNeverThrows

(***************************************************************************)
(* In the end the epoch is done and stays so, however runs were killed and *)
(* whatever they left behind.  (run, processOneRewardEpoch)                *)
(***************************************************************************)
EpochDone == <>[](file.status = "DONE")

(***************************************************************************)
(* The files keep the ledger's promise: claims are made once and published *)
(* once and in full, until everything is destroyed and begun anew.         *)
(***************************************************************************)
Ledger == INSTANCE RewardLedger
              WITH Rounds <- Rounds, Values <- Sources, None <- None,
                   claimed <- file.claims, published <- file.final
KeepsLedger == Ledger!LedgerSpec
=============================================================================
