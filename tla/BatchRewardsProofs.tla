------------------------- MODULE BatchRewardsProofs -------------------------
(***************************************************************************)
(* Proofs about BatchRewards.tla, for every length of the epoch, batches   *)
(* of every size, any threads and any number of kills and runs.            *)
(***************************************************************************)
EXTENDS BatchRewards, NumberFacts

-----------------------------------------------------------------------------
(* The operators the actions are built from *)

\* What the assumptions say of rounds and of None and Unfixed.
LEMMA Constants ==
    /\ LastRound \in Nat \ {0} /\ FutureRounds \in Nat /\ BatchSize \in Nat \ {0}
    /\ MaxKills \in Nat /\ MaxRuns \in Nat
    /\ None \notin Rounds \cup Future /\ Unfixed \notin Rounds \cup Future /\ None # Unfixed
    /\ Rounds \subseteq Nat /\ Future \subseteq Nat
  BY BatchAssumption, NoneAssumption DEF Rounds, Future, Sources

\* The random number of a round is a later secure one, if there is one, and the
\* first of them.
LEMMA NextSecureFirst ==
    ASSUME secure \subseteq Rounds \cup Future, NEW r \in Rounds \cup Future
    PROVE  /\ NextSecure(r) \in Sources
           /\ NextSecure(r) # Unfixed => NextSecure(r) \in secure /\ NextSecure(r) > r
           /\ \A s \in secure : s > r => NextSecure(r) # Unfixed /\ NextSecure(r) <= s
  <1> DEFINE later == {s \in secure : s > r}
  <1>1. CASE \E s \in secure : s > r
    <2>1. later \in SUBSET Nat /\ later # {}
      BY <1>1, Constants
    <2>2. Min(later) \in later /\ \A s \in later : Min(later) <= s
      <3> HIDE DEF later
      <3> QED BY <2>1, MinOfNaturals
    <2> QED BY <1>1, <2>2, Constants DEF NextSecure, Sources
  <1>2. CASE ~\E s \in secure : s > r
    BY <1>2 DEF NextSecure, Sources
  <1> QED BY <1>1, <1>2

\* Rounds after one without a random number have none either.
LEMMA NextSecureUnfixed ==
    ASSUME secure \subseteq Rounds \cup Future, NEW r \in Rounds, NEW q \in Rounds, r <= q,
           NextSecure(r) = Unfixed
    PROVE  NextSecure(q) = Unfixed
  <1>1. \A s \in secure : ~(s > r)
    BY NextSecureFirst
  <1>2. \A s \in secure : ~(s > q)
    BY <1>1, Constants
  <1> QED BY <1>2 DEF NextSecure

\* The stage after a stage is one of those after it that were chosen, the very
\* next one in a run of all stages.
LEMMA AfterStage ==
    ASSUME NEW stage \in {"data", "offers", "claims"}
    PROVE  /\ stage = "data" => After(stage) \in {"idle", "offers", "claims", "aggregate"}
           /\ stage = "offers" => After(stage) \in {"idle", "claims", "aggregate"}
           /\ stage = "claims" => After(stage) \in {"idle", "aggregate"}
           /\ stages = AllStages =>
                 /\ stage = "data" => After(stage) = "offers"
                 /\ stage = "offers" => After(stage) = "claims"
                 /\ stage = "claims" => After(stage) = "aggregate"
  <1> DEFINE place == CHOOSE i \in 1..4 : Stages[i] = stage
             later == {i \in (place + 1)..4 : Stages[i] \in stages}
  <1>1. /\ Stages[1] = "data" /\ Stages[2] = "offers" /\ Stages[3] = "claims"
        /\ Stages[4] = "aggregate"
    BY DEF Stages
  <1>2. \A i \in 1..4 : i = 1 \/ i = 2 \/ i = 3 \/ i = 4
    OBVIOUS
  <1>3. /\ place \in Nat
        /\ stage = "data" => place = 1
        /\ stage = "offers" => place = 2
        /\ stage = "claims" => place = 3
    <2>1. \E i \in 1..3 : Stages[i] = stage
      BY <1>1
    <2>2. place \in 1..4 /\ Stages[place] = stage
      BY <2>1
    <2> HIDE DEF place
    <2> QED BY <1>1, <1>2, <2>2
  <1>4. After(stage) = IF later = {} THEN "idle" ELSE Stages[Min(later)]
    BY DEF After
  <1>5. later # {} => Min(later) \in later /\ \A i \in later : Min(later) <= i
    <2> HIDE DEF place
    <2>1. later \in SUBSET Nat
      BY <1>3
    <2> HIDE DEF later
    <2> QED BY <2>1, MinOfNaturals
  <1> HIDE DEF place
  <1>6. stages = AllStages => place + 1 \in later
    BY <1>1, <1>3 DEF AllStages
  <1>7. \A i \in later : i \in (place + 1)..4 /\ Stages[i] \in stages
    OBVIOUS
  <1> HIDE DEF later
  <1>8. CASE later = {}
    BY <1>4, <1>6, <1>8
  <1>9. CASE later # {}
    <2> DEFINE m == Min(later)
    <2>1. /\ m \in (place + 1)..4 /\ After(stage) = Stages[m]
          /\ (stages = AllStages => m <= place + 1)
      BY <1>4, <1>5, <1>6, <1>7, <1>9
    <2> HIDE DEF m
    <2> QED BY <1>1, <1>2, <1>3, <2>1
  <1> QED BY <1>8, <1>9

-----------------------------------------------------------------------------
(* What writing one file changes *)

\* The status file.
LEMMA WritingStatus ==
    ASSUME NEW F \in Files, NEW v \in {"PENDING", "IN_PROGRESS", "DONE"},
           NEW G, G = [F EXCEPT !.status = v]
    PROVE  /\ G \in Files /\ G.status = v
           /\ G.data = F.data /\ G.temp = F.temp /\ G.offers = F.offers /\ G.claims = F.claims
           /\ G.aggregates = F.aggregates /\ G.final = F.final /\ G.distribution = F.distribution
  BY DEF Files

\* The data of a round.
LEMMA WritingData ==
    ASSUME NEW F \in Files, NEW r \in Rounds, NEW v \in Sources,
           NEW G, G = [F EXCEPT !.data[r] = v]
    PROVE  /\ G \in Files /\ G.data = [F.data EXCEPT ![r] = v]
           /\ G.status = F.status /\ G.temp = F.temp /\ G.offers = F.offers /\ G.claims = F.claims
           /\ G.aggregates = F.aggregates /\ G.final = F.final /\ G.distribution = F.distribution
  BY DEF Files

\* The temporary folder.
LEMMA WritingTemp ==
    ASSUME NEW F \in Files, NEW v \in SUBSET Future,
           NEW G, G = [F EXCEPT !.temp = v]
    PROVE  /\ G \in Files /\ G.temp = v
           /\ G.status = F.status /\ G.data = F.data /\ G.offers = F.offers /\ G.claims = F.claims
           /\ G.aggregates = F.aggregates /\ G.final = F.final /\ G.distribution = F.distribution
  BY DEF Files

-----------------------------------------------------------------------------
(* The inductive invariant *)

\* Every round has its file.
All(f) == \A r \in Rounds : f[r] # None

\* A worker has the round in its batch.
Given(r) == \E w \in Workers : job[w] # None /\ r \in job[w].next..job[w].end

\* The loops end one after the last round.
LoopsInBounds ==
    /\ pc \in {"working", "fix", "offers", "claiming", "aggregate"} => at <= LastRound + 1
    /\ pc = "temp" => at <= FutureRounds + 1

\* Batches are of rounds given out, and only while a pool is at work.
JobsOfPool ==
    \A w \in Workers : job[w] # None =>
        PoolAtWork /\ First <= job[w].next /\ job[w].end < NextTask

\* From its start to its end a data stage leaves nothing of earlier runs.
DataStage ==
    /\ pc \in {"pending", "progress", "working", "temp", "fix", "appearances"} => unfinished
    /\ pc \in {"offers", "claims", "claiming", "aggregate", "final", "distribute"} => ~unfinished
    /\ unfinished =>
          /\ file.offers = Nothing /\ file.claims = Nothing /\ file.aggregates = Nothing
          /\ file.final = None /\ file.distribution = None

\* The random numbers the data of the rounds have, stage by stage.
RandomsFixed ==
    /\ ~unfinished => \A r \in Rounds : file.data[r] \in {None, NextSecure(r)}
    /\ pc \in {"pending", "progress"} => file.data = Nothing
    /\ pc = "working" => \A r \in Rounds : file.data[r] \in {None, Unfixed}
    /\ pc = "temp" => \A r \in Rounds : file.data[r] = Unfixed
    /\ pc = "fix" => /\ Future \subseteq file.temp
                    /\ \A r \in Rounds : file.data[r] = IF r < at THEN NextSecure(r) ELSE Unfixed
    /\ pc = "appearances" => \A r \in Rounds : file.data[r] = NextSecure(r)

\* Offers and claims rest on the right random number.
SourcesRight ==
    \A r \in Rounds : /\ file.offers[r] \in {None, NextSecure(r)}
                      /\ file.claims[r] \in {None, NextSecure(r)}

\* A round given out is done or in a batch.
PoolProgress ==
    /\ pc = "working" => \A r \in Rounds : r < NextTask => file.data[r] # None \/ Given(r)
    /\ pc = "temp" => \A r \in Future : r < NextTask => r \in file.temp \/ Given(r)
    /\ pc = "claiming" => \A r \in Rounds : r < NextTask => file.claims[r] # None \/ Given(r)

\* The rounds a loop has passed are done.
LoopProgress ==
    /\ pc = "offers" => \A r \in Rounds : r < at => file.offers[r] # None
    /\ pc = "aggregate" => \A r \in Rounds : r < at => file.aggregates[r] # None

\* In a run of all stages each one has left what the next one needs.
FullRun ==
    stages = AllStages =>
        /\ pc \in {"working", "temp", "fix", "appearances", "offers", "claims", "claiming",
                  "aggregate"}
               => file.status = "IN_PROGRESS"
        /\ pc \in {"offers", "claims", "claiming"} => All(file.data)
        /\ pc \in {"claims", "claiming"} => All(file.offers)
        /\ pc = "aggregate" => All(file.claims)

\* What is final is of all claims.
Published ==
    /\ pc \in {"final", "distribute"} => file.status = "DONE" /\ file.aggregates[LastRound] # None
    /\ pc = "distribute" => file.final # None
    /\ file.final # None => All(file.claims) /\ file.final = file.claims

\* Without a kill the final files follow the status.
NoGap ==
    kills = 0 /\ file.status = "DONE" /\ pc \notin {"final", "distribute"} =>
        file.final # None /\ file.distribution # None

\* What holds in every state and is preserved by every step.
BatchInv ==
    /\ TypeOK /\ LoopsInBounds /\ JobsOfPool /\ DataStage /\ RandomsFixed /\ SourcesRight
    /\ PoolProgress /\ LoopProgress /\ FullRun /\ Published /\ NoGap
    /\ AggregatesAreSums /\ DistributionComplete /\ ~threw

\* The random numbers of a run are those of the chain, which stays as it is.
LEMMA SameNextSecure ==
    ASSUME secure' = secure
    PROVE  \A r : NextSecure(r)' = NextSecure(r)
  BY DEF NextSecure

\* Nothing but the temporary folder is left when all is destroyed.
LEMMA NoFilesEmpty ==
    ASSUME NEW temp \in SUBSET Future, NEW G, G = NoFiles(temp)
    PROVE  /\ G \in Files
           /\ G.status = None /\ G.data = Nothing /\ G.temp = temp /\ G.offers = Nothing
           /\ G.claims = Nothing /\ G.aggregates = Nothing /\ G.final = None
           /\ G.distribution = None
  BY DEF NoFiles, Files, Nothing

\* With all files gone the data stage begins.
LEMMA DestroyStep ==
    ASSUME BatchInv, Destroy
    PROVE  BatchInv'
  <1>1. /\ file' \in Files
        /\ file'.status = None /\ file'.data = Nothing /\ file'.offers = Nothing
        /\ file'.claims = Nothing /\ file'.aggregates = Nothing /\ file'.final = None
        /\ file'.distribution = None
    BY NoFilesEmpty DEF BatchInv, TypeOK, Destroy, Write, Files
  <1>2. /\ pc' = "pending" /\ at' = 1 /\ job' = Idle /\ UNCHANGED stages /\ unfinished' = TRUE
        /\ UNCHANGED <<secure, threw, kills, runs>>
    BY DEF Destroy, Write, GoTo, history
  <1>3. TypeOK'
    BY <1>1, <1>2, Constants DEF BatchInv, TypeOK, Idle
  <1>4. LoopsInBounds' /\ JobsOfPool' /\ DataStage'
    BY <1>1, <1>2 DEF LoopsInBounds, JobsOfPool, DataStage, Idle
  <1>5. RandomsFixed' /\ SourcesRight' /\ PoolProgress' /\ LoopProgress'
    BY <1>1, <1>2 DEF RandomsFixed, SourcesRight, PoolProgress, LoopProgress, Nothing
  <1>6. FullRun' /\ Published' /\ NoGap'
    BY <1>1, <1>2, NoneAssumption DEF FullRun, Published, NoGap
  <1>7. AggregatesAreSums' /\ DistributionComplete' /\ ~threw'
    BY <1>1, <1>2 DEF BatchInv, AggregatesAreSums, DistributionComplete, Nothing
  <1> QED BY <1>3, <1>4, <1>5, <1>6, <1>7 DEF BatchInv

\* An error ends a run that was not of all stages.
LEMMA ThrowStep ==
    ASSUME BatchInv, Throw, stages # AllStages, pc \notin {"final", "distribute"}
    PROVE  BatchInv'
  <1>1. /\ pc' = "idle" /\ stages' = {} /\ at' = 1 /\ job' = Idle
        /\ UNCHANGED <<secure, file, unfinished, threw, kills, runs>>
    BY DEF Throw, BatchInv, TypeOK
  <1>2. TypeOK'
    BY <1>1, Constants DEF BatchInv, TypeOK, Idle
  <1>3. LoopsInBounds' /\ JobsOfPool' /\ DataStage'
    BY <1>1 DEF BatchInv, LoopsInBounds, JobsOfPool, DataStage, Idle, Nothing
  <1>4. RandomsFixed' /\ SourcesRight' /\ PoolProgress' /\ LoopProgress'
    BY <1>1, SameNextSecure DEF BatchInv, RandomsFixed, SourcesRight, PoolProgress, LoopProgress
  <1>5. FullRun' /\ Published' /\ NoGap'
    BY <1>1 DEF BatchInv, FullRun, Published, NoGap, All, AllStages
  <1>6. AggregatesAreSums' /\ DistributionComplete' /\ ~threw'
    BY <1>1 DEF BatchInv, AggregatesAreSums, DistributionComplete
  <1> QED BY <1>2, <1>3, <1>4, <1>5, <1>6 DEF BatchInv

\* A kill takes the process away and leaves the files.
LEMMA KillStep ==
    ASSUME BatchInv, Kill
    PROVE  BatchInv'
  <1>1. /\ pc' = "idle" /\ stages' = {} /\ at' = 1 /\ job' = Idle
        /\ kills' = kills + 1 /\ kills' \in 0..MaxKills /\ kills' # 0
        /\ UNCHANGED <<secure, file, unfinished, threw, runs>>
    BY Constants DEF Kill, BatchInv, TypeOK
  <1>2. TypeOK'
    BY <1>1, Constants DEF BatchInv, TypeOK, Idle
  <1>3. LoopsInBounds' /\ JobsOfPool' /\ DataStage'
    BY <1>1 DEF BatchInv, LoopsInBounds, JobsOfPool, DataStage, Idle, Nothing
  <1>4. RandomsFixed' /\ SourcesRight' /\ PoolProgress' /\ LoopProgress'
    BY <1>1, SameNextSecure DEF BatchInv, RandomsFixed, SourcesRight, PoolProgress, LoopProgress
  <1>5. FullRun' /\ Published' /\ NoGap'
    BY <1>1 DEF BatchInv, FullRun, Published, NoGap, All, AllStages
  <1>6. AggregatesAreSums' /\ DistributionComplete' /\ ~threw'
    BY <1>1 DEF BatchInv, AggregatesAreSums, DistributionComplete
  <1> QED BY <1>2, <1>3, <1>4, <1>5, <1>6 DEF BatchInv

\* The first stage of a run.
LEMMA FirstStage ==
    ASSUME NEW chosen \in (SUBSET AllStages) \ {{}},
           NEW first, first = Stages[Min({i \in 1..4 : Stages[i] \in chosen})]
    PROVE  /\ first \in chosen
           /\ "data" \in chosen => first = "data"
  <1> DEFINE places == {i \in 1..4 : Stages[i] \in chosen}
  <1>1. /\ Stages[1] = "data" /\ Stages[2] = "offers" /\ Stages[3] = "claims"
        /\ Stages[4] = "aggregate"
    BY DEF Stages
  <1>2. places \in SUBSET Nat /\ places # {}
    BY <1>1 DEF AllStages
  <1>3. "data" \in chosen => 1 \in places
    BY <1>1
  <1>4. \A i \in places : i \in 1..4 /\ Stages[i] \in chosen
    OBVIOUS
  <1> HIDE DEF places
  <1>5. Min(places) \in places /\ \A i \in places : Min(places) <= i
    BY <1>2, MinOfNaturals
  <1>6. first = Stages[Min(places)]
    BY DEF places
  <1> QED BY <1>1, <1>3, <1>4, <1>5, <1>6

\* An operator may start any stages on what is there, data first after a broken data stage.
LEMMA RunStep ==
    ASSUME BatchInv, NEW chosen \in (SUBSET AllStages) \ {{}}, Run(chosen)
    PROVE  BatchInv'
  <1>1. /\ pc = "idle" /\ stages' = chosen /\ at' = 1 /\ runs' \in 0..MaxRuns
        /\ unfinished => "data" \in chosen
        /\ UNCHANGED <<secure, file, job, unfinished, threw, kills>>
    BY Constants DEF Run, BatchInv, TypeOK
  <1>2. /\ pc' \in chosen /\ pc' \in AllStages
        /\ "data" \in chosen => pc' = "data"
    BY FirstStage DEF Run
  <1>3. \A w \in Workers : job[w] = None
    BY <1>1 DEF BatchInv, JobsOfPool, PoolAtWork
  <1>4. TypeOK'
    BY <1>1, <1>2, Constants DEF BatchInv, TypeOK
  <1>5. LoopsInBounds' /\ JobsOfPool' /\ DataStage'
    BY <1>1, <1>2, <1>3, Constants
    DEF BatchInv, LoopsInBounds, JobsOfPool, DataStage, Nothing, AllStages
  <1>6. RandomsFixed' /\ SourcesRight' /\ PoolProgress' /\ LoopProgress'
    BY <1>1, <1>2, SameNextSecure, Constants
    DEF BatchInv, RandomsFixed, SourcesRight, PoolProgress, LoopProgress, AllStages, Rounds
  <1>7. FullRun' /\ Published' /\ NoGap'
    BY <1>1, <1>2 DEF BatchInv, FullRun, Published, NoGap, All, AllStages
  <1>8. AggregatesAreSums' /\ DistributionComplete' /\ ~threw'
    BY <1>1 DEF BatchInv, AggregatesAreSums, DistributionComplete
  <1> QED BY <1>4, <1>5, <1>6, <1>7, <1>8 DEF BatchInv

\* A run of all stages begins with destroying everything.
LEMMA RunRangeStep ==
    ASSUME BatchInv, RunRange
    PROVE  BatchInv'
  <1>1. /\ pc = "idle" /\ pc' = "data" /\ stages' = AllStages /\ at' = 1
        /\ UNCHANGED <<secure, file, job, unfinished, threw, kills, runs>>
    BY DEF RunRange, history
  <1>2. \A w \in Workers : job[w] = None
    BY <1>1 DEF BatchInv, JobsOfPool, PoolAtWork
  <1>3. TypeOK'
    BY <1>1, Constants DEF BatchInv, TypeOK, AllStages
  <1>4. LoopsInBounds' /\ JobsOfPool' /\ DataStage'
    BY <1>1, <1>2 DEF BatchInv, LoopsInBounds, JobsOfPool, DataStage, Nothing
  <1>5. RandomsFixed' /\ SourcesRight' /\ PoolProgress' /\ LoopProgress'
    BY <1>1, SameNextSecure DEF BatchInv, RandomsFixed, SourcesRight, PoolProgress, LoopProgress
  <1>6. FullRun' /\ Published' /\ NoGap'
    BY <1>1 DEF BatchInv, FullRun, Published, NoGap, All
  <1>7. AggregatesAreSums' /\ DistributionComplete' /\ ~threw'
    BY <1>1 DEF BatchInv, AggregatesAreSums, DistributionComplete
  <1> QED BY <1>3, <1>4, <1>5, <1>6, <1>7 DEF BatchInv

\* The epoch is pending, with no file but the status.
LEMMA SetPendingStep ==
    ASSUME BatchInv, SetPending
    PROVE  BatchInv'
  <1>1. /\ file' \in Files /\ file'.status = "PENDING"
        /\ file'.data = file.data /\ file'.temp = file.temp /\ file'.offers = file.offers
        /\ file'.claims = file.claims /\ file'.aggregates = file.aggregates
        /\ file'.final = file.final /\ file'.distribution = file.distribution
    BY WritingStatus DEF BatchInv, TypeOK, SetPending, Write
  <1>2. /\ pc = "pending" /\ pc' = "progress" /\ at' = 1 /\ job' = Idle
        /\ UNCHANGED <<secure, stages, unfinished, threw, kills, runs>>
    BY DEF SetPending, Write, GoTo, history
  <1>3. file.final = None /\ file.distribution = None /\ file.data = Nothing
    BY <1>2 DEF BatchInv, DataStage, RandomsFixed
  <1>4. TypeOK'
    BY <1>1, <1>2, Constants DEF BatchInv, TypeOK, Idle
  <1>5. LoopsInBounds' /\ JobsOfPool' /\ DataStage'
    BY <1>1, <1>2, Constants DEF BatchInv, LoopsInBounds, JobsOfPool, DataStage, Idle, Nothing
  <1>6. RandomsFixed' /\ SourcesRight' /\ PoolProgress' /\ LoopProgress'
    BY <1>1, <1>2, <1>3, SameNextSecure, Constants
    DEF BatchInv, DataStage, RandomsFixed, SourcesRight, PoolProgress, LoopProgress, Nothing,
        NextTask, First, Rounds
  <1>7. FullRun' /\ Published' /\ NoGap'
    BY <1>1, <1>2, <1>3 DEF BatchInv, FullRun, Published, NoGap, All
  <1>8. AggregatesAreSums' /\ DistributionComplete' /\ ~threw'
    BY <1>1, <1>2, <1>3 DEF BatchInv, AggregatesAreSums, DistributionComplete
  <1> QED BY <1>4, <1>5, <1>6, <1>7, <1>8 DEF BatchInv

\* The epoch is in progress.
LEMMA SetInProgressStep ==
    ASSUME BatchInv, SetInProgress
    PROVE  BatchInv'
  <1>1. /\ file' \in Files /\ file'.status = "IN_PROGRESS"
        /\ file'.data = file.data /\ file'.temp = file.temp /\ file'.offers = file.offers
        /\ file'.claims = file.claims /\ file'.aggregates = file.aggregates
        /\ file'.final = file.final /\ file'.distribution = file.distribution
    BY WritingStatus DEF BatchInv, TypeOK, SetInProgress, Write
  <1>2. /\ pc = "progress" /\ pc' = "working" /\ at' = 1 /\ job' = Idle
        /\ UNCHANGED <<secure, stages, unfinished, threw, kills, runs>>
    BY DEF SetInProgress, Write, GoTo, history
  <1>3. file.final = None /\ file.distribution = None /\ file.data = Nothing
    BY <1>2 DEF BatchInv, DataStage, RandomsFixed
  <1>4. TypeOK'
    BY <1>1, <1>2, Constants DEF BatchInv, TypeOK, Idle
  <1>5. LoopsInBounds' /\ JobsOfPool' /\ DataStage'
    BY <1>1, <1>2, Constants DEF BatchInv, LoopsInBounds, JobsOfPool, DataStage, Idle, Nothing
  <1>6. RandomsFixed' /\ SourcesRight' /\ PoolProgress' /\ LoopProgress'
    BY <1>1, <1>2, <1>3, SameNextSecure, Constants
    DEF BatchInv, DataStage, RandomsFixed, SourcesRight, PoolProgress, LoopProgress, Nothing,
        NextTask, First, Rounds
  <1>7. FullRun' /\ Published' /\ NoGap'
    BY <1>1, <1>2, <1>3 DEF BatchInv, FullRun, Published, NoGap, All
  <1>8. AggregatesAreSums' /\ DistributionComplete' /\ ~threw'
    BY <1>1, <1>2, <1>3 DEF BatchInv, AggregatesAreSums, DistributionComplete
  <1> QED BY <1>4, <1>5, <1>6, <1>7, <1>8 DEF BatchInv

-----------------------------------------------------------------------------
(* The steps of the pool *)

\* A pool gives out its rounds up to the last one; a batch is of those given out.
LEMMA PoolRange ==
    ASSUME BatchInv, PoolAtWork
    PROVE  /\ NextTask \in Nat /\ First \in Nat /\ Last \in Nat
           /\ First <= NextTask /\ NextTask <= Last + 1 /\ at = NextTask - First + 1
           /\ First..Last = IF pc = "temp" THEN Future ELSE Rounds
           /\ \A w \in Workers : job[w] # None =>
                 /\ job[w] \in Jobs /\ job[w].next \in First..Last /\ job[w].end \in First..Last
                 /\ job[w].next <= job[w].end /\ job[w].end < NextTask
  <1>1. /\ NextTask \in Nat /\ First \in Nat /\ Last \in Nat
        /\ First <= NextTask /\ NextTask <= Last + 1 /\ at = NextTask - First + 1
        /\ First..Last = IF pc = "temp" THEN Future ELSE Rounds
    BY Constants
    DEF BatchInv, TypeOK, LoopsInBounds, PoolAtWork, NextTask, First, Last, Rounds, Future
  <1>2. ASSUME NEW w \in Workers, job[w] # None
        PROVE  /\ job[w] \in Jobs /\ job[w].next \in First..Last /\ job[w].end \in First..Last
               /\ job[w].next <= job[w].end /\ job[w].end < NextTask
    <2>1. job[w] \in Jobs /\ First <= job[w].next /\ job[w].end < NextTask
      BY <1>2 DEF BatchInv, TypeOK, JobsOfPool
    <2>2. job[w].next \in Nat /\ job[w].end \in Nat /\ job[w].next <= job[w].end
      BY <2>1, Constants DEF Jobs
    <2> QED BY <1>1, <2>1, <2>2
  <1> QED BY <1>1, <1>2

\* The rounds of a new batch are in it.
LEMMA TakeStep ==
    ASSUME BatchInv, NEW w \in Workers, Take(w)
    PROVE  BatchInv'
  <1> DEFINE end == Min({NextTask + BatchSize - 1, Last})
  <1>1. /\ PoolAtWork /\ job[w] = None /\ NextTask <= Last
        /\ job' = [job EXCEPT ![w] = [next |-> NextTask, end |-> end]]
        /\ at' = at + end - NextTask + 1
        /\ UNCHANGED <<secure, file, pc, stages, unfinished, threw, kills, runs>>
    BY DEF Take, history
  <1>2. end \in Nat /\ NextTask <= end /\ end <= Last
    <2> DEFINE ends == {NextTask + BatchSize - 1, Last}
    <2>1. ends \in SUBSET Nat /\ ends # {}
      BY <1>1, PoolRange, Constants
    <2>2. end \in ends /\ \A m \in ends : end <= m
      <3> HIDE DEF ends
      <3>1. Min(ends) \in ends /\ \A m \in ends : Min(ends) <= m
        BY <2>1, MinOfNaturals
      <3> QED BY <3>1 DEF ends
    <2> HIDE DEF end
    <2> QED BY <1>1, <2>2, PoolRange, Constants
  <1> HIDE DEF end
  <1>3. /\ First' = First /\ Last' = Last /\ NextTask' = end + 1 /\ (PoolAtWork)'
    BY <1>1, <1>2, PoolRange, Constants DEF First, Last, NextTask, PoolAtWork
  <1>4. [next |-> NextTask, end |-> end] \in Jobs
    BY <1>1, <1>2, PoolRange DEF Jobs
  <1>5. /\ job' \in [Workers -> {None} \cup Jobs]
        /\ job'[w] = [next |-> NextTask, end |-> end]
        /\ \A v \in Workers \ {w} : job'[v] = job[v]
    BY <1>1, <1>4 DEF BatchInv, TypeOK
  <1>6. TypeOK'
    <2>1. at' \in 1..(LastRound + FutureRounds + 1)
      BY <1>1, <1>2, PoolRange, Constants DEF First, Last, PoolAtWork
    <2> QED BY <1>1, <1>5, <2>1 DEF BatchInv, TypeOK
  <1>7. LoopsInBounds' /\ DataStage'
    BY <1>1, <1>2, PoolRange, Constants
    DEF BatchInv, LoopsInBounds, DataStage, First, Last, PoolAtWork, Nothing
  <1>8. JobsOfPool'
    BY <1>1, <1>2, <1>3, <1>5, PoolRange DEF BatchInv, JobsOfPool, Jobs
  <1>9. PoolProgress'
    <2>1. ASSUME NEW r \in Nat, Given(r)
          PROVE  Given(r)'
      <3>1. PICK v \in Workers : job[v] # None /\ r \in job[v].next..job[v].end
        BY <2>1 DEF Given
      <3>2. job'[v] = job[v]
        BY <1>1, <1>5, <3>1
      <3> QED BY <3>1, <3>2 DEF Given
    <2>2. ASSUME NEW r \in Nat, NextTask <= r, r < end + 1
          PROVE  Given(r)'
      <3>1. job'[w] # None /\ r \in job'[w].next..job'[w].end
        BY <1>2, <1>4, <1>5, <2>2, PoolRange, <1>1, NoneAssumption
      <3> QED BY <3>1 DEF Given
    <2>3. \A r \in Nat : r < NextTask' => r < NextTask \/ (NextTask <= r /\ r < end + 1)
      BY <1>1, <1>2, <1>3, PoolRange
    <2>4. Rounds \subseteq Nat /\ Future \subseteq Nat
      BY Constants
    <2> QED BY <1>1, <2>1, <2>2, <2>3, <2>4 DEF BatchInv, PoolProgress
  <1>10. RandomsFixed' /\ SourcesRight' /\ LoopProgress'
    BY <1>1, SameNextSecure DEF BatchInv, RandomsFixed, SourcesRight, LoopProgress, PoolAtWork
  <1>11. FullRun' /\ Published' /\ NoGap'
    BY <1>1 DEF BatchInv, FullRun, Published, NoGap, All
  <1>12. AggregatesAreSums' /\ DistributionComplete' /\ ~threw'
    BY <1>1 DEF BatchInv, AggregatesAreSums, DistributionComplete
  <1> QED BY <1>6, <1>7, <1>8, <1>9, <1>10, <1>11, <1>12 DEF BatchInv

\* A worker that has done a round keeps the others of its batch.
LEMMA AdvanceKeeps ==
    ASSUME BatchInv, PoolAtWork, NEW w \in Workers, job[w] # None, Advance(w)
    PROVE  /\ job' \in [Workers -> {None} \cup Jobs]
           /\ UNCHANGED <<pc, stages, at, unfinished>>
           /\ \A v \in Workers : job'[v] # None =>
                 job[v] # None /\ job[v].next <= job'[v].next /\ job'[v].end = job[v].end
           /\ \A r \in Nat : Given(r) => r = job[w].next \/ Given(r)'
  <1>1. /\ UNCHANGED <<pc, stages, at, unfinished>>
        /\ job' = [job EXCEPT ![w] = IF job[w].next = job[w].end THEN None
                                     ELSE [next |-> job[w].next + 1, end |-> job[w].end]]
        /\ job \in [Workers -> {None} \cup Jobs]
    BY DEF Advance, BatchInv, TypeOK
  <1>2. /\ job'[w] = IF job[w].next = job[w].end THEN None
                      ELSE [next |-> job[w].next + 1, end |-> job[w].end]
        /\ \A v \in Workers \ {w} : job'[v] = job[v]
    BY <1>1
  <1>3. /\ /\ job[w] \in Jobs /\ job[w].next \in Nat /\ job[w].end \in Nat
        /\ job[w].next <= job[w].end
        /\ job[w].next \in First..Last /\ job[w].end \in First..Last
        /\ First..Last \subseteq Rounds \cup Future /\ First \in Nat /\ Last \in Nat
    BY PoolRange
  <1>4. ASSUME job[w].next # job[w].end
        PROVE  /\ job'[w] \in Jobs
               /\ job'[w].next = job[w].next + 1 /\ job'[w].end = job[w].end
    <2>1. job'[w] = [next |-> job[w].next + 1, end |-> job[w].end]
      BY <1>2, <1>4
    <2>2. job[w].next + 1 \in First..Last /\ job[w].next + 1 <= job[w].end
      BY <1>3, <1>4
    <2>3. job[w].next + 1 \in Rounds \cup Future /\ job[w].end \in Rounds \cup Future
      BY <1>3, <2>2
    <2> QED BY <2>1, <2>2, <2>3 DEF Jobs
  <1>5. job' \in [Workers -> {None} \cup Jobs]
    BY <1>1, <1>2, <1>4
  <1>6. \A v \in Workers : job'[v] # None =>
            job[v] # None /\ job[v].next <= job'[v].next /\ job'[v].end = job[v].end
    <2>1. ASSUME NEW v \in Workers, job'[v] # None
          PROVE  job[v] # None /\ job[v].next <= job'[v].next /\ job'[v].end = job[v].end
      <3>1. CASE v = w
        BY <1>2, <1>3, <1>4, <2>1, <3>1
      <3>2. CASE v # w
        <4>1. job'[v] = job[v] /\ job[v].next \in First..Last
          BY <1>2, <2>1, <3>2, PoolRange
        <4> QED BY <1>3, <2>1, <4>1
      <3> QED BY <3>1, <3>2
    <2> QED BY <2>1
  <1>7. ASSUME NEW r \in Nat, Given(r), r # job[w].next
        PROVE  Given(r)'
    <2>1. PICK v \in Workers : job[v] # None /\ r \in job[v].next..job[v].end
      BY <1>7 DEF Given
    <2>2. CASE v = w
      <3>1. job[w].next # job[w].end /\ r \in (job[w].next + 1)..job[w].end
        BY <1>3, <1>7, <2>1, <2>2
      <3>2. job'[w] # None /\ r \in job'[w].next..job'[w].end
        BY <1>4, <3>1, NoneAssumption
      <3> QED BY <3>2 DEF Given
    <2>3. CASE v # w
      BY <1>2, <2>1, <2>3 DEF Given
    <2> QED BY <2>2, <2>3
  <1> QED BY <1>1, <1>5, <1>6, <1>7

\* The batches of the pool stay within the rounds given out.
LEMMA JobsAdvance ==
    ASSUME BatchInv, PoolAtWork, NEW w \in Workers, job[w] # None, Advance(w)
    PROVE  JobsOfPool'
  <1>1. UNCHANGED <<pc, at>> /\ UNCHANGED <<First, NextTask>> /\ (PoolAtWork)'
    BY AdvanceKeeps DEF First, NextTask, PoolAtWork
  <1>2. ASSUME NEW v \in Workers, job'[v] # None
        PROVE  First <= job'[v].next /\ job'[v].end < NextTask
    <2>1. job[v] # None /\ job[v].next <= job'[v].next /\ job'[v].end = job[v].end
      BY <1>2, AdvanceKeeps
    <2>2. job'[v] \in Jobs
      BY <1>2, AdvanceKeeps
    <2>3. job'[v].next \in Nat
      BY <2>2, Constants DEF Jobs
    <2> QED BY <2>1, <2>3, PoolRange
  <1> QED BY <1>1, <1>2 DEF JobsOfPool

\* A worker writes the data of its round.
LEMMA WriteDataStep ==
    ASSUME BatchInv, NEW w \in Workers, WriteData(w)
    PROVE  BatchInv'
  <1> DEFINE r == job[w].next
  <1>1. /\ pc \in {"working", "temp"} /\ job[w] # None /\ Advance(w) /\ PoolAtWork
        /\ pc = "working" => file' = [file EXCEPT !.data[r] = Unfixed]
        /\ pc = "temp" => file' = [file EXCEPT !.temp = file.temp \cup {r}]
        /\ UNCHANGED <<secure, pc, stages, at, unfinished, threw, kills, runs>>
    BY DEF WriteData, Write, Advance, history, PoolAtWork
  <1>2. /\ r \in Nat
        /\ pc = "working" => r \in Rounds
        /\ pc = "temp" => r \in Future
    BY <1>1, PoolRange
  <1>3. file \in Files /\ file.temp \subseteq Future /\ Unfixed \in Sources
    BY DEF BatchInv, TypeOK, Files, Sources
  <1> HIDE DEF r
  <1>4. /\ file' \in Files /\ file'.status = file.status /\ file'.offers = file.offers
        /\ file'.claims = file.claims /\ file'.aggregates = file.aggregates
        /\ file'.final = file.final /\ file'.distribution = file.distribution
        /\ pc = "working" => file'.data = [file.data EXCEPT ![r] = Unfixed]
        /\ pc = "temp" => file'.data = file.data /\ file'.temp = file.temp \cup {r}
    <2>1. CASE pc = "working"
      BY <1>1, <1>2, <1>3, <2>1, WritingData
    <2>2. CASE pc = "temp"
      BY <1>1, <1>2, <1>3, <2>2, WritingTemp
    <2> QED BY <1>1, <2>1, <2>2
  <1>5. file.data \in [Rounds -> {None} \cup Sources]
    BY <1>3 DEF Files
  <1>6. TypeOK'
    BY <1>1, <1>4, AdvanceKeeps DEF BatchInv, TypeOK
  <1>7. JobsOfPool'
    BY <1>1, JobsAdvance
  <1>8. LoopsInBounds' /\ DataStage'
    BY <1>1, <1>4 DEF BatchInv, LoopsInBounds, DataStage, Nothing
  <1>9. RandomsFixed' /\ SourcesRight' /\ LoopProgress'
    BY <1>1, <1>2, <1>4, <1>5, SameNextSecure
    DEF BatchInv, RandomsFixed, DataStage, SourcesRight, LoopProgress
  <1>10. PoolProgress'
    <2>1. NextTask' = NextTask /\ Rounds \subseteq Nat /\ Future \subseteq Nat
      BY <1>1, Constants DEF NextTask, First
    <2>2. \A q \in Nat : Given(q) => q = r \/ Given(q)'
      BY <1>1, AdvanceKeeps DEF r
    <2>3. ASSUME pc = "working", NEW q \in Rounds, q < NextTask
          PROVE  file'.data[q] # None \/ Given(q)'
      BY <1>2, <1>4, <1>5, <2>1, <2>2, <2>3, Constants DEF BatchInv, PoolProgress
    <2>4. ASSUME pc = "temp", NEW q \in Future, q < NextTask
          PROVE  q \in file'.temp \/ Given(q)'
      BY <1>4, <2>1, <2>2, <2>4 DEF BatchInv, PoolProgress
    <2> QED BY <1>1, <2>1, <2>3, <2>4 DEF PoolProgress
  <1>11. FullRun' /\ Published' /\ NoGap'
    BY <1>1, <1>4 DEF BatchInv, FullRun, Published, NoGap, All
  <1>12. AggregatesAreSums' /\ DistributionComplete' /\ ~threw'
    BY <1>1, <1>4 DEF BatchInv, AggregatesAreSums, DistributionComplete
  <1> QED BY <1>6, <1>7, <1>8, <1>9, <1>10, <1>11, <1>12 DEF BatchInv

\* Claims are written from the offers; those that exist do not change.
LEMMA ClaimsWritten ==
    ASSUME BatchInv, NEW w \in Workers, WriteClaims(w), ~Throw
    PROVE  /\ pc = "claiming" /\ job[w] # None /\ Advance(w) /\ PoolAtWork
           /\ job[w].next \in Rounds /\ file.offers[job[w].next] = NextSecure(job[w].next)
           /\ file.offers[job[w].next] # None
           /\ file' \in Files
           /\ file'.claims = [file.claims EXCEPT ![job[w].next] = NextSecure(job[w].next)]
           /\ file'.status = file.status /\ file'.data = file.data /\ file'.temp = file.temp
           /\ file'.offers = file.offers /\ file'.aggregates = file.aggregates
           /\ file'.final = file.final /\ file'.distribution = file.distribution
           /\ \A q \in Rounds : file.claims[q] # None => file'.claims[q] = file.claims[q]
           /\ UNCHANGED <<secure, pc, stages, at, unfinished, threw, kills, runs>>
  <1> DEFINE r == job[w].next
             v == file.offers[r]
  <1>1. /\ pc = "claiming" /\ job[w] # None /\ Advance(w) /\ PoolAtWork
        /\ v # None /\ file' = [file EXCEPT !.claims[r] = v]
        /\ UNCHANGED <<secure, pc, stages, at, unfinished, threw, kills, runs>>
    BY DEF WriteClaims, Write, Advance, history, PoolAtWork
  <1>2. r \in Rounds
    BY <1>1, PoolRange
  <1> HIDE DEF r
  <1>3. v = NextSecure(r) /\ v \in {None} \cup Sources /\ file \in Files
    BY <1>1, <1>2 DEF BatchInv, TypeOK, Files, SourcesRight
  <1> HIDE DEF v
  <1>4. /\ file' \in Files /\ file'.claims = [file.claims EXCEPT ![r] = v]
        /\ file'.status = file.status /\ file'.data = file.data /\ file'.temp = file.temp
        /\ file'.offers = file.offers /\ file'.aggregates = file.aggregates
        /\ file'.final = file.final /\ file'.distribution = file.distribution
    BY <1>1, <1>2, <1>3 DEF Files
  <1>5. \A q \in Rounds : file.claims[q] # None => file'.claims[q] = file.claims[q]
    BY <1>2, <1>3, <1>4 DEF BatchInv, SourcesRight, Files
  <1> QED BY <1>1, <1>2, <1>3, <1>4, <1>5 DEF r, v

\* A worker writes claims, or throws in a run that left stages out.
LEMMA WriteClaimsStep ==
    ASSUME BatchInv, NEW w \in Workers, WriteClaims(w)
    PROVE  BatchInv'
  <1>1. CASE Throw
    <2>1. pc = "claiming" /\ job[w].next \in Rounds
      BY PoolRange DEF WriteClaims, PoolAtWork
    <2>2. CASE stages # AllStages
      BY <1>1, <2>1, <2>2, ThrowStep
    <2>3. CASE stages = AllStages
      <3>1. file.offers[job[w].next] # None /\ file.data[job[w].next] # None
        BY <2>1, <2>3 DEF BatchInv, FullRun, All
      <3>2. Advance(w)
        BY <3>1 DEF WriteClaims
      <3> QED BY <1>1, <2>1, <3>2 DEF Throw, Advance
    <2> QED BY <2>2, <2>3
  <1>2. CASE ~Throw
    <2> DEFINE r == job[w].next
    <2>1. /\ pc = "claiming" /\ job[w] # None /\ Advance(w) /\ PoolAtWork /\ r \in Rounds
          /\ file' \in Files /\ file'.claims = [file.claims EXCEPT ![r] = NextSecure(r)]
          /\ NextSecure(r) # None
          /\ file'.status = file.status /\ file'.data = file.data /\ file'.temp = file.temp
          /\ file'.offers = file.offers /\ file'.aggregates = file.aggregates
          /\ file'.final = file.final /\ file'.distribution = file.distribution
          /\ UNCHANGED <<secure, pc, stages, at, unfinished, threw, kills, runs>>
      BY <1>2, ClaimsWritten
    <2>2. \A q \in Rounds : file.claims[q] # None => file'.claims[q] = file.claims[q]
      BY <1>2, ClaimsWritten
    <2>3. /\ file.claims \in [Rounds -> {None} \cup Sources]
          /\ file'.claims \in [Rounds -> {None} \cup Sources]
      BY <2>1 DEF BatchInv, TypeOK, Files
    <2> HIDE DEF r
    <2>4. All(file.claims) => file'.claims = file.claims
      BY <2>2, <2>3 DEF All
    <2>5. TypeOK'
      BY <2>1, AdvanceKeeps DEF BatchInv, TypeOK
    <2>6. JobsOfPool'
      BY <2>1, JobsAdvance
    <2>7. LoopsInBounds' /\ DataStage'
      BY <2>1 DEF BatchInv, LoopsInBounds, DataStage, Nothing
    <2>8. RandomsFixed' /\ LoopProgress'
      BY <2>1, SameNextSecure DEF BatchInv, RandomsFixed, LoopProgress
    <2>9. SourcesRight'
      BY <2>1, <2>3, SameNextSecure DEF BatchInv, SourcesRight
    <2>10. PoolProgress'
      <3>1. NextTask' = NextTask /\ Rounds \subseteq Nat
        BY <2>1, Constants DEF NextTask, First
      <3>2. \A q \in Nat : Given(q) => q = r \/ Given(q)'
        BY <2>1, AdvanceKeeps DEF r
      <3>3. ASSUME NEW q \in Rounds, q < NextTask
            PROVE  file'.claims[q] # None \/ Given(q)'
        BY <2>1, <2>3, <3>1, <3>2, <3>3 DEF BatchInv, PoolProgress
      <3> QED BY <2>1, <3>1, <3>3 DEF PoolProgress
    <2>11. FullRun' /\ NoGap'
      BY <2>1 DEF BatchInv, FullRun, NoGap, All
    <2>12. Published'
      BY <2>1, <2>4 DEF BatchInv, Published, All
    <2>13. AggregatesAreSums'
      <3>1. ASSUME NEW q \in Rounds, file'.aggregates[q] # None
            PROVE  /\ file'.aggregates[q] = [p \in 1..q |-> file'.claims[p]]
                   /\ \A p \in 1..q : file'.claims[p] # None
        <4>1. /\ file.aggregates[q] = [p \in 1..q |-> file.claims[p]]
              /\ \A p \in 1..q : file.claims[p] # None
          BY <2>1, <3>1 DEF BatchInv, AggregatesAreSums
        <4>2. \A p \in 1..q : p \in Rounds
          BY Constants DEF Rounds
        <4> QED BY <2>1, <2>2, <4>1, <4>2
      <3> QED BY <3>1 DEF AggregatesAreSums
    <2>14. DistributionComplete' /\ ~threw'
      BY <2>1, <2>4 DEF BatchInv, DistributionComplete, Published
    <2> QED BY <2>5, <2>6, <2>7, <2>8, <2>9, <2>10, <2>11, <2>12, <2>13, <2>14 DEF BatchInv
  <1> QED BY <1>1, <1>2

\* When the pool is done every round is.
LEMMA AllDone ==
    ASSUME BatchInv, PoolAtWork, PoolDone
    PROVE  /\ pc = "working" => \A r \in Rounds : file.data[r] = Unfixed
           /\ pc = "temp" => Future \subseteq file.temp
           /\ pc = "claiming" => All(file.claims)
  <1>1. \A r : ~Given(r)
    BY DEF PoolDone, Given, Idle
  <1>2. \A r \in First..Last : r < NextTask
    BY PoolRange DEF PoolDone
  <1>3. First..Last = IF pc = "temp" THEN Future ELSE Rounds
    BY PoolRange
  <1> QED BY <1>1, <1>2, <1>3 DEF BatchInv, PoolProgress, RandomsFixed, All

\* All rounds have data when those of the next epoch are looked at.
LEMMA DataDoneStep ==
    ASSUME BatchInv, DataDone
    PROVE  BatchInv'
  <1>1. /\ pc = "working" /\ pc' = "temp" /\ at' = 1 /\ job' = Idle
        /\ UNCHANGED <<secure, stages, unfinished, threw, kills, runs>>
    BY DEF DataDone, Write, GoTo, history
  <1>2. /\ file' \in Files /\ file'.temp = {}
        /\ file'.status = file.status /\ file'.data = file.data /\ file'.offers = file.offers
        /\ file'.claims = file.claims /\ file'.aggregates = file.aggregates
        /\ file'.final = file.final /\ file'.distribution = file.distribution
    BY WritingTemp DEF BatchInv, TypeOK, DataDone, Write
  <1>3. \A r \in Rounds : file.data[r] = Unfixed
    BY <1>1, AllDone DEF DataDone, PoolAtWork
  <1>4. TypeOK'
    BY <1>1, <1>2, Constants DEF BatchInv, TypeOK, Idle
  <1>5. LoopsInBounds' /\ JobsOfPool' /\ DataStage'
    BY <1>1, <1>2, Constants DEF BatchInv, LoopsInBounds, JobsOfPool, DataStage, Idle, Nothing
  <1>6. RandomsFixed' /\ SourcesRight' /\ LoopProgress'
    BY <1>1, <1>2, <1>3, SameNextSecure
    DEF BatchInv, RandomsFixed, SourcesRight, LoopProgress, DataStage
  <1>7. PoolProgress'
    BY <1>1, Constants DEF PoolProgress, NextTask, First, Future
  <1>8. FullRun' /\ Published' /\ NoGap'
    BY <1>1, <1>2 DEF BatchInv, FullRun, Published, NoGap, All
  <1>9. AggregatesAreSums' /\ DistributionComplete' /\ ~threw'
    BY <1>1, <1>2 DEF BatchInv, AggregatesAreSums, DistributionComplete
  <1> QED BY <1>4, <1>5, <1>6, <1>7, <1>8, <1>9 DEF BatchInv

\* All later rounds are there when random numbers are fixed.
LEMMA TempDoneStep ==
    ASSUME BatchInv, TempDone
    PROVE  BatchInv'
  <1>1. /\ pc = "temp" /\ pc' = "fix" /\ at' = 1 /\ job' = Idle
        /\ UNCHANGED <<secure, file, stages, unfinished, threw, kills, runs>>
    BY DEF TempDone, Write, GoTo, history
  <1>2. Future \subseteq file.temp
    BY <1>1, AllDone DEF TempDone, PoolAtWork
  <1>3. TypeOK'
    BY <1>1, Constants DEF BatchInv, TypeOK, Idle
  <1>4. LoopsInBounds' /\ JobsOfPool' /\ DataStage'
    BY <1>1, Constants DEF BatchInv, LoopsInBounds, JobsOfPool, DataStage, Idle, Nothing
  <1>5. RandomsFixed' /\ SourcesRight' /\ PoolProgress' /\ LoopProgress'
    BY <1>1, <1>2, SameNextSecure, Constants
    DEF BatchInv, RandomsFixed, SourcesRight, PoolProgress, LoopProgress, DataStage, Rounds
  <1>6. FullRun' /\ Published' /\ NoGap'
    BY <1>1 DEF BatchInv, FullRun, Published, NoGap, All
  <1>7. AggregatesAreSums' /\ DistributionComplete' /\ ~threw'
    BY <1>1 DEF BatchInv, AggregatesAreSums, DistributionComplete
  <1> QED BY <1>3, <1>4, <1>5, <1>6, <1>7 DEF BatchInv

\* The random number of a round is fixed, to the last that has one.
LEMMA FixStep ==
    ASSUME BatchInv, Fix
    PROVE  BatchInv'
  <1>1. /\ pc = "fix" /\ unfinished /\ Future \subseteq file.temp /\ at \in Nat \ {0}
        /\ \A r \in Rounds : file.data[r] = IF r < at THEN NextSecure(r) ELSE Unfixed
    BY Constants DEF Fix, BatchInv, RandomsFixed, DataStage, TypeOK
  <1>2. \A r \in Rounds : NextSecure(r) \in Sources /\ NextSecure(r) # None
    BY NextSecureFirst, NoneAssumption DEF BatchInv, TypeOK
  <1>3. ~((\E r \in Rounds : file.data[r] = None) \/ (\E r \in Future : r \notin file.temp))
    BY <1>1, <1>2, Constants
  <1>4. CASE at <= LastRound /\ NextSecure(at) # Unfixed
    <2> DEFINE v == NextSecure(at)
    <2>1. /\ at \in Rounds /\ v \in Sources /\ file' = [file EXCEPT !.data[at] = v]
          /\ at' = at + 1
          /\ UNCHANGED <<secure, pc, stages, job, unfinished, threw, kills, runs>>
      BY <1>1, <1>2, <1>3, <1>4, Constants DEF Fix, Write, Repeat, history, Rounds
    <2> HIDE DEF v
    <2>2. file \in Files
      BY DEF BatchInv, TypeOK
    <2>3. /\ file' \in Files /\ file'.data = [file.data EXCEPT ![at] = v]
          /\ file'.status = file.status /\ file'.temp = file.temp /\ file'.offers = file.offers
          /\ file'.claims = file.claims /\ file'.aggregates = file.aggregates
          /\ file'.final = file.final /\ file'.distribution = file.distribution
      BY <2>1, <2>2 DEF Files
    <2>4. file.data \in [Rounds -> {None} \cup Sources]
      BY <2>2 DEF Files
    <2>5. TypeOK'
      BY <1>1, <1>4, <2>1, <2>3, Constants DEF BatchInv, TypeOK
    <2>6. LoopsInBounds' /\ JobsOfPool' /\ DataStage'
      BY <1>1, <1>4, <2>1, <2>3, Constants
      DEF BatchInv, LoopsInBounds, JobsOfPool, PoolAtWork, DataStage, Nothing
    <2>7. RandomsFixed'
      <3>1. \A r \in Rounds : file'.data[r] = IF r < at + 1 THEN NextSecure(r) ELSE Unfixed
        BY <1>1, <2>1, <2>3, <2>4, Constants DEF v
      <3> QED BY <1>1, <2>1, <2>3, <3>1, SameNextSecure DEF RandomsFixed
    <2>8. SourcesRight' /\ PoolProgress' /\ LoopProgress'
      BY <1>1, <2>1, <2>3, SameNextSecure DEF BatchInv, SourcesRight, PoolProgress, LoopProgress
    <2>9. FullRun' /\ Published' /\ NoGap'
      BY <1>1, <2>1, <2>3 DEF BatchInv, FullRun, Published, NoGap, All
    <2>10. AggregatesAreSums' /\ DistributionComplete' /\ ~threw'
      BY <2>1, <2>3 DEF BatchInv, AggregatesAreSums, DistributionComplete
    <2> QED BY <2>5, <2>6, <2>7, <2>8, <2>9, <2>10 DEF BatchInv
  <1>5. CASE ~(at <= LastRound /\ NextSecure(at) # Unfixed)
    <2>1. /\ pc' = "appearances" /\ at' = 1 /\ job' = Idle
          /\ UNCHANGED <<secure, file, stages, unfinished, threw, kills, runs>>
      BY <1>3, <1>5 DEF Fix, Write, GoTo, history
    <2>2. \A r \in Rounds : file.data[r] = NextSecure(r)
      <3>1. CASE at > LastRound
        BY <1>1, <3>1, Constants DEF Rounds
      <3>2. CASE at \in Rounds /\ NextSecure(at) = Unfixed
        <4>1. ASSUME NEW r \in Rounds, at <= r
              PROVE  NextSecure(r) = Unfixed
          BY <3>2, <4>1, NextSecureUnfixed DEF BatchInv, TypeOK
        <4> QED BY <1>1, <4>1, Constants
      <3> QED BY <1>1, <1>5, <3>1, <3>2, Constants DEF Rounds
    <2>3. TypeOK'
      BY <2>1, Constants DEF BatchInv, TypeOK, Idle
    <2>4. LoopsInBounds' /\ JobsOfPool' /\ DataStage'
      BY <1>1, <2>1, Constants DEF BatchInv, LoopsInBounds, JobsOfPool, DataStage, Idle, Nothing
    <2>5. RandomsFixed' /\ SourcesRight' /\ PoolProgress' /\ LoopProgress'
      BY <1>1, <2>1, <2>2, SameNextSecure
      DEF BatchInv, RandomsFixed, SourcesRight, PoolProgress, LoopProgress
    <2>6. FullRun' /\ Published' /\ NoGap'
      BY <1>1, <2>1 DEF BatchInv, FullRun, Published, NoGap, All
    <2>7. AggregatesAreSums' /\ DistributionComplete' /\ ~threw'
      BY <2>1 DEF BatchInv, AggregatesAreSums, DistributionComplete
    <2> QED BY <2>3, <2>4, <2>5, <2>6, <2>7 DEF BatchInv
  <1> QED BY <1>4, <1>5

\* The data stage ends with every random number right.
LEMMA DestroyTempStep ==
    ASSUME BatchInv, DestroyTemp
    PROVE  BatchInv'
  <1>1. /\ pc = "appearances" /\ unfinished /\ pc' = After("data") /\ at' = 1 /\ job' = Idle
        /\ unfinished' = FALSE
        /\ UNCHANGED <<secure, stages, threw, kills, runs>>
    BY DEF DestroyTemp, Write, GoTo, history, BatchInv, DataStage
  <1>2. /\ pc' \in {"idle", "offers", "claims", "aggregate"}
        /\ stages = AllStages => pc' = "offers"
    BY <1>1, AfterStage
  <1>3. /\ file' \in Files /\ file'.temp = {}
        /\ file'.status = file.status /\ file'.data = file.data /\ file'.offers = file.offers
        /\ file'.claims = file.claims /\ file'.aggregates = file.aggregates
        /\ file'.final = file.final /\ file'.distribution = file.distribution
    <2>1. file' = [file EXCEPT !.temp = {}] /\ file \in Files
      BY DEF BatchInv, TypeOK, DestroyTemp, Write
    <2> QED BY <2>1, WritingTemp
  <1>4. /\ \A r \in Rounds : file.data[r] = NextSecure(r) /\ file.data[r] # None
        /\ file.final = None
    <2>1. \A r \in Rounds : NextSecure(r) # None
      BY NextSecureFirst, NoneAssumption DEF BatchInv, TypeOK
    <2> QED BY <1>1, <2>1 DEF BatchInv, RandomsFixed, DataStage
  <1>5. TypeOK'
    <2>1. pc' \in AllStages \cup {"idle"}
      BY <1>2 DEF AllStages
    <2>2. unfinished' \in BOOLEAN
      BY <1>1
    <2> QED BY <1>1, <1>3, <2>1, <2>2, Constants DEF BatchInv, TypeOK, Idle
  <1>6. LoopsInBounds' /\ JobsOfPool' /\ DataStage'
    BY <1>1, <1>2, <1>3, Constants DEF LoopsInBounds, JobsOfPool, DataStage, Idle
  <1>7. RandomsFixed' /\ SourcesRight' /\ PoolProgress' /\ LoopProgress'
    BY <1>1, <1>2, <1>3, <1>4, SameNextSecure, Constants
    DEF BatchInv, RandomsFixed, SourcesRight, PoolProgress, LoopProgress, Rounds
  <1>8. FullRun' /\ Published' /\ NoGap'
    BY <1>1, <1>2, <1>3, <1>4 DEF BatchInv, FullRun, Published, NoGap, All
  <1>9. AggregatesAreSums' /\ DistributionComplete' /\ ~threw'
    BY <1>1, <1>3 DEF BatchInv, AggregatesAreSums, DistributionComplete
  <1> QED BY <1>5, <1>6, <1>7, <1>8, <1>9 DEF BatchInv

\* Offers are of the random number of the round's data.
LEMMA WriteOffersStep ==
    ASSUME BatchInv, WriteOffers
    PROVE  BatchInv'
  <1>1. /\ pc = "offers" /\ ~unfinished /\ at \in Nat \ {0} /\ at <= LastRound + 1
        /\ stages = AllStages => All(file.data)
    BY Constants DEF WriteOffers, BatchInv, DataStage, TypeOK, LoopsInBounds, FullRun
  <1>2. CASE \E r \in Rounds : file.data[r] = None
    BY <1>1, <1>2, ThrowStep DEF WriteOffers, All
  <1>3. CASE (\A r \in Rounds : file.data[r] # None) /\ at <= LastRound
    <2> DEFINE v == file.data[at]
    <2>1. /\ at \in Rounds /\ file' = [file EXCEPT !.offers[at] = v] /\ at' = at + 1
          /\ UNCHANGED <<secure, pc, stages, job, unfinished, threw, kills, runs>>
      BY <1>1, <1>3, Constants DEF WriteOffers, Write, Repeat, history, Rounds
    <2>2. /\ v = NextSecure(at) /\ v # None /\ v \in {None} \cup Sources
          /\ file \in Files /\ file.offers \in [Rounds -> {None} \cup Sources]
      BY <1>1, <1>3, <2>1 DEF BatchInv, RandomsFixed, TypeOK, Files
    <2> HIDE DEF v
    <2>3. /\ file' \in Files /\ file'.offers = [file.offers EXCEPT ![at] = v]
          /\ file'.status = file.status /\ file'.temp = file.temp /\ file'.data = file.data
          /\ file'.claims = file.claims /\ file'.aggregates = file.aggregates
          /\ file'.final = file.final /\ file'.distribution = file.distribution
      BY <2>1, <2>2 DEF Files
    <2>4. TypeOK'
      BY <1>1, <1>3, <2>1, <2>3, Constants DEF BatchInv, TypeOK
    <2>5. LoopsInBounds' /\ JobsOfPool' /\ DataStage'
      BY <1>1, <1>3, <2>1, <2>3, Constants
      DEF BatchInv, LoopsInBounds, JobsOfPool, PoolAtWork, DataStage
    <2>6. RandomsFixed' /\ PoolProgress'
      BY <1>1, <2>1, <2>3, SameNextSecure DEF BatchInv, RandomsFixed, PoolProgress
    <2>7. SourcesRight' /\ LoopProgress'
      BY <1>1, <2>1, <2>2, <2>3, SameNextSecure, Constants
      DEF BatchInv, SourcesRight, LoopProgress
    <2>8. FullRun' /\ Published' /\ NoGap'
      BY <1>1, <2>1, <2>3 DEF BatchInv, FullRun, Published, NoGap, All
    <2>9. AggregatesAreSums' /\ DistributionComplete' /\ ~threw'
      BY <2>1, <2>3 DEF BatchInv, AggregatesAreSums, DistributionComplete
    <2> QED BY <2>4, <2>5, <2>6, <2>7, <2>8, <2>9 DEF BatchInv
  <1>4. CASE (\A r \in Rounds : file.data[r] # None) /\ ~(at <= LastRound)
    <2>1. /\ pc' = After("offers") /\ at' = 1 /\ job' = Idle
          /\ UNCHANGED <<secure, file, stages, unfinished, threw, kills, runs>>
      BY <1>4 DEF WriteOffers, Write, GoTo, history
    <2>2. /\ pc' \in {"idle", "claims", "aggregate"}
          /\ stages = AllStages => pc' = "claims"
      BY <2>1, AfterStage
    <2>3. All(file.offers)
      BY <1>1, <1>4, Constants DEF BatchInv, LoopProgress, All, Rounds
    <2>4. TypeOK'
      BY <2>1, <2>2, Constants DEF BatchInv, TypeOK, Idle, AllStages
    <2>5. LoopsInBounds' /\ JobsOfPool' /\ DataStage'
      BY <1>1, <2>1, <2>2, Constants DEF LoopsInBounds, JobsOfPool, DataStage, Idle
    <2>6. RandomsFixed' /\ SourcesRight' /\ PoolProgress' /\ LoopProgress'
      BY <1>1, <2>1, <2>2, SameNextSecure, Constants
      DEF BatchInv, RandomsFixed, SourcesRight, PoolProgress, LoopProgress, Rounds
    <2>7. FullRun' /\ Published' /\ NoGap'
      BY <1>1, <2>1, <2>2, <2>3 DEF BatchInv, FullRun, Published, NoGap, All
    <2>8. AggregatesAreSums' /\ DistributionComplete' /\ ~threw'
      BY <2>1 DEF BatchInv, AggregatesAreSums, DistributionComplete
    <2> QED BY <2>4, <2>5, <2>6, <2>7, <2>8 DEF BatchInv
  <1> QED BY <1>2, <1>3, <1>4

\* The pool starts on the claims.
LEMMA BeginClaimsStep ==
    ASSUME BatchInv, BeginClaims
    PROVE  BatchInv'
  <1>1. /\ pc = "claims" /\ pc' = "claiming" /\ at' = 1 /\ job' = Idle
        /\ UNCHANGED <<secure, file, stages, unfinished, threw, kills, runs>>
    BY DEF BeginClaims, Write, GoTo, history
  <1>2. TypeOK'
    BY <1>1, Constants DEF BatchInv, TypeOK, Idle
  <1>3. LoopsInBounds' /\ JobsOfPool' /\ DataStage'
    BY <1>1, Constants DEF BatchInv, LoopsInBounds, JobsOfPool, DataStage, Idle
  <1>4. RandomsFixed' /\ SourcesRight' /\ PoolProgress' /\ LoopProgress'
    BY <1>1, SameNextSecure, Constants
    DEF BatchInv, RandomsFixed, SourcesRight, PoolProgress, LoopProgress, NextTask, First,
        Rounds, DataStage
  <1>5. FullRun' /\ Published' /\ NoGap'
    BY <1>1 DEF BatchInv, FullRun, Published, NoGap, All
  <1>6. AggregatesAreSums' /\ DistributionComplete' /\ ~threw'
    BY <1>1 DEF BatchInv, AggregatesAreSums, DistributionComplete
  <1> QED BY <1>2, <1>3, <1>4, <1>5, <1>6 DEF BatchInv

\* All claims are there when they are aggregated.
LEMMA ClaimsDoneStep ==
    ASSUME BatchInv, ClaimsDone
    PROVE  BatchInv'
  <1>1. /\ pc = "claiming" /\ ~unfinished /\ pc' = After("claims") /\ at' = 1 /\ job' = Idle
        /\ UNCHANGED <<secure, file, stages, unfinished, threw, kills, runs>>
    BY DEF ClaimsDone, Write, GoTo, history, BatchInv, DataStage
  <1>2. pc' \in {"idle", "aggregate"}
    BY <1>1, AfterStage
  <1>3. All(file.claims)
    BY <1>1, AllDone DEF ClaimsDone, PoolAtWork
  <1>4. TypeOK'
    BY <1>1, <1>2, Constants DEF BatchInv, TypeOK, Idle, AllStages
  <1>5. LoopsInBounds' /\ JobsOfPool' /\ DataStage'
    BY <1>1, <1>2, Constants DEF LoopsInBounds, JobsOfPool, DataStage, Idle
  <1>6. RandomsFixed' /\ SourcesRight' /\ PoolProgress' /\ LoopProgress'
    BY <1>1, <1>2, SameNextSecure, Constants
    DEF BatchInv, RandomsFixed, SourcesRight, PoolProgress, LoopProgress, Rounds
  <1>7. FullRun' /\ Published' /\ NoGap'
    BY <1>1, <1>2, <1>3 DEF BatchInv, FullRun, Published, NoGap, All
  <1>8. AggregatesAreSums' /\ DistributionComplete' /\ ~threw'
    BY <1>1 DEF BatchInv, AggregatesAreSums, DistributionComplete
  <1> QED BY <1>4, <1>5, <1>6, <1>7, <1>8 DEF BatchInv

-----------------------------------------------------------------------------
(* The last stage *)

\* One more round added to the sum of the rounds before it.
LEMMA OneMoreRound ==
    ASSUME NEW r \in Nat, NEW f, NEW s, s = [q \in 1..r |-> f[q]],
           \A q \in 1..(r + 1) : f[q] \in Sources
    PROVE  /\ Append(s, f[r + 1]) = [q \in 1..(r + 1) |-> f[q]]
           /\ Append(s, f[r + 1]) \in Seq(Sources)
  <1>1. s \in Seq(Sources) /\ Len(s) = r
    OBVIOUS
  <1> DEFINE t == Append(s, f[r + 1])
  <1>2. t \in Seq(Sources) /\ Len(t) = r + 1
    BY <1>1
  <1>3. \A q \in 1..(r + 1) : t[q] = f[q]
    BY <1>1
  <1> HIDE DEF t
  <1>4. t = [q \in 1..(r + 1) |-> f[q]]
    BY <1>2, <1>3
  <1> QED BY <1>2, <1>4 DEF t

\* What aggregation writes for a round is the sum of the claims up to it.
LEMMA AggregateIsSum ==
    ASSUME BatchInv, NEW r \in Rounds, ~AggregateThrows(r)
    PROVE  /\ Aggregate(r) = [q \in 1..r |-> file.claims[q]]
           /\ Aggregate(r) \in Seq(Sources)
           /\ \A q \in 1..r : file.claims[q] # None
  <1>1. file.claims \in [Rounds -> {None} \cup Sources] /\ \A q \in 1..r : q \in Rounds
    BY Constants DEF BatchInv, TypeOK, Files, Rounds
  <1>2. \A q \in Rounds : file.aggregates[q] # None =>
            /\ file.aggregates[q] = [p \in 1..q |-> file.claims[p]]
            /\ \A p \in 1..q : file.claims[p] # None
            /\ file.aggregates[q] \in Seq(Sources)
    BY DEF BatchInv, TypeOK, Files, AggregatesAreSums
  <1>3. CASE r = 1
    <2>1. file.claims[1] # None /\ file.claims[1] \in Sources /\ Aggregate(r) = <<file.claims[1]>>
      BY <1>1, <1>3 DEF AggregateThrows, Aggregate
    <2> DEFINE f == file.claims
    <2>2. <<f[1]>> = [q \in 1..1 |-> f[q]] /\ \A q \in 1..1 : q = 1
      OBVIOUS
    <2>3. f[1] \in Sources => <<f[1]>> \in Seq(Sources)
      OBVIOUS
    <2> HIDE DEF f
    <2>4. Aggregate(r) = [q \in 1..1 |-> f[q]] /\ Aggregate(r) \in Seq(Sources)
      BY <2>1, <2>2, <2>3 DEF f
    <2> QED BY <1>3, <2>1, <2>2, <2>4 DEF f
  <1>4. CASE r # 1 /\ file.aggregates[r] # None
    BY <1>2, <1>4 DEF Aggregate
  <1>5. CASE r # 1 /\ file.aggregates[r] = None
    <2>1. /\ r - 1 \in Rounds /\ r - 1 \in Nat /\ (r - 1) + 1 = r
          /\ file.claims[r] # None /\ file.aggregates[r - 1] # None
          /\ Aggregate(r) = Append(file.aggregates[r - 1], file.claims[r])
      BY <1>5, Constants DEF AggregateThrows, Aggregate, Rounds
    <2> DEFINE p == r - 1
    <2>2. /\ file.aggregates[p] = [q \in 1..p |-> file.claims[q]]
          /\ \A q \in 1..p : file.claims[q] # None
      BY <1>2, <2>1
    <2>3. p \in Nat /\ p + 1 = r
      BY <2>1
    <2>4. \A q \in 1..(p + 1) : file.claims[q] # None /\ file.claims[q] \in Sources
      <3>1. \A q \in 1..(p + 1) : q \in 1..p \/ q = r
        BY <2>3
      <3> QED BY <1>1, <2>1, <2>2, <2>3, <3>1
    <2> HIDE DEF p
    <2>5. /\ Append(file.aggregates[p], file.claims[p + 1]) = [q \in 1..(p + 1) |-> file.claims[q]]
          /\ Append(file.aggregates[p], file.claims[p + 1]) \in Seq(Sources)
      BY <2>2, <2>3, <2>4, OneMoreRound
    <2> QED BY <2>1, <2>3, <2>4, <2>5 DEF p
  <1> QED BY <1>3, <1>4, <1>5

\* One more round is added up, or claims are missing in a run of some stages.
LEMMA WriteAggregateStep ==
    ASSUME BatchInv, WriteAggregate
    PROVE  BatchInv'
  <1>1. /\ pc = "aggregate" /\ ~unfinished /\ at \in Rounds
        /\ stages = AllStages => All(file.claims)
    BY Constants DEF WriteAggregate, BatchInv, DataStage, TypeOK, FullRun, Rounds
  <1>2. CASE AggregateThrows(at)
    <2>1. ASSUME stages = AllStages
          PROVE  FALSE
      <3>1. at > 1 => at - 1 \in Rounds /\ at - 1 < at
        BY <1>1, Constants DEF Rounds
      <3>2. at > 1 => file.aggregates[at - 1] # None
        BY <1>1, <3>1 DEF BatchInv, LoopProgress
      <3> QED BY <1>1, <1>2, <2>1, <3>2 DEF AggregateThrows, All
    <2> QED BY <1>1, <1>2, <2>1, ThrowStep DEF WriteAggregate
  <1>3. CASE ~AggregateThrows(at)
    <2> DEFINE v == Aggregate(at)
    <2>1. /\ file' = [file EXCEPT !.aggregates[at] = v] /\ at' = at + 1
          /\ UNCHANGED <<secure, pc, stages, job, unfinished, threw, kills, runs>>
      BY <1>3 DEF WriteAggregate, Write, Repeat, history
    <2>2. /\ v = [q \in 1..at |-> file.claims[q]] /\ v \in Seq(Sources)
          /\ \A q \in 1..at : file.claims[q] # None
      BY <1>1, <1>3, AggregateIsSum
    <2>3. /\ v # None /\ v \in {None} \cup Seq(Sources)
          /\ file \in Files /\ file.aggregates \in [Rounds -> {None} \cup Seq(Sources)]
      BY <2>2, NoneAssumption DEF BatchInv, TypeOK, Files
    <2> HIDE DEF v
    <2>4. /\ file' \in Files /\ file'.aggregates = [file.aggregates EXCEPT ![at] = v]
          /\ file'.status = file.status /\ file'.temp = file.temp /\ file'.data = file.data
          /\ file'.offers = file.offers /\ file'.claims = file.claims
          /\ file'.final = file.final /\ file'.distribution = file.distribution
      BY <1>1, <2>1, <2>3 DEF Files
    <2>5. /\ file'.aggregates[at] = v
          /\ \A q \in Rounds \ {at} : file'.aggregates[q] = file.aggregates[q]
      BY <1>1, <2>3, <2>4
    <2>6. TypeOK'
      BY <1>1, <2>1, <2>4, Constants DEF BatchInv, TypeOK, Rounds
    <2>7. LoopsInBounds' /\ JobsOfPool' /\ DataStage'
      BY <1>1, <2>1, <2>4, Constants
      DEF BatchInv, LoopsInBounds, JobsOfPool, PoolAtWork, DataStage, Rounds
    <2>8. RandomsFixed' /\ SourcesRight' /\ PoolProgress'
      BY <1>1, <2>1, <2>4, SameNextSecure DEF BatchInv, RandomsFixed, SourcesRight, PoolProgress
    <2>9. LoopProgress'
      <3>1. ASSUME NEW q \in Rounds, q < at + 1
            PROVE  file'.aggregates[q] # None
        <4>1. q = at \/ (q # at /\ q < at)
          BY <1>1, <3>1, Constants
        <4> QED BY <1>1, <2>3, <2>5, <4>1 DEF BatchInv, LoopProgress
      <3> QED BY <1>1, <2>1, <3>1 DEF LoopProgress
    <2>10. FullRun' /\ Published' /\ NoGap'
      BY <1>1, <2>1, <2>4 DEF BatchInv, FullRun, Published, NoGap, All
    <2>11. AggregatesAreSums'
      <3>1. ASSUME NEW q \in Rounds, file'.aggregates[q] # None
            PROVE  /\ file'.aggregates[q] = [p \in 1..q |-> file.claims[p]]
                   /\ \A p \in 1..q : file.claims[p] # None
        BY <2>2, <2>5, <3>1 DEF BatchInv, AggregatesAreSums
      <3> QED BY <2>4, <3>1 DEF AggregatesAreSums
    <2>12. DistributionComplete' /\ ~threw'
      BY <2>1, <2>4 DEF BatchInv, DistributionComplete
    <2> QED BY <2>6, <2>7, <2>8, <2>9, <2>10, <2>11, <2>12 DEF BatchInv
  <1> QED BY <1>2, <1>3

\* The status is set with all aggregates there.
LEMMA SetDoneStep ==
    ASSUME BatchInv, SetDone
    PROVE  BatchInv'
  <1>1. /\ pc = "aggregate" /\ ~unfinished /\ at > LastRound
        /\ stages = AllStages => file.status = "IN_PROGRESS"
    BY DEF SetDone, BatchInv, DataStage, FullRun
  <1>2. CASE file.status # "IN_PROGRESS"
    BY <1>1, <1>2, ThrowStep DEF SetDone
  <1>3. CASE file.status = "IN_PROGRESS"
    <2>1. /\ pc' = "final" /\ at' = 1 /\ job' = Idle
          /\ UNCHANGED <<secure, stages, unfinished, threw, kills, runs>>
      BY <1>3 DEF SetDone, Write, GoTo, history
    <2>2. /\ file' \in Files /\ file'.status = "DONE"
          /\ file'.data = file.data /\ file'.temp = file.temp /\ file'.offers = file.offers
          /\ file'.claims = file.claims /\ file'.aggregates = file.aggregates
          /\ file'.final = file.final /\ file'.distribution = file.distribution
      BY <1>3, WritingStatus DEF BatchInv, TypeOK, SetDone, Write
    <2>3. file.distribution = None
      BY <1>3 DEF BatchInv, DistributionComplete
    <2>4. file.aggregates[LastRound] # None
      BY <1>1, Constants DEF BatchInv, LoopProgress, Rounds
    <2>5. TypeOK'
      BY <2>1, <2>2, Constants DEF BatchInv, TypeOK, Idle
    <2>6. LoopsInBounds' /\ JobsOfPool' /\ DataStage'
      BY <1>1, <2>1, <2>2 DEF LoopsInBounds, JobsOfPool, DataStage, Idle
    <2>7. RandomsFixed' /\ SourcesRight' /\ PoolProgress' /\ LoopProgress'
      BY <1>1, <2>1, <2>2, SameNextSecure
      DEF BatchInv, RandomsFixed, SourcesRight, PoolProgress, LoopProgress
    <2>8. FullRun' /\ Published' /\ NoGap'
      BY <2>1, <2>2, <2>4 DEF BatchInv, FullRun, Published, NoGap, All
    <2>9. AggregatesAreSums' /\ DistributionComplete' /\ ~threw'
      BY <2>1, <2>2, <2>3 DEF BatchInv, AggregatesAreSums, DistributionComplete
    <2> QED BY <2>5, <2>6, <2>7, <2>8, <2>9 DEF BatchInv
  <1> QED BY <1>2, <1>3

\* The aggregate of the last round is of the claims of all rounds.
LEMMA LastAggregate ==
    ASSUME BatchInv, pc \in {"final", "distribute"}
    PROVE  /\ file.status = "DONE" /\ ~unfinished
           /\ file.aggregates[LastRound] = file.claims /\ All(file.claims)
           /\ file.aggregates[LastRound] \in Seq(Sources) /\ file.aggregates[LastRound] # None
  <1>1. LastRound \in Rounds /\ Rounds = 1..LastRound
    BY Constants DEF Rounds
  <1>2. file.status = "DONE" /\ ~unfinished /\ file.aggregates[LastRound] # None
    BY DEF BatchInv, Published, DataStage
  <1>3. /\ file.aggregates[LastRound] = [q \in Rounds |-> file.claims[q]]
        /\ \A q \in Rounds : file.claims[q] # None
    BY <1>1, <1>2 DEF BatchInv, AggregatesAreSums
  <1>4. /\ file.claims \in [Rounds -> {None} \cup Sources]
        /\ file.aggregates[LastRound] \in {None} \cup Seq(Sources)
    BY <1>1 DEF BatchInv, TypeOK, Files
  <1>5. file.claims = [q \in Rounds |-> file.claims[q]]
    BY <1>4
  <1> QED BY <1>2, <1>3, <1>4, <1>5 DEF All

\* The final claims are the claims of all rounds.
LEMMA WriteFinalStep ==
    ASSUME BatchInv, WriteFinal
    PROVE  BatchInv'
  <1> DEFINE v == file.aggregates[LastRound]
  <1>1. /\ pc = "final" /\ pc' = "distribute" /\ at' = 1 /\ job' = Idle
        /\ file' = [file EXCEPT !.final = v]
        /\ UNCHANGED <<secure, stages, unfinished, threw, kills, runs>>
    BY DEF WriteFinal, Write, GoTo, history
  <1>2. /\ file.status = "DONE" /\ ~unfinished /\ v = file.claims /\ All(file.claims)
        /\ v \in {None} \cup Seq(Sources) /\ v # None /\ file \in Files
    BY <1>1, LastAggregate DEF BatchInv, TypeOK
  <1> HIDE DEF v
  <1>3. /\ file' \in Files /\ file'.final = v
        /\ file'.status = file.status /\ file'.data = file.data /\ file'.temp = file.temp
        /\ file'.offers = file.offers /\ file'.claims = file.claims
        /\ file'.aggregates = file.aggregates /\ file'.distribution = file.distribution
    BY <1>1, <1>2 DEF Files
  <1>4. TypeOK'
    BY <1>1, <1>3, Constants DEF BatchInv, TypeOK, Idle
  <1>5. LoopsInBounds' /\ JobsOfPool' /\ DataStage'
    BY <1>1, <1>2, <1>3 DEF LoopsInBounds, JobsOfPool, DataStage, Idle
  <1>6. RandomsFixed' /\ SourcesRight' /\ PoolProgress' /\ LoopProgress'
    BY <1>1, <1>2, <1>3, SameNextSecure
    DEF BatchInv, RandomsFixed, SourcesRight, PoolProgress, LoopProgress
  <1>7. FullRun' /\ Published' /\ NoGap'
    BY <1>1, <1>2, <1>3 DEF BatchInv, FullRun, Published, NoGap, All, v
  <1>8. AggregatesAreSums' /\ DistributionComplete' /\ ~threw'
    BY <1>1, <1>2, <1>3 DEF BatchInv, AggregatesAreSums, DistributionComplete
  <1> QED BY <1>4, <1>5, <1>6, <1>7, <1>8 DEF BatchInv

\* The distribution is of the final claims.
LEMMA WriteDistributionStep ==
    ASSUME BatchInv, WriteDistribution
    PROVE  BatchInv'
  <1> DEFINE v == file.aggregates[LastRound]
  <1>1. /\ pc = "distribute" /\ pc' = "idle" /\ at' = 1 /\ job' = Idle
        /\ file' = [file EXCEPT !.distribution = v]
        /\ UNCHANGED <<secure, stages, unfinished, threw, kills, runs>>
    BY DEF WriteDistribution, Write, GoTo, history
  <1>2. /\ file.status = "DONE" /\ ~unfinished /\ v = file.claims /\ All(file.claims)
        /\ v \in {None} \cup Seq(Sources) /\ v # None /\ file \in Files
    BY <1>1, LastAggregate DEF BatchInv, TypeOK
  <1>3. file.final # None /\ file.final = file.claims
    BY <1>1 DEF BatchInv, Published
  <1> HIDE DEF v
  <1>4. /\ file' \in Files /\ file'.distribution = v
        /\ file'.status = file.status /\ file'.data = file.data /\ file'.temp = file.temp
        /\ file'.offers = file.offers /\ file'.claims = file.claims
        /\ file'.aggregates = file.aggregates /\ file'.final = file.final
    BY <1>1, <1>2 DEF Files
  <1>5. TypeOK'
    BY <1>1, <1>4, Constants DEF BatchInv, TypeOK, Idle
  <1>6. LoopsInBounds' /\ JobsOfPool' /\ DataStage'
    BY <1>1, <1>2, <1>4 DEF LoopsInBounds, JobsOfPool, DataStage, Idle
  <1>7. RandomsFixed' /\ SourcesRight' /\ PoolProgress' /\ LoopProgress'
    BY <1>1, <1>2, <1>4, SameNextSecure
    DEF BatchInv, RandomsFixed, SourcesRight, PoolProgress, LoopProgress
  <1>8. FullRun' /\ Published' /\ NoGap'
    BY <1>1, <1>2, <1>3, <1>4 DEF BatchInv, FullRun, Published, NoGap, All
  <1>9. AggregatesAreSums' /\ DistributionComplete' /\ ~threw'
    BY <1>1, <1>2, <1>3, <1>4 DEF BatchInv, AggregatesAreSums, DistributionComplete
  <1> QED BY <1>5, <1>6, <1>7, <1>8, <1>9 DEF BatchInv

-----------------------------------------------------------------------------
(* The invariant *)

\* There are no files in the beginning.
LEMMA InitHolds == BatchInit => BatchInv
  <1> SUFFICES ASSUME BatchInit
               PROVE  BatchInv
    OBVIOUS
  <1>1. /\ secure \subseteq Rounds \cup Future
        /\ pc = "idle" /\ stages = {} /\ at = 1 /\ job = Idle
        /\ unfinished = FALSE /\ threw = FALSE /\ kills = 0 /\ runs = 0
    BY DEF BatchInit
  <1>2. /\ file \in Files
        /\ file.status = None /\ file.data = Nothing /\ file.offers = Nothing
        /\ file.claims = Nothing /\ file.aggregates = Nothing /\ file.final = None
        /\ file.distribution = None
    BY NoFilesEmpty DEF BatchInit
  <1>3. TypeOK
    <2>1. unfinished \in BOOLEAN /\ threw \in BOOLEAN
      BY <1>1
    <2>2. stages \subseteq AllStages /\ job \in [Workers -> {None} \cup Jobs]
      BY <1>1 DEF Idle
    <2>3. at \in 1..(LastRound + FutureRounds + 1) /\ kills \in 0..MaxKills /\ runs \in 0..MaxRuns
      BY <1>1, Constants
    <2> QED BY <1>1, <1>2, <2>1, <2>2, <2>3 DEF TypeOK
  <1>4. LoopsInBounds /\ JobsOfPool /\ DataStage
    BY <1>1 DEF LoopsInBounds, JobsOfPool, DataStage, Idle
  <1>5. RandomsFixed /\ SourcesRight /\ PoolProgress /\ LoopProgress
    BY <1>1, <1>2 DEF RandomsFixed, SourcesRight, PoolProgress, LoopProgress, Nothing
  <1>6. FullRun /\ Published /\ NoGap
    BY <1>1, <1>2, NoneAssumption DEF FullRun, Published, NoGap
  <1>7. AggregatesAreSums /\ DistributionComplete /\ ~threw
    BY <1>1, <1>2 DEF AggregatesAreSums, DistributionComplete, Nothing
  <1> QED BY <1>3, <1>4, <1>5, <1>6, <1>7 DEF BatchInv

\* A step of something else changes nothing.
LEMMA StutterHolds == BatchInv /\ UNCHANGED batchVars => BatchInv'
  <1> SUFFICES ASSUME BatchInv, UNCHANGED batchVars
               PROVE  BatchInv'
    OBVIOUS
  <1>1. UNCHANGED <<secure, file, pc, stages, at, job, unfinished, threw, kills, runs>>
    BY DEF batchVars, history
  <1>2. TypeOK' /\ LoopsInBounds' /\ JobsOfPool' /\ DataStage'
    BY <1>1
    DEF BatchInv, TypeOK, LoopsInBounds, JobsOfPool, DataStage, PoolAtWork, First, NextTask
  <1>3. RandomsFixed' /\ SourcesRight'
    BY <1>1, SameNextSecure DEF BatchInv, RandomsFixed, SourcesRight
  <1>4. PoolProgress' /\ LoopProgress'
    BY <1>1 DEF BatchInv, PoolProgress, LoopProgress, Given, First, NextTask
  <1>5. FullRun' /\ Published' /\ NoGap' /\ AggregatesAreSums' /\ DistributionComplete' /\ ~threw'
    BY <1>1 DEF BatchInv, FullRun, Published, NoGap, All, AggregatesAreSums, DistributionComplete
  <1> QED BY <1>2, <1>3, <1>4, <1>5 DEF BatchInv

\* Every step keeps the invariant.
LEMMA NextHolds == BatchInv /\ BatchNext => BatchInv'
  <1> SUFFICES ASSUME BatchInv, BatchNext
               PROVE  BatchInv'
    OBVIOUS
  <1>1. CASE ProcessStep
    BY <1>1, DestroyStep, SetPendingStep, SetInProgressStep, DataDoneStep, TempDoneStep, FixStep,
       DestroyTempStep, WriteOffersStep, BeginClaimsStep, ClaimsDoneStep, WriteAggregateStep,
       SetDoneStep, WriteFinalStep, WriteDistributionStep
    DEF ProcessStep
  <1>2. CASE \E w \in Workers : WorkerStep(w)
    BY <1>2, TakeStep, WriteDataStep, WriteClaimsStep DEF WorkerStep
  <1>3. CASE \E chosen \in (SUBSET AllStages) \ {{}} : Run(chosen)
    BY <1>3, RunStep
  <1> QED BY <1>1, <1>2, <1>3, RunRangeStep, KillStep DEF BatchNext

\* The files and the process stay in step, whatever is killed and repeated.
THEOREM BatchInvariant == BatchSpec => []BatchInv
  <1>1. BatchInv /\ [BatchNext]_batchVars => BatchInv'
    BY NextHolds, StutterHolds
  <1> QED BY InitHolds, <1>1, PTL DEF BatchSpec

\* The files never contradict one another: every file is of its kind, aggregates are
\* sums, and a distribution is of an epoch that is done and of all its claims.
\* (aggregateRewardClaimsInStorage, processOneRewardEpoch)
THEOREM FilesStayConsistent == BatchSpec => []FilesConsistent
  <1>1. BatchInv => FilesConsistent
    BY DEF BatchInv, FilesConsistent
  <1> QED BY <1>1, BatchInvariant, PTL

\* Offers and claims of a round rest on the first secure random number after it, in
\* runs of all or some stages and with batches spread over any threads.
\* (processRandomNumberFixingRange)
THEOREM ClaimsRestOnLaterRandom == BatchSpec => []ClaimsOfRightRandom
  <1>1. ASSUME BatchInv, NEW r \in Rounds, NEW s \in Rounds \cup Future, file.claims[r] # None
        PROVE  /\ file.claims[r] = s => s > r /\ s \in secure
               /\ s \in secure /\ s > r => file.claims[r] \in 1..s
    <2>1. file.claims[r] = NextSecure(r) /\ secure \subseteq Rounds \cup Future
      BY <1>1 DEF BatchInv, SourcesRight, TypeOK
    <2>2. r \in Rounds \cup Future /\ s # Unfixed
      BY Constants
    <2>3. /\ NextSecure(r) # Unfixed => NextSecure(r) \in secure /\ NextSecure(r) > r
          /\ \A t \in secure : t > r => NextSecure(r) # Unfixed /\ NextSecure(r) <= t
      BY <2>1, <2>2, NextSecureFirst
    <2>4. secure \subseteq Nat \ {0} /\ s \in Nat
      BY <2>1, Constants DEF Rounds, Future
    <2> DEFINE c == NextSecure(r)
    <2>5. c = s => s > r /\ s \in secure
      BY <2>2, <2>3
    <2>6. s \in secure /\ s > r => c \in secure /\ c <= s
      BY <2>3
    <2> HIDE DEF c
    <2>7. ASSUME s \in secure, s > r
          PROVE  c \in 1..s
      <3>1. c \in Nat \ {0} /\ c <= s /\ s \in Nat
        BY <2>4, <2>6, <2>7
      <3> QED BY <3>1
    <2> QED BY <2>1, <2>5, <2>7 DEF c
  <1>2. BatchInv => ClaimsOfRightRandom
    BY <1>1 DEF ClaimsOfRightRandom
  <1> QED BY <1>2, BatchInvariant, PTL

\* A run of all stages finds every file it needs, and what runs without kills set to
\* done has its final claims and their distribution.
THEOREM UndisturbedRunsComplete == BatchSpec => []UndisturbedRunComplete
  <1>1. BatchInv => UndisturbedRunComplete
    BY DEF BatchInv, NoGap, UndisturbedRunComplete, NoKillNoGap, FullRunNeverThrows
  <1> QED BY <1>1, BatchInvariant, PTL

-----------------------------------------------------------------------------
(* The ledger the files keep *)

\* Every step of the batch calculation is one of the ledger, or leaves it alone.
LEMMA StepOfLedger ==
    ASSUME BatchInv, [BatchNext]_batchVars
    PROVE  [Ledger!LedgerNext]_(Ledger!ledgerVars)
  <1> DEFINE Alone == file'.claims = file.claims /\ file'.final = file.final
  <1>1. file \in Files
    BY DEF BatchInv, TypeOK
  <1>2. ASSUME UNCHANGED file
        PROVE  Alone
    BY <1>2
  <1>3. ASSUME Alone
        PROVE  UNCHANGED Ledger!ledgerVars
    BY <1>3 DEF Ledger!ledgerVars
  <1>4. CASE Destroy
    <2>1. file'.claims = Nothing /\ file'.final = None
      BY <1>1, <1>4, NoFilesEmpty DEF Destroy, Write, Files
    <2> QED BY <2>1 DEF Ledger!LedgerNext, Ledger!Restart, Ledger!NothingClaimed, Nothing
  <1>5. CASE \E w \in Workers : WriteClaims(w)
    <2>1. PICK w \in Workers : WriteClaims(w)
      BY <1>5
    <2>2. CASE Throw
      BY <1>2, <1>3, <2>2 DEF Throw
    <2>3. CASE ~Throw
      <3> DEFINE r == job[w].next
                 v == NextSecure(r)
      <3>1. /\ r \in Rounds /\ v # None /\ file'.claims = [file.claims EXCEPT ![r] = v]
            /\ file'.final = file.final
            /\ file.claims[r] # None => file'.claims[r] = file.claims[r]
        BY <2>1, <2>3, ClaimsWritten
      <3>2. v \in Sources /\ file.claims \in [Rounds -> {None} \cup Sources]
        BY <1>1, <3>1, NextSecureFirst DEF BatchInv, TypeOK, Files
      <3> HIDE DEF r, v
      <3>3. CASE file.claims[r] = None
        BY <3>1, <3>2, <3>3 DEF Ledger!LedgerNext, Ledger!ClaimRound
      <3>4. CASE file.claims[r] # None
        <4>1. file'.claims = file.claims
          BY <3>1, <3>2, <3>4
        <4> QED BY <1>3, <3>1, <4>1
      <3> QED BY <3>3, <3>4
    <2> QED BY <2>2, <2>3
  <1>6. CASE WriteFinal
    <2> DEFINE v == file.aggregates[LastRound]
    <2>1. pc = "final" /\ file' = [file EXCEPT !.final = v]
      BY <1>6 DEF WriteFinal, Write
    <2>2. v = file.claims /\ All(file.claims)
      BY <2>1, LastAggregate
    <2> HIDE DEF v
    <2>3. file'.claims = file.claims /\ file'.final = v
      BY <1>1, <2>1 DEF Files
    <2>4. file.final = None \/ file.final = file.claims
      BY DEF BatchInv, Published
    <2>5. CASE file.final = None
      BY <2>2, <2>3, <2>5 DEF Ledger!LedgerNext, Ledger!Publish, All
    <2>6. CASE file.final = file.claims
      BY <1>3, <2>2, <2>3, <2>6
    <2> QED BY <2>4, <2>5, <2>6
  <1>7. CASE SetPending \/ SetInProgress \/ DataDone \/ TempDone \/ DestroyTemp
    BY <1>1, <1>3, <1>7
    DEF SetPending, SetInProgress, DataDone, TempDone, DestroyTemp, Write, Files
  <1>8. CASE Fix
    BY <1>1, <1>2, <1>3, <1>8 DEF Fix, Throw, Write, Files
  <1>9. CASE WriteOffers \/ BeginClaims \/ ClaimsDone
    BY <1>1, <1>2, <1>3, <1>9 DEF WriteOffers, BeginClaims, ClaimsDone, Throw, Write, Files
  <1>10. CASE WriteAggregate \/ SetDone \/ WriteDistribution
    BY <1>1, <1>2, <1>3, <1>10 DEF WriteAggregate, SetDone, WriteDistribution, Throw, Write, Files
  <1>11. CASE \E w \in Workers : Take(w) \/ WriteData(w)
    BY <1>1, <1>2, <1>3, <1>11 DEF Take, WriteData, Write, Files
  <1>12. CASE \/ \E chosen \in (SUBSET AllStages) \ {{}} : Run(chosen)
              \/ RunRange \/ Kill \/ UNCHANGED batchVars
    BY <1>2, <1>3, <1>12 DEF Run, RunRange, Kill, batchVars
  <1> QED BY <1>4, <1>5, <1>6, <1>7, <1>8, <1>9, <1>10, <1>11, <1>12
          DEF BatchNext, ProcessStep, WorkerStep

\* The files keep the ledger's promise: claims are made once and published once and in
\* full, until everything is destroyed.  (destroyStorage, aggregateRewardClaimsInStorage)
THEOREM BatchKeepsLedger == BatchSpec => KeepsLedger
  <1>1. BatchInit => Ledger!LedgerInit
    <2> SUFFICES ASSUME BatchInit
                 PROVE  Ledger!LedgerInit
      OBVIOUS
    <2>1. file.claims = Nothing /\ file.final = None
      BY NoFilesEmpty DEF BatchInit
    <2> QED BY <2>1 DEF Ledger!LedgerInit, Ledger!NothingClaimed, Nothing
  <1>2. BatchInv /\ [BatchNext]_batchVars => [Ledger!LedgerNext]_(Ledger!ledgerVars)
    BY StepOfLedger
  <1> QED BY <1>1, <1>2, BatchInvariant, PTL DEF BatchSpec, KeepsLedger, Ledger!LedgerSpec
=============================================================================
