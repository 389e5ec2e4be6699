---------------------- MODULE RewardEpochManagerProofs ----------------------
(***************************************************************************)
(* Proofs about RewardEpochManager.tla, for every schedule of epochs and   *)
(* rounds, any number of concurrent requests and any history the indexer   *)
(* keeps.                                                                  *)
(***************************************************************************)
EXTENDS RewardEpochManager, TLAPS

-----------------------------------------------------------------------------
(* The schedule *)

\* A voting round lies before the end the schedule expects for its epoch:
\* expectedRewardEpochForVotingEpoch against expectedFirstVotingRoundForRewardEpoch.
LEMMA BeforeExpectedEnd ==
    ASSUME NEW v \in Nat, v >= FirstRound
    PROVE  /\ ExpectedEpoch(v) \in Nat
           /\ v < Expected(ExpectedEpoch(v) + 1)
<1> DEFINE a == v - FirstRound
           q == a \div EpochLength
<1>1. a \in Nat /\ EpochLength \in Nat \ {0}
  BY SigningPoliciesAssumption
<1> HIDE DEF a
<1>2. q \in Nat /\ a < (q + 1) * EpochLength
  BY <1>1, Z3
<1> QED BY <1>2, SigningPoliciesAssumption DEF ExpectedEpoch, Expected, a

LEMMA ExpectedType ==
    ASSUME NEW e \in Nat
    PROVE  Expected(e) \in Nat
BY SigningPoliciesAssumption DEF Expected

OnChain == InitialEpoch..latest

\* The numbers of the environment, spelled out; the second lemma says the same
\* of the next state.
LEMMA Numbers ==
    ASSUME EnvTypeOK
    PROVE  /\ now \in Int /\ latest \in Int /\ indexed \in Int /\ bottom \in Int
           /\ InitialEpoch \in Nat
           /\ indexed <= latest /\ latest \in OnChain
           /\ \A e \in Int : e \in OnChain <=> InitialEpoch <= e /\ e <= latest
           /\ \A e \in OnChain : /\ e \in Epochs /\ e \in Nat
                                 /\ start[e] \in Nat /\ emitted[e] \in Nat
BY SigningPoliciesAssumption DEF EnvTypeOK, Epochs, OnChain

LEMMA NumbersNext ==
    ASSUME EnvTypeOK'
    PROVE  /\ now' \in Int /\ latest' \in Int
           /\ latest' \in OnChain'
           /\ \A e \in Int : e \in OnChain' <=> InitialEpoch <= e /\ e <= latest'
           /\ \A e \in OnChain' : /\ e \in Epochs /\ e \in Nat
                                  /\ start'[e] \in Nat /\ emitted'[e] \in Nat
BY SigningPoliciesAssumption DEF EnvTypeOK, Epochs, OnChain

\* What a query for the policies returns.
LEMMA PoliciesFound ==
    ASSUME EnvTypeOK, NEW low, NEW e \in Policies(low)
    PROVE  e \in OnChain /\ e <= indexed /\ emitted[e] >= low /\ emitted[e] >= bottom
BY SigningPoliciesAssumption DEF EnvTypeOK, Policies, OnChain, Epochs

LEMMA PoliciesComplete ==
    ASSUME EnvTypeOK, NEW low, NEW e \in OnChain, e <= indexed,
           emitted[e] >= low, emitted[e] >= bottom
    PROVE  e \in Policies(low)
BY SigningPoliciesAssumption DEF EnvTypeOK, Policies, OnChain, Epochs

-----------------------------------------------------------------------------
(* Type correctness *)

LEMMA EnvType ==
    ASSUME EnvTypeOK, EnvNext
    PROVE  EnvTypeOK'
<1> USE SigningPoliciesAssumption DEF EnvTypeOK, Epochs
<1>1. ASSUME NEW s \in (now + 1)..(MaxRound + EpochLength + MaxDelay), NextPolicy(s)
      PROVE  EnvTypeOK'
  BY <1>1 DEF NextPolicy, indexer
<1>2. CASE IndexPolicy
  BY <1>2 DEF IndexPolicy, chain
<1>3. CASE DropHistory
  BY <1>3 DEF DropHistory, chain
<1>4. CASE NewRound
  BY <1>4 DEF NewRound, chain, indexer
<1> QED BY <1>1, <1>2, <1>3, <1>4 DEF EnvNext

LEMMA AnswerType ==
    ASSUME call \in [Calls -> CallType], NEW c \in Calls,
           NEW v \in Nat, NEW e \in Epochs, Answer(c, v, e)
    PROVE  call' \in [Calls -> CallType]
<1>1. [pc |-> "answered", round |-> v, epoch |-> e] \in CallType
  BY DEF CallType
<1> QED BY <1>1 DEF Answer

LEMMA ExtendedType ==
    ASSUME startVotingRoundIds \in Seq(Epochs), NEW e \in Epochs
    PROVE  Extended(e) \in Seq(Epochs)
BY DEF Extended

\* What the fields of a request are, by the await it is suspended at.
LEMMA CallFields ==
    ASSUME call \in [Calls -> CallType], NEW c \in Calls
    PROVE  /\ call[c].pc \in {"history", "events"} =>
                 call[c].round \in Nat /\ call[c].hint \in Hints
           /\ call[c].pc \in {"query", "store"} =>
                 /\ call[c].round \in Nat /\ call[c].hint \in Hints
                 /\ call[c].epoch \in Epochs /\ Target(c) \in Epochs
                 /\ call[c] = [pc |-> call[c].pc, round |-> call[c].round,
                               epoch |-> call[c].epoch, hint |-> call[c].hint]
           /\ call[c].pc = "events" => call[c].low \in Nat
           /\ call[c].pc = "answered" => call[c].round \in Nat /\ call[c].epoch \in Epochs
<1>1. call[c] \in CallType
  OBVIOUS
<1> QED BY <1>1, NoHintAssumption DEF CallType, Hints, Target

LEMMA CallTypeOK ==
    ASSUME TypeOK, NEW c \in Calls, CallNext(c)
    PROVE  TypeOK'
<1> USE SigningPoliciesAssumption
<1>1. /\ EnvTypeOK /\ rewardEpochsCache \subseteq Epochs
      /\ startVotingRoundIds \in Seq(Epochs)
      /\ call \in [Calls -> CallType] /\ range \in [RangeCalls -> RangeType]
  BY DEF TypeOK
<1>2. UNCHANGED <<environment, range>>
  BY DEF CallNext, AnswerPredicted, AnswerListed, AskIndexer, HistoryKnown,
         PoliciesArrive, EventsArrive, Store, Finish
<1>3. EnvTypeOK' /\ range' \in [RangeCalls -> RangeType]
  BY <1>1, <1>2 DEF EnvTypeOK, environment, chain, indexer
<1> SUFFICES /\ rewardEpochsCache' \subseteq Epochs
             /\ startVotingRoundIds' \in Seq(Epochs)
             /\ call' \in [Calls -> CallType]
  BY <1>3 DEF TypeOK
<1>4. ASSUME NEW v \in FirstRound..now, AnswerPredicted(c, v)
      PROVE  call' \in [Calls -> CallType] /\ UNCHANGED caches
  <2>1. ExpectedEpoch(v) \in Epochs
    BY <1>1, <1>4 DEF AnswerPredicted, Predicted
  <2> QED BY <1>1, <1>4, <2>1, AnswerType DEF AnswerPredicted, EnvTypeOK
<1>5. ASSUME NEW v \in FirstRound..now, AnswerListed(c, v)
      PROVE  call' \in [Calls -> CallType] /\ UNCHANGED caches
  <2>1. PICK i \in 1..(Len(startVotingRoundIds) - 1) : Answer(c, v, startVotingRoundIds[i])
    BY <1>5 DEF AnswerListed
  <2>2. startVotingRoundIds[i] \in Epochs
    BY <1>1
  <2>3. v \in Nat
    BY <1>1 DEF EnvTypeOK
  <2>4. call' \in [Calls -> CallType]
    BY <1>1, <2>1, <2>2, <2>3, AnswerType
  <2> QED BY <1>5, <2>4 DEF AnswerListed
<1>6. ASSUME NEW v \in FirstRound..now, NEW h \in Hints, AskIndexer(c, v, h)
      PROVE  call' \in [Calls -> CallType] /\ UNCHANGED caches
  <2>1. [pc |-> "history", round |-> v, hint |-> h] \in CallType
    BY <1>1 DEF CallType, EnvTypeOK
  <2> QED BY <1>1, <1>6, <2>1 DEF AskIndexer
<1>7. CASE HistoryKnown(c)
  <2>1. [pc |-> "events", round |-> call[c].round, hint |-> call[c].hint,
         low |-> SecureLowest] \in CallType
    BY <1>1, <1>7, CallFields DEF HistoryKnown, CallType, EnvTypeOK, SecureLowest
  <2> QED BY <1>1, <1>7, <2>1 DEF HistoryKnown, caches
<1>8. CASE PoliciesArrive(c)
  <2>1. PICK e \in Policies(call[c].low) :
            call' = [call EXCEPT ![c] =
                [pc |-> "query", round |-> call[c].round, epoch |-> e,
                 hint |-> IF call[c].hint \in Policies(call[c].low) /\ call[c].hint >= e
                          THEN call[c].hint ELSE NoHint]]
    BY <1>8 DEF PoliciesArrive
  <2>2. e \in Epochs
    BY <1>1 DEF Policies, EnvTypeOK, Epochs
  <2>3. \A h \in Hints : [pc |-> "query", round |-> call[c].round, epoch |-> e,
                          hint |-> h] \in CallType
    BY <1>1, <1>8, <2>2, CallFields DEF PoliciesArrive, CallType
  <2> QED BY <1>1, <1>8, <2>1, <2>3, CallFields DEF PoliciesArrive, caches, Hints
<1>9. CASE EventsArrive(c)
  <2>1. [call[c] EXCEPT !.pc = "store"] \in CallType
    BY <1>1, <1>9, CallFields DEF EventsArrive, CallType
  <2> QED BY <1>1, <1>9, <2>1 DEF EventsArrive, caches
<1>10. CASE Store(c)
  <2>1. Target(c) \in Epochs
    BY <1>1, <1>10, CallFields DEF Store
  <2>2. rewardEpochsCache' \subseteq Epochs /\ startVotingRoundIds' \in Seq(Epochs)
    BY <1>1, <1>10, <2>1, ExtendedType DEF Store
  <2>3. [call[c] EXCEPT !.pc = "query", !.hint = NoHint] \in CallType
    BY <1>1, <1>10, CallFields DEF Store, CallType, Hints
  <2>4. CASE call[c].hint # NoHint
    BY <1>1, <1>10, <2>2, <2>3, <2>4 DEF Store
  <2>5. CASE call[c].hint = NoHint
    BY <1>1, <1>10, <2>2, <2>5, CallFields, AnswerType DEF Store
  <2> QED BY <2>4, <2>5
<1>11. CASE Finish(c)
  BY <1>1, <1>11 DEF Finish, Idle, CallType, caches
<1> QED BY <1>1, <1>4, <1>5, <1>6, <1>7, <1>8, <1>9, <1>10, <1>11 DEF CallNext, caches

LEMMA RangeTypeOK ==
    ASSUME TypeOK, NEW c \in RangeCalls, RangeNext(c)
    PROVE  TypeOK'
<1> USE SigningPoliciesAssumption
<1>1. /\ EnvTypeOK /\ rewardEpochsCache \subseteq Epochs
      /\ startVotingRoundIds \in Seq(Epochs)
      /\ call \in [Calls -> CallType] /\ range \in [RangeCalls -> RangeType]
  BY DEF TypeOK
<1>2. UNCHANGED <<environment, caches, call>>
  BY DEF RangeNext, AskRange, RangeHistoryKnown, RangeStatusOK, RangeFromNextPolicy,
         RangeExpected, RangeUndefined, RangeFinish
<1>3. /\ EnvTypeOK' /\ rewardEpochsCache' \subseteq Epochs
      /\ startVotingRoundIds' \in Seq(Epochs) /\ call' \in [Calls -> CallType]
  BY <1>1, <1>2 DEF EnvTypeOK, environment, chain, indexer, caches
<1> SUFFICES range' \in [RangeCalls -> RangeType]
  BY <1>3 DEF TypeOK
<1>4. range[c] \in RangeType
  BY <1>1
<1>5. ASSUME NEW e \in Epochs, NEW expected \in BOOLEAN, AskRange(c, e, expected)
      PROVE  range' \in [RangeCalls -> RangeType]
  BY <1>1, <1>5 DEF AskRange, RangeType
<1>6. CASE RangeHistoryKnown(c)
  <2>1. [pc |-> "status", epoch |-> range[c].epoch, useExpected |-> range[c].useExpected,
         low |-> SecureLowest] \in RangeType
    BY <1>1, <1>4, <1>6 DEF RangeHistoryKnown, RangeType, SecureLowest, EnvTypeOK
  <2> QED BY <1>1, <1>6, <2>1 DEF RangeHistoryKnown
<1>7. CASE RangeStatusOK(c)
  <2>1. [range[c] EXCEPT !.pc = "events"] \in RangeType
    BY <1>4, <1>7 DEF RangeStatusOK, RangeType
  <2> QED BY <1>1, <1>7, <2>1 DEF RangeStatusOK
<1>8. ASSUME NEW first \in Nat, NEW end \in Int, NEW expected \in BOOLEAN,
             range[c].pc = "events", Lasts(c, first, end, expected)
      PROVE  range' \in [RangeCalls -> RangeType]
  <2>1. [pc |-> "lasts", epoch |-> range[c].epoch, startVotingRoundId |-> first,
         endVotingRoundId |-> end, expectedEndUsed |-> expected] \in RangeType
    BY <1>4, <1>8 DEF RangeType
  <2> QED BY <1>1, <1>8, <2>1 DEF Lasts
<1>9. CASE RangeFromNextPolicy(c)
  <2>1. PICK f \in Policies(range[c].low) : Lasts(c, start[range[c].epoch], start[f] - 1, FALSE)
    BY <1>9 DEF RangeFromNextPolicy
  <2>2. start[range[c].epoch] \in Nat /\ start[f] - 1 \in Int
    BY <1>1, <1>9, PoliciesFound, Numbers DEF RangeFromNextPolicy
  <2>3. range[c].pc = "events"
    BY <1>9 DEF RangeFromNextPolicy
  <2> QED BY <1>8, <2>1, <2>2, <2>3
<1>10. CASE RangeExpected(c)
  <2>1. range[c].epoch \in Epochs
    BY <1>1, <1>10 DEF RangeExpected, Policies, EnvTypeOK, Epochs
  <2>2. start[range[c].epoch] \in Nat
    BY <1>1, <2>1 DEF EnvTypeOK
  <2>3. range[c].epoch + 1 \in Nat
    BY <2>1 DEF Epochs
  <2>4. Expected(range[c].epoch + 1) - 1 \in Int
    BY <2>3, ExpectedType
  <2>5. Lasts(c, start[range[c].epoch], Expected(range[c].epoch + 1) - 1, TRUE)
    BY <1>10 DEF RangeExpected
  <2>6. range[c].pc = "events"
    BY <1>10 DEF RangeExpected
  <2> QED BY <1>8, <2>2, <2>4, <2>5, <2>6
<1>11. CASE RangeUndefined(c)
  <2>1. [pc |-> "undefined", epoch |-> range[c].epoch] \in RangeType
    BY <1>4, <1>11 DEF RangeUndefined, RangeType
  <2> QED BY <1>1, <1>11, <2>1 DEF RangeUndefined
<1>12. CASE RangeFinish(c)
  BY <1>1, <1>12 DEF RangeFinish, Idle, RangeType
<1> QED BY <1>5, <1>6, <1>7, <1>9, <1>10, <1>11, <1>12 DEF RangeNext

LEMMA InitTypeOK == Init => TypeOK
<1> USE SigningPoliciesAssumption
<1> SUFFICES ASSUME Init PROVE TypeOK
  OBVIOUS
<1>1. Expected(InitialEpoch) \in Nat
  BY ExpectedType
<1>2. EnvTypeOK
  BY <1>1 DEF Init, EnvInit, EnvTypeOK, Epochs
<1>3. startVotingRoundIds \in Seq(Epochs) /\ rewardEpochsCache \subseteq Epochs
  BY DEF Init
<1>4. Idle \in CallType /\ Idle \in RangeType
  BY DEF Idle, CallType, RangeType
<1> QED BY <1>2, <1>3, <1>4 DEF Init, TypeOK

LEMMA NextTypeOK == TypeOK /\ [Next]_vars => TypeOK'
<1> SUFFICES ASSUME TypeOK, [Next]_vars PROVE TypeOK'
  OBVIOUS
<1>1. CASE EnvNext /\ UNCHANGED <<caches, call, range>>
  BY <1>1, EnvType DEF TypeOK, caches
<1>2. CASE UNCHANGED vars
  BY <1>2 DEF TypeOK, EnvTypeOK, vars, environment, chain, indexer, caches
<1> QED BY <1>1, <1>2, CallTypeOK, RangeTypeOK DEF Next

\* The variables of the model keep the types of the code's fields.
THEOREM TypeCorrect == Spec => []TypeOK
BY InitTypeOK, NextTypeOK, PTL DEF Spec

-----------------------------------------------------------------------------
(* The inductive invariant *)

\* Epochs start in order and never earlier than expected.  Their policies are
\* emitted in order as well, and none in the future.
Schedule ==
    /\ \A e \in OnChain : Expected(e) <= start[e] /\ emitted[e] <= now
    /\ \A e, f \in OnChain : e < f => start[e] < start[f] /\ emitted[e] <= emitted[f]

\* The documented condition on the indexer: the policy of an epoch is in the
\* database before the first voting round of the epoch.
IndexedInTime == \A e \in OnChain : e > indexed => now < start[e]

CachedOnChain == rewardEpochsCache \subseteq OnChain

\* A request deals with epochs of the chain.
Targets ==
    \A c \in Calls :
        /\ call[c].pc \in {"query", "store"} => Target(c) \in OnChain /\ call[c].epoch \in OnChain
        /\ call[c].pc = "answered" => call[c].epoch \in OnChain

\* The reward epoch a request has found is the right one from then on.
CallsRight ==
    \A c \in Calls :
        /\ call[c].pc # "idle" => call[c].round <= now
        /\ call[c].pc \in {"query", "store", "answered"} => Belongs(call[c].round, call[c].epoch)

\* An expected end is what the schedule says, before the next epoch in any case.
ExpectedEnds ==
    \A c \in RangeCalls : range[c].pc = "lasts" =>
        /\ range[c].epoch \in OnChain
        /\ range[c].expectedEndUsed =>
               range[c].endVotingRoundId = Expected(range[c].epoch + 1) - 1

\* What holds whatever the indexer does.
SafeInv == /\ TypeOK /\ Schedule /\ CachedOnChain /\ Targets
           /\ ListContiguous /\ ExpectedEnds /\ RangesRight

\* What holds in addition when policies are indexed in time.
TimelyInv == IndexedInTime /\ CallsRight

LEMMA InitInv == Init => SafeInv /\ TimelyInv
<1> USE SigningPoliciesAssumption
<1> SUFFICES ASSUME Init PROVE SafeInv /\ TimelyInv
  OBVIOUS
<1>1. TypeOK
  BY InitTypeOK
<1>2. OnChain = {InitialEpoch}
  BY DEF Init, EnvInit, OnChain
<1>3. Schedule /\ IndexedInTime
  <2>1. Expected(InitialEpoch) \in Nat
    BY ExpectedType
  <2> QED BY <1>2, <2>1 DEF Init, EnvInit, Schedule, IndexedInTime, Epochs
<1>4. CachedOnChain /\ ListContiguous
  BY DEF Init, CachedOnChain, ListContiguous
<1>5. Targets /\ CallsRight /\ ExpectedEnds /\ RangesRight
  BY DEF Init, Idle, Targets, CallsRight, ExpectedEnds, RangesRight
<1> QED BY <1>1, <1>3, <1>4, <1>5 DEF SafeInv, TimelyInv

-----------------------------------------------------------------------------
(* Steps of the chain, the indexer and the clock *)

\* What such a step may do: epochs are only added, and they start later than now.
LEMMA EnvEffect ==
    ASSUME EnvTypeOK, EnvNext
    PROVE  /\ now <= now' /\ latest <= latest'
           /\ \A e \in OnChain : start'[e] = start[e] /\ emitted'[e] = emitted[e]
           /\ \A e \in OnChain' \ OnChain :
                 /\ e = latest + 1 /\ e = latest'
                 /\ now' = now
                 /\ Expected(e) <= start'[e] /\ now < start'[e]
                 /\ emitted'[e] = now
                 /\ start[latest] <= now
<1> USE SigningPoliciesAssumption DEF EnvTypeOK, Epochs, OnChain
<1>1. ASSUME NEW s \in (now + 1)..(MaxRound + EpochLength + MaxDelay), NextPolicy(s)
      PROVE  /\ now' = now /\ latest' = latest + 1
             /\ start' = [start EXCEPT ![latest + 1] = s]
             /\ emitted' = [emitted EXCEPT ![latest + 1] = now]
             /\ latest + 1 \in Epochs
             /\ start[latest] <= now /\ s > now /\ s >= Expected(latest + 1)
  BY <1>1 DEF NextPolicy
<1>2. ASSUME IndexPolicy \/ DropHistory \/ NewRound
      PROVE  now <= now' /\ latest' = latest /\ start' = start /\ emitted' = emitted
  BY <1>2 DEF IndexPolicy, DropHistory, NewRound, chain
<1>3. CASE IndexPolicy \/ DropHistory \/ NewRound
  BY <1>2, <1>3
<1>4. ASSUME NEW s \in (now + 1)..(MaxRound + EpochLength + MaxDelay), NextPolicy(s)
      PROVE  /\ now <= now' /\ latest <= latest'
             /\ \A e \in OnChain : start'[e] = start[e] /\ emitted'[e] = emitted[e]
             /\ \A e \in OnChain' \ OnChain :
                   /\ e = latest + 1 /\ e = latest'
                   /\ now' = now
                   /\ Expected(e) <= start'[e] /\ now < start'[e]
                   /\ emitted'[e] = now
                   /\ start[latest] <= now
  <2>1. \A e \in OnChain : e # latest + 1 /\ e \in Epochs
    OBVIOUS
  <2>2. \A e \in OnChain' \ OnChain : e = latest + 1
    BY <1>1, <1>4
  <2>3. start'[latest + 1] = s /\ emitted'[latest + 1] = now
    BY <1>1, <1>4
  <2>4. \A e \in OnChain : start'[e] = start[e] /\ emitted'[e] = emitted[e]
    BY <1>1, <1>4, <2>1
  <2>5. now' = now /\ latest' = latest + 1 /\ start[latest] <= now /\ s > now
        /\ s >= Expected(latest + 1)
    BY <1>1, <1>4
  <2> HIDE DEF EnvTypeOK, Epochs, OnChain
  <2> QED BY <2>2, <2>3, <2>4, <2>5 DEF EnvTypeOK, Epochs
<1> QED BY <1>3, <1>4 DEF EnvNext

\* Such a step keeps everything that was found out about the chain.
LEMMA EnvInv ==
    ASSUME SafeInv, EnvNext, UNCHANGED <<caches, call, range>>
    PROVE  SafeInv'
<1> USE SigningPoliciesAssumption
<1>1. TypeOK'
  BY EnvType DEF SafeInv, TypeOK, caches
<1>2. EnvTypeOK /\ EnvTypeOK'
  BY <1>1 DEF SafeInv, TypeOK
<1>3. OnChain \subseteq OnChain' /\ \A e \in OnChain' : e <= latest'
  BY <1>2, EnvEffect, Numbers, NumbersNext
<1>4. \A e \in OnChain : e \in Int /\ e <= latest /\ start[e] \in Nat /\ emitted[e] \in Nat
  BY <1>2, Numbers
<1>5. Schedule'
  <2>1. \A e \in OnChain' : Expected(e) <= start'[e] /\ emitted'[e] <= now'
    <3> TAKE e \in OnChain'
    <3>1. CASE e \in OnChain
      BY <1>2, <1>4, <3>1, EnvEffect DEF SafeInv, Schedule, EnvTypeOK
    <3>2. CASE e \notin OnChain
      BY <1>2, <3>2, EnvEffect DEF EnvTypeOK
    <3> QED BY <3>1, <3>2
  <2>2. ASSUME NEW e \in OnChain', NEW f \in OnChain', e < f
        PROVE  start'[e] < start'[f] /\ emitted'[e] <= emitted'[f]
    <3>1. e \in OnChain
      BY <1>2, <2>2, EnvEffect, Numbers, NumbersNext
    <3>2. CASE f \in OnChain
      BY <1>2, <2>2, <3>1, <3>2, EnvEffect DEF SafeInv, Schedule
    <3>3. CASE f \notin OnChain
      <4>1. start[e] <= start[latest] /\ emitted[e] <= now
        <5>1. latest \in OnChain
          BY <1>2, Numbers
        <5>2. CASE e = latest
          BY <1>4, <3>1, <5>1, <5>2 DEF SafeInv, Schedule
        <5>3. CASE e # latest
          <6>1. e < latest
            BY <1>4, <3>1, <5>1, <5>3
          <6> QED BY <1>4, <3>1, <5>1, <6>1 DEF SafeInv, Schedule
        <5> QED BY <5>2, <5>3
      <4>2. start'[e] = start[e] /\ emitted'[e] = emitted[e]
        BY <1>2, <3>1, EnvEffect
      <4>3. start[latest] <= now /\ now < start'[f] /\ emitted'[f] = now
        BY <1>2, <3>3, EnvEffect
      <4> QED BY <1>2, <1>4, <3>1, <4>1, <4>2, <4>3, Numbers, NumbersNext
    <3> QED BY <3>2, <3>3
  <2> QED BY <2>1, <2>2 DEF Schedule
<1>6. CachedOnChain' /\ Targets'
  BY <1>3 DEF SafeInv, CachedOnChain, Targets, Target, caches
<1>7. ListContiguous'
  <2>1. \A i \in DOMAIN startVotingRoundIds : startVotingRoundIds[i] \in OnChain
    BY DEF SafeInv, ListContiguous, CachedOnChain
  <2>2. \A i \in DOMAIN startVotingRoundIds : ListStart(i)' = ListStart(i)
    BY <1>2, <2>1, EnvEffect DEF ListStart, caches
  <2>3. \A i \in 1..(Len(startVotingRoundIds) - 1) :
           i \in DOMAIN startVotingRoundIds /\ i + 1 \in DOMAIN startVotingRoundIds
    BY DEF SafeInv, TypeOK
  <2> QED BY <2>2, <2>3 DEF SafeInv, ListContiguous, caches
<1>8. ExpectedEnds'
  BY <1>3 DEF SafeInv, ExpectedEnds, Expected
<1>9. RangesRight'
  <2> SUFFICES ASSUME NEW c \in RangeCalls, range[c].pc = "lasts"
               PROVE  /\ range[c].startVotingRoundId = start'[range[c].epoch]
                      /\ range[c].epoch < latest' =>
                            range[c].endVotingRoundId < start'[range[c].epoch + 1]
                      /\ ~range[c].expectedEndUsed =>
                            /\ range[c].epoch < latest'
                            /\ range[c].endVotingRoundId = start'[range[c].epoch + 1] - 1
    BY DEF RangesRight
  <2> DEFINE r == range[c]
  <2>1. r.epoch \in OnChain /\ r.epoch \in Int /\ r.endVotingRoundId \in Int
    BY <1>4 DEF SafeInv, ExpectedEnds, TypeOK, RangeType
  <2>2. r.startVotingRoundId = start'[r.epoch]
    BY <1>2, <2>1, EnvEffect DEF SafeInv, RangesRight
  <2>3. CASE r.epoch < latest
    <3>1. r.epoch + 1 \in OnChain
      BY <1>2, <2>1, <2>3, Numbers
    <3>2. start'[r.epoch + 1] = start[r.epoch + 1] /\ latest <= latest'
      BY <1>2, <3>1, EnvEffect
    <3>3. r.epoch < latest'
      BY <1>2, <2>1, <2>3, <3>2, Numbers, NumbersNext
    <3> QED BY <2>2, <2>3, <3>2, <3>3 DEF SafeInv, RangesRight
  <2>4. CASE ~(r.epoch < latest)
    <3>1. r.epoch = latest /\ r.expectedEndUsed
      BY <1>2, <2>1, <2>4, Numbers DEF SafeInv, RangesRight
    <3>2. r.endVotingRoundId = Expected(r.epoch + 1) - 1
      BY <3>1 DEF SafeInv, ExpectedEnds
    <3>3. ASSUME r.epoch < latest'
          PROVE  r.epoch + 1 \in OnChain' \ OnChain
      BY <1>2, <3>1, <3>3, Numbers, NumbersNext
    <3>4. Expected(r.epoch + 1) \in Int
      BY <2>1 DEF Expected
    <3>5. r.epoch < latest' => r.endVotingRoundId < start'[r.epoch + 1]
      <4> SUFFICES ASSUME r.epoch < latest' PROVE r.endVotingRoundId < start'[r.epoch + 1]
        OBVIOUS
      <4>1. Expected(r.epoch + 1) <= start'[r.epoch + 1] /\ r.epoch + 1 \in OnChain'
        BY <1>2, <3>3, EnvEffect
      <4>2. start'[r.epoch + 1] \in Nat
        BY <1>2, <4>1, NumbersNext
      <4> QED BY <3>2, <3>4, <4>1, <4>2
    <3> QED BY <2>2, <3>1, <3>5
  <2> QED BY <2>3, <2>4
<1> QED BY <1>1, <1>5, <1>6, <1>7, <1>8, <1>9 DEF SafeInv

-----------------------------------------------------------------------------
(* Steps of getRewardEpochForVotingEpochId *)

\* Extending the list keeps it a run of consecutive epochs.
LEMMA ExtendedContiguous ==
    ASSUME SafeInv, NEW e \in OnChain,
           startVotingRoundIds' = Extended(e),
           rewardEpochsCache' = rewardEpochsCache \cup {e},
           UNCHANGED start
    PROVE  ListContiguous'
<1> DEFINE list == startVotingRoundIds
           Adjacent(l) == \A i \in 1..(Len(l) - 1) :
                             l[i + 1] = l[i] + 1 /\ start[l[i]] < start[l[i + 1]]
           Known(l) == \A i \in DOMAIN l : l[i] \in rewardEpochsCache \cup {e}
<1>1. list \in Seq(Epochs) /\ e \in Epochs /\ Epochs \subseteq Int
      /\ \A f \in Epochs : start[f] \in Int
  BY Numbers, SigningPoliciesAssumption DEF SafeInv, TypeOK, EnvTypeOK, Epochs
<1>2. Adjacent(list) /\ Known(list)
  BY DEF SafeInv, ListContiguous, ListStart
<1>3. CASE list = <<>>
  <2>1. startVotingRoundIds' = <<e>>
    BY <1>3 DEF Extended
  <2> QED BY <2>1 DEF ListContiguous, ListStart
<1>4. CASE list # <<>>
  <2>1. Len(list) \in Nat /\ Len(list) >= 1 /\ list[1] \in Epochs /\ list[Len(list)] \in Epochs
    BY <1>1, <1>4
  <2>2. CASE startVotingRoundIds' = list
    BY <1>2, <2>2 DEF ListContiguous, ListStart
  <2>3. CASE /\ startVotingRoundIds' = Append(list, e)
             /\ start[e] > start[list[Len(list)]] /\ e = list[Len(list)] + 1
    <3> DEFINE longer == Append(list, e)
    <3>1. /\ Len(longer) = Len(list) + 1 /\ longer[Len(list) + 1] = e
          /\ \A i \in 1..Len(list) : longer[i] = list[i]
      BY <1>1, <2>1
    <3>2. DOMAIN longer = 1..(Len(list) + 1)
      BY <1>1, <2>1
    <3>3. Known(longer)
      BY <1>1, <1>2, <2>1, <3>1, <3>2
    <3>4. Adjacent(longer)
      <4> SUFFICES ASSUME NEW i \in 1..Len(list)
                   PROVE  longer[i + 1] = longer[i] + 1 /\ start[longer[i]] < start[longer[i + 1]]
        BY <2>1, <3>1
      <4>1. CASE i = Len(list)
        BY <1>1, <2>1, <2>3, <3>1, <4>1
      <4>2. CASE i # Len(list)
        <5>1. i \in 1..(Len(list) - 1) /\ i + 1 \in 1..Len(list)
          BY <2>1, <4>2
        <5>2. longer[i] = list[i] /\ longer[i + 1] = list[i + 1]
          BY <3>1, <5>1
        <5> HIDE DEF longer
        <5> QED BY <1>2, <5>1, <5>2
      <4> QED BY <4>1, <4>2
    <3> HIDE DEF longer
    <3> QED BY <2>3, <3>3, <3>4 DEF ListContiguous, ListStart, longer
  <2>4. CASE /\ startVotingRoundIds' = <<e>> \o list
             /\ start[e] < start[list[1]] /\ e = list[1] - 1
    <3> DEFINE longer == <<e>> \o list
    <3>1. /\ Len(longer) = Len(list) + 1 /\ longer[1] = e
          /\ \A i \in 1..Len(list) : longer[i + 1] = list[i]
      BY <1>1, <2>1
    <3>2. DOMAIN longer = 1..(Len(list) + 1)
      BY <1>1, <2>1
    <3> HIDE DEF longer
    <3>3. Known(longer)
      <4> SUFFICES ASSUME NEW i \in 1..(Len(list) + 1)
                   PROVE  longer[i] \in rewardEpochsCache \cup {e}
        BY <3>2
      <4>1. CASE i = 1
        BY <3>1, <4>1
      <4>2. CASE i # 1
        <5>1. i - 1 \in 1..Len(list) /\ (i - 1) + 1 = i /\ i - 1 \in DOMAIN list
          BY <1>1, <2>1, <4>2
        <5> QED BY <1>2, <3>1, <5>1
      <4> QED BY <4>1, <4>2
    <3>4. Adjacent(longer)
      <4> SUFFICES ASSUME NEW i \in 1..Len(list)
                   PROVE  longer[i + 1] = longer[i] + 1 /\ start[longer[i]] < start[longer[i + 1]]
        BY <2>1, <3>1
      <4>0. longer[i + 1] = list[i]
        BY <3>1
      <4>1. CASE i = 1
        <5>1. longer[i] = e /\ list[i] = list[1]
          BY <3>1, <4>1
        <5>2. list[1] \in Int /\ e \in Int
          BY <1>1, <2>1
        <5>3. list[1] = e + 1 /\ start[e] < start[list[1]]
          BY <2>4, <5>2
        <5> QED BY <4>0, <5>1, <5>3
      <4>2. CASE i # 1
        <5>1. i - 1 \in 1..(Len(list) - 1) /\ i - 1 \in 1..Len(list) /\ (i - 1) + 1 = i
          BY <2>1, <4>2
        <5>2. longer[i] = list[i - 1] /\ longer[i + 1] = list[i]
          BY <3>1, <5>1
        <5> QED BY <1>2, <5>1, <5>2
      <4> QED BY <4>1, <4>2
    <3> QED BY <2>4, <3>3, <3>4 DEF ListContiguous, ListStart, longer
  <2> QED BY <1>4, <2>2, <2>3, <2>4 DEF Extended
<1> QED BY <1>3, <1>4

\* Each step of a request leaves the chain alone.
LEMMA CallFrame ==
    ASSUME NEW c \in Calls, CallNext(c)
    PROVE  UNCHANGED <<environment, range>>
BY DEF CallNext, AnswerPredicted, AnswerListed, AskIndexer, HistoryKnown,
       PoliciesArrive, EventsArrive, Store, Finish

\* The shared caches change in Store only.
LEMMA CachesFrame ==
    ASSUME NEW c \in Calls, CallNext(c), ~Store(c)
    PROVE  UNCHANGED caches
BY DEF CallNext, AnswerPredicted, AnswerListed, AskIndexer, HistoryKnown,
       PoliciesArrive, EventsArrive, Finish

\* What a step of request c makes of it: where it answers, where it found out
\* the epoch of the round.
LEMMA CallTargets ==
    ASSUME SafeInv, NEW c \in Calls, CallNext(c)
    PROVE  Targets'
<1>1. TypeOK /\ EnvTypeOK /\ call \in [Calls -> CallType] /\ latest' = latest
  BY CallFrame DEF SafeInv, TypeOK, environment, chain
<1>2. TypeOK'
  BY <1>1, CallTypeOK
<1> SUFFICES ASSUME NEW d \in Calls
             PROVE  /\ call'[d].pc \in {"query", "store"} =>
                          Target(d)' \in OnChain /\ call'[d].epoch \in OnChain
                    /\ call'[d].pc = "answered" => call'[d].epoch \in OnChain
  BY <1>1 DEF Targets, OnChain
<1>3. CASE call'[d] = call[d]
  BY <1>3 DEF SafeInv, Targets, Target
<1>4. ASSUME NEW v, NEW e \in OnChain, Answer(c, v, e), call'[d] # call[d]
      PROVE  call'[d].pc = "answered" /\ call'[d].epoch \in OnChain
  BY <1>1, <1>4 DEF Answer
<1>5. ASSUME NEW v \in FirstRound..now, AnswerPredicted(c, v), call'[d] # call[d]
      PROVE  call'[d].pc = "answered" /\ call'[d].epoch \in OnChain
  BY <1>4, <1>5 DEF AnswerPredicted, Predicted, SafeInv, CachedOnChain
<1>6. ASSUME NEW v \in FirstRound..now, AnswerListed(c, v), call'[d] # call[d]
      PROVE  call'[d].pc = "answered" /\ call'[d].epoch \in OnChain
  <2>1. PICK i \in 1..(Len(startVotingRoundIds) - 1) : Answer(c, v, startVotingRoundIds[i])
    BY <1>6 DEF AnswerListed
  <2>2. startVotingRoundIds[i] \in OnChain
    BY <1>1 DEF SafeInv, ListContiguous, CachedOnChain, TypeOK
  <2> QED BY <1>4, <1>6, <2>1, <2>2
<1>7. ASSUME NEW v, NEW h, AskIndexer(c, v, h), call'[d] # call[d]
      PROVE  call'[d].pc = "history"
  BY <1>1, <1>7 DEF AskIndexer
<1>8. ASSUME HistoryKnown(c), call'[d] # call[d]
      PROVE  call'[d].pc = "events"
  BY <1>1, <1>8 DEF HistoryKnown
<1>9. ASSUME PoliciesArrive(c), call'[d] # call[d]
      PROVE  Target(d)' \in OnChain /\ call'[d].epoch \in OnChain /\ call'[d].pc = "query"
  <2> DEFINE found == Policies(call[c].low)
             hint == call[c].hint
  <2>1. PICK e \in found :
            call' = [call EXCEPT ![c] = [pc |-> "query", round |-> call[c].round, epoch |-> e,
                         hint |-> IF hint \in found /\ hint >= e THEN hint ELSE NoHint]]
    BY <1>9 DEF PoliciesArrive
  <2>2. \A f \in found : f \in OnChain
    BY <1>1, PoliciesFound
  <2> HIDE DEF found, hint
  <2>3. call'[d] = [pc |-> "query", round |-> call[c].round, epoch |-> e,
                    hint |-> IF hint \in found /\ hint >= e THEN hint ELSE NoHint]
    BY <1>1, <1>9, <2>1
  <2>4. call'[d].epoch = e /\ call'[d].pc = "query"
        /\ (call'[d].hint = NoHint \/ call'[d].hint \in found)
    BY <2>3
  <2> QED BY <2>2, <2>4 DEF Target
<1>10. ASSUME EventsArrive(c), call'[d] # call[d]
       PROVE  Target(d)' \in OnChain /\ call'[d].epoch \in OnChain /\ call'[d].pc = "store"
  <2>1. d = c /\ call[c].pc = "query"
    BY <1>1, <1>10 DEF EventsArrive
  <2>2. /\ call'[c].pc = "store" /\ call'[c].epoch = call[c].epoch
        /\ call'[c].hint = call[c].hint
    BY <1>1, <1>10, <2>1, CallFields DEF EventsArrive
  <2> QED BY <2>1, <2>2 DEF SafeInv, Targets, Target
<1>11. ASSUME Store(c), call'[d] # call[d]
       PROVE  /\ call'[d].epoch \in OnChain
              /\ call'[d].pc = "query" => Target(d)' \in OnChain
              /\ call'[d].pc \in {"query", "answered"}
  <2>1. call[c].pc = "store" /\ call[c].epoch \in OnChain
    BY <1>11 DEF Store, SafeInv, Targets
  <2>2. CASE call[c].hint # NoHint
    <3>1. d = c /\ call' = [call EXCEPT ![c].pc = "query", ![c].hint = NoHint]
      BY <1>1, <1>11, <2>2 DEF Store
    <3>2. call'[c].pc = "query" /\ call'[c].hint = NoHint /\ call'[c].epoch = call[c].epoch
      BY <1>1, <2>1, <3>1, CallFields
    <3> QED BY <2>1, <3>1, <3>2 DEF Target
  <2>3. CASE call[c].hint = NoHint
    BY <1>4, <1>11, <2>1, <2>3 DEF Store
  <2> QED BY <2>2, <2>3
<1>12. ASSUME Finish(c), call'[d] # call[d]
       PROVE  call'[d].pc = "idle"
  BY <1>1, <1>12 DEF Finish, Idle
<1> QED BY <1>3, <1>5, <1>6, <1>7, <1>8, <1>9, <1>10, <1>11, <1>12 DEF CallNext

LEMMA CallInv ==
    ASSUME SafeInv, NEW c \in Calls, CallNext(c)
    PROVE  SafeInv'
<1>1. TypeOK' /\ Targets'
  BY CallTypeOK, CallTargets DEF SafeInv
<1>2. UNCHANGED <<environment, range>>
  BY CallFrame
<1>3. Schedule' /\ ExpectedEnds' /\ RangesRight'
  BY <1>2 DEF SafeInv, Schedule, ExpectedEnds, RangesRight, OnChain, environment, chain
<1>4. CachedOnChain' /\ ListContiguous'
  <2>1. CASE Store(c)
    <3>1. /\ Target(c) \in OnChain
          /\ rewardEpochsCache' = rewardEpochsCache \cup {Target(c)}
          /\ startVotingRoundIds' = Extended(Target(c))
      BY <2>1 DEF Store, SafeInv, Targets
    <3>2. UNCHANGED start /\ OnChain' = OnChain
      BY <1>2 DEF OnChain, environment, chain
    <3> QED BY <3>1, <3>2, ExtendedContiguous DEF SafeInv, CachedOnChain
  <2>2. CASE ~Store(c)
    BY <1>2, <2>2, CachesFrame
       DEF SafeInv, CachedOnChain, ListContiguous, ListStart, OnChain, caches, environment, chain
  <2> QED BY <2>1, <2>2
<1> QED BY <1>1, <1>3, <1>4 DEF SafeInv

-----------------------------------------------------------------------------
(* Steps of getRewardEpochDurationRange *)

LEMMA RangeInv ==
    ASSUME SafeInv, NEW c \in RangeCalls, RangeNext(c)
    PROVE  SafeInv'
<1>1. /\ TypeOK' /\ TypeOK /\ EnvTypeOK
      /\ range \in [RangeCalls -> RangeType] /\ range[c] \in RangeType
  BY RangeTypeOK DEF SafeInv, TypeOK
<1>2. UNCHANGED <<environment, caches, call>>
  BY DEF RangeNext, AskRange, RangeHistoryKnown, RangeStatusOK, RangeFromNextPolicy,
         RangeExpected, RangeUndefined, RangeFinish
<1>3. Schedule' /\ CachedOnChain' /\ Targets' /\ ListContiguous'
  BY <1>2 DEF SafeInv, Schedule, CachedOnChain, Targets, Target, ListContiguous, ListStart,
              OnChain, environment, chain, caches
<1>4. ASSUME \A d \in RangeCalls : range'[d] = range[d] \/ range'[d].pc # "lasts"
      PROVE  SafeInv'
  <2>1. ExpectedEnds' /\ RangesRight'
    BY <1>2, <1>4 DEF SafeInv, ExpectedEnds, RangesRight, OnChain, environment, chain
  <2> QED BY <1>1, <1>3, <2>1 DEF SafeInv
<1>5. CASE \/ \E e \in Epochs, expected \in BOOLEAN : AskRange(c, e, expected)
           \/ RangeHistoryKnown(c) \/ RangeUndefined(c) \/ RangeFinish(c)
  BY <1>1, <1>4, <1>5
     DEF AskRange, RangeHistoryKnown, RangeUndefined, RangeFinish, Idle
<1>6. CASE RangeStatusOK(c)
  <2>1. range'[c].pc = "events" /\ \A d \in RangeCalls : d # c => range'[d] = range[d]
    BY <1>1, <1>6 DEF RangeStatusOK, RangeType
  <2> QED BY <1>4, <2>1
<1>7. ASSUME NEW e \in OnChain, NEW end \in Int, NEW expected \in BOOLEAN,
             range[c].epoch = e,
             Lasts(c, start[e], end, expected),
             e < latest => end < start[e + 1],
             ~expected => e < latest /\ end = start[e + 1] - 1,
             expected => end = Expected(e + 1) - 1
      PROVE  SafeInv'
  <2>1. /\ \A d \in RangeCalls : d # c => range'[d] = range[d]
        /\ range'[c] = [pc |-> "lasts", epoch |-> e, startVotingRoundId |-> start[e],
                        endVotingRoundId |-> end, expectedEndUsed |-> expected]
    BY <1>1, <1>7 DEF Lasts
  <2>2. latest' = latest /\ start' = start /\ OnChain' = OnChain
    BY <1>2 DEF OnChain, environment, chain
  <2>3. ExpectedEnds'
    BY <1>7, <2>1, <2>2 DEF SafeInv, ExpectedEnds, Expected
  <2>4. RangesRight'
    BY <1>7, <2>1, <2>2 DEF SafeInv, RangesRight
  <2> QED BY <1>1, <1>3, <2>3, <2>4 DEF SafeInv
<1> DEFINE e == range[c].epoch
           found == Policies(range[c].low)
<1>8. ASSUME range[c].pc = "events", e \in found
      PROVE  /\ e \in OnChain /\ e \in Nat
             /\ e < latest => e + 1 \in OnChain
             /\ e + 1 <= indexed => e + 1 \in found
  <2>1. e \in OnChain /\ e <= indexed /\ emitted[e] >= range[c].low /\ emitted[e] >= bottom
    BY <1>1, <1>8, PoliciesFound
  <2>2. e \in Nat /\ (e < latest => e + 1 \in OnChain) /\ (e + 1 <= indexed => e + 1 \in OnChain)
    BY <1>1, <2>1, Numbers
  <2>3. ASSUME e + 1 <= indexed PROVE e + 1 \in found
    <3>1. emitted[e] <= emitted[e + 1] /\ e + 1 \in OnChain
      BY <2>1, <2>2, <2>3 DEF SafeInv, Schedule
    <3>2. emitted[e] \in Nat /\ emitted[e + 1] \in Nat /\ bottom \in Int
      BY <1>1, <2>1, <3>1, Numbers
    <3>3. range[c].low \in Nat
      BY <1>1, <1>8 DEF RangeType
    <3>4. emitted[e + 1] >= range[c].low /\ emitted[e + 1] >= bottom
      BY <2>1, <3>1, <3>2, <3>3
    <3> QED BY <1>1, <2>3, <3>1, <3>4, PoliciesComplete
  <2> QED BY <2>1, <2>2, <2>3
<1>9. CASE RangeFromNextPolicy(c)
  <2>1. PICK f \in found : /\ f > e
                           /\ \A g \in found : g > e => f <= g
                           /\ Lasts(c, start[e], start[f] - 1, FALSE)
    BY <1>9 DEF RangeFromNextPolicy
  <2>2. /\ e \in OnChain /\ e \in Nat /\ f \in OnChain /\ f <= indexed
        /\ e + 1 <= indexed => e + 1 \in found
    <3>1. range[c].pc = "events" /\ e \in found
      BY <1>9 DEF RangeFromNextPolicy
    <3>2. f \in OnChain /\ f <= indexed
      BY <1>1, PoliciesFound
    <3> QED BY <1>8, <3>1, <3>2
  <2>3. f \in Nat /\ e + 1 <= indexed /\ e < latest
    BY <1>1, <2>1, <2>2, Numbers
  <2>4. f = e + 1
    BY <2>1, <2>2, <2>3
  <2>5. start[e + 1] \in Nat
    BY <1>1, <2>2, <2>4, Numbers
  <2>6. start[e + 1] - 1 \in Int /\ start[e + 1] - 1 < start[e + 1]
    BY <2>5
  <2>7. /\ ~FALSE => e < latest /\ start[e + 1] - 1 = start[e + 1] - 1
        /\ FALSE => start[e + 1] - 1 = Expected(e + 1) - 1
        /\ e < latest => start[e + 1] - 1 < start[e + 1]
    BY <2>3, <2>6
  <2>8. Lasts(c, start[e], start[e + 1] - 1, FALSE)
    BY <2>1, <2>4, Zenon
  <2> QED BY <1>7, <2>2, <2>6, <2>7, <2>8, Zenon
<1>10. CASE RangeExpected(c)
  <2>1. /\ e \in OnChain /\ e \in Nat /\ (e < latest => e + 1 \in OnChain)
        /\ Lasts(c, start[e], Expected(e + 1) - 1, TRUE)
    BY <1>8, <1>10 DEF RangeExpected
  <2>2. Expected(e + 1) \in Nat
    BY <2>1, ExpectedType
  <2>3. e < latest => Expected(e + 1) - 1 < start[e + 1]
    <3>1. e < latest => Expected(e + 1) <= start[e + 1] /\ start[e + 1] \in Nat
      BY <1>1, <2>1, Numbers DEF SafeInv, Schedule
    <3> QED BY <2>2, <3>1
  <2>4. Expected(e + 1) - 1 \in Int
    BY <2>2
  <2> QED BY <1>7, <2>1, <2>3, <2>4
<1> QED BY <1>5, <1>6, <1>9, <1>10 DEF RangeNext

LEMMA SafeInvHolds == Spec => []SafeInv
<1>1. SafeInv /\ [Next]_vars => SafeInv'
  <2> SUFFICES ASSUME SafeInv, [Next]_vars PROVE SafeInv'
    OBVIOUS
  <2>1. CASE UNCHANGED vars
    <3>1. TypeOK'
      BY <2>1, NextTypeOK DEF SafeInv
    <3> QED BY <2>1, <3>1
         DEF SafeInv, Schedule, CachedOnChain, Targets, Target, ListContiguous, ListStart,
             ExpectedEnds, RangesRight, OnChain, vars, environment, chain, caches
  <2> QED BY <2>1, EnvInv, CallInv, RangeInv DEF Next
<1> QED BY <1>1, InitInv, PTL DEF Spec

\* The list of consecutive epochs stays one, however many requests extend it.
THEOREM ListStaysContiguous == Spec => []ListContiguous
BY SafeInvHolds, PTL DEF SafeInv

\* A duration range is exact, or ends before the next epoch when it is expected.
THEOREM RangesCorrect == Spec => []RangesRight
BY SafeInvHolds, PTL DEF SafeInv

-----------------------------------------------------------------------------
(* The right reward epoch *)

\* As time goes by, a round keeps belonging to its reward epoch: what comes to
\* the chain starts later.
LEMMA EnvTimely ==
    ASSUME SafeInv, TimelyInv, TimelyIndexer, EnvNext, UNCHANGED <<caches, call, range>>
    PROVE  TimelyInv'
<1>1. EnvTypeOK /\ EnvTypeOK' /\ call \in [Calls -> CallType]
  BY EnvType DEF SafeInv, TypeOK
<1>2. IndexedInTime'
  <2>1. CASE NewRound
    BY <1>1, <2>1, SigningPoliciesAssumption
       DEF NewRound, TimelyInv, IndexedInTime, OnChain, EnvTypeOK, Epochs, chain, indexer
  <2>2. CASE ~NewRound
    <3>1. now' = now /\ indexed' >= indexed
      BY <1>1, <2>2, SigningPoliciesAssumption
         DEF EnvNext, NextPolicy, IndexPolicy, DropHistory, EnvTypeOK, Epochs, chain, indexer
    <3>2. SUFFICES ASSUME NEW e \in OnChain', e > indexed' PROVE now' < start'[e]
      BY DEF IndexedInTime
    <3>3. CASE e \in OnChain
      <4>1. e > indexed
        <5>1. e \in Int /\ indexed \in Int /\ indexed' \in Int
          BY <1>1, <3>3, SigningPoliciesAssumption DEF EnvTypeOK, OnChain, Epochs
        <5> QED BY <3>1, <3>2, <5>1
      <4> QED BY <1>1, <3>1, <3>3, <4>1, EnvEffect DEF TimelyInv, IndexedInTime
    <3>4. CASE e \notin OnChain
      BY <1>1, <3>1, <3>2, <3>4, EnvEffect
    <3> QED BY <3>3, <3>4
  <2> QED BY <2>1, <2>2
<1>3. CallsRight'
  <2> SUFFICES ASSUME NEW c \in Calls
               PROVE  /\ call[c].pc # "idle" => call[c].round <= now'
                      /\ call[c].pc \in {"query", "store", "answered"} =>
                            Belongs(call[c].round, call[c].epoch)'
    BY DEF CallsRight, Belongs
  <2>1. call[c].pc # "idle" => call[c].round \in Nat
    BY <1>1 DEF CallType
  <2>2. call[c].pc # "idle" => call[c].round <= now'
    <3>1. now \in Int /\ now' \in Int /\ now <= now'
      BY <1>1, EnvEffect, Numbers, NumbersNext
    <3> QED BY <2>1, <3>1 DEF TimelyInv, CallsRight
  <2>3. ASSUME call[c].pc \in {"query", "store", "answered"}
        PROVE  Belongs(call[c].round, call[c].epoch)'
    <3> DEFINE v == call[c].round
               e == call[c].epoch
    <3>1. e \in OnChain /\ Belongs(v, e) /\ v <= now /\ v \in Nat
      BY <2>1, <2>3 DEF SafeInv, Targets, TimelyInv, CallsRight
    <3> HIDE DEF v, e
    <3>2. start'[e] = start[e] /\ e \in Nat
      BY <1>1, <3>1, EnvEffect, Numbers
    <3>3. e < latest' => v < start'[e + 1]
      <4> SUFFICES ASSUME e < latest' PROVE v < start'[e + 1]
        OBVIOUS
      <4>1. e + 1 \in OnChain'
        BY <1>1, <3>1, <3>2, Numbers, NumbersNext
      <4>2. CASE e + 1 \in OnChain
        <5>1. e < latest
          BY <1>1, <3>2, <4>2, Numbers
        <5> QED BY <1>1, <3>1, <4>2, <5>1, EnvEffect DEF Belongs
      <4>3. CASE e + 1 \notin OnChain
        <5>1. now < start'[e + 1]
          BY <1>1, <4>1, <4>3, EnvEffect
        <5>2. now \in Int /\ start'[e + 1] \in Nat
          BY <1>1, <4>1, Numbers, NumbersNext
        <5> QED BY <3>1, <5>1, <5>2
      <4> QED BY <4>2, <4>3
    <3>4. start'[e] <= v /\ (e < latest' => v < start'[e + 1])
      BY <3>1, <3>2, <3>3 DEF Belongs
    <3> QED BY <3>4 DEF Belongs, v, e
  <2> QED BY <2>2, <2>3
<1> QED BY <1>2, <1>3 DEF TimelyInv

\* The epoch the schedule predicts, if it has started, is the right one: the
\* next one never starts earlier than the schedule says.
LEMMA PredictedRight ==
    ASSUME SafeInv, NEW v \in FirstRound..now, Predicted(v)
    PROVE  Belongs(v, ExpectedEpoch(v))
<1> DEFINE e == ExpectedEpoch(v)
<1>1. EnvTypeOK /\ e \in OnChain /\ start[e] <= v
  BY DEF SafeInv, TypeOK, Predicted, CachedOnChain
<1>2. v \in Nat /\ v >= FirstRound
  BY <1>1, SigningPoliciesAssumption DEF EnvTypeOK
<1>3. v < Expected(e + 1) /\ e \in Nat
  BY <1>2, BeforeExpectedEnd
<1> HIDE DEF e
<1>4. Expected(e + 1) \in Nat
  BY <1>3, ExpectedType
<1>5. e < latest => v < start[e + 1]
  <2> SUFFICES ASSUME e < latest PROVE v < start[e + 1]
    OBVIOUS
  <2>1. e + 1 \in OnChain
    BY <1>1, <1>3, Numbers
  <2>2. Expected(e + 1) <= start[e + 1] /\ start[e + 1] \in Nat
    BY <1>1, <2>1, Numbers DEF SafeInv, Schedule
  <2> QED BY <1>2, <1>3, <1>4, <2>2
<1>6. Belongs(v, e)
  BY <1>1, <1>5 DEF Belongs
<1> QED BY <1>6 DEF e

\* The last policy in the database that has started is the right one: the next
\* one is either in the database as well, or it starts in the future.
LEMMA FoundRight ==
    ASSUME SafeInv, TimelyInv, NEW low \in Nat, NEW v \in Nat, v <= now,
           NEW e \in Policies(low), start[e] <= v,
           \A f \in Policies(low) : start[f] <= v => f <= e
    PROVE  Belongs(v, e)
<1>1. EnvTypeOK
  BY DEF SafeInv, TypeOK
<1>2. /\ e \in OnChain /\ e <= indexed /\ emitted[e] >= low /\ emitted[e] >= bottom
      /\ e \in Nat /\ now \in Int /\ indexed \in Int /\ bottom \in Int
  BY <1>1, PoliciesFound, Numbers
<1>3. e < latest => v < start[e + 1]
  <2> SUFFICES ASSUME e < latest PROVE v < start[e + 1]
    OBVIOUS
  <2>1. e + 1 \in OnChain /\ start[e + 1] \in Nat
    BY <1>1, <1>2, Numbers
  <2>2. CASE e + 1 <= indexed
    <3>1. emitted[e] <= emitted[e + 1] /\ emitted[e] \in Nat /\ emitted[e + 1] \in Nat
      BY <1>1, <1>2, <2>1, Numbers DEF SafeInv, Schedule
    <3>2. emitted[e + 1] >= low /\ emitted[e + 1] >= bottom
      BY <1>2, <3>1
    <3>3. e + 1 \in Policies(low)
      BY <1>1, <2>1, <2>2, <3>2, PoliciesComplete
    <3>4. ~(start[e + 1] <= v)
      BY <1>2, <3>3
    <3> QED BY <2>1, <3>4
  <2>3. CASE ~(e + 1 <= indexed)
    <3>1. now < start[e + 1]
      BY <1>2, <2>1, <2>3 DEF TimelyInv, IndexedInTime
    <3> QED BY <1>2, <2>1, <3>1
  <2> QED BY <2>2, <2>3
<1> QED BY <1>3 DEF Belongs

LEMMA CallTimely ==
    ASSUME SafeInv, TimelyInv, NEW c \in Calls, CallNext(c)
    PROVE  TimelyInv'
<1>1. TypeOK /\ EnvTypeOK /\ call \in [Calls -> CallType]
  BY DEF SafeInv, TypeOK
<1>2. now' = now /\ latest' = latest /\ start' = start /\ indexed' = indexed
  BY CallFrame DEF environment, chain, indexer
<1>3. IndexedInTime'
  BY <1>2 DEF TimelyInv, IndexedInTime, OnChain
<1> DEFINE Right(r) == /\ r.pc # "idle" => r.round <= now
                       /\ r.pc \in {"query", "store", "answered"} => Belongs(r.round, r.epoch)
<1> SUFFICES ASSUME NEW d \in Calls, call'[d] # call[d] PROVE Right(call'[d])
  <2>1. \A d \in Calls : Right(call'[d])
    BY DEF TimelyInv, CallsRight
  <2> QED BY <1>2, <1>3, <2>1 DEF TimelyInv, CallsRight, Belongs
<1>4. call[c].pc # "idle" => call[c].round <= now /\ call[c].round \in Nat
  BY <1>1 DEF TimelyInv, CallsRight, CallType
<1>5. ASSUME NEW v \in FirstRound..now, NEW e, Answer(c, v, e), Belongs(v, e)
      PROVE  Right(call'[d])
  <2>1. call'[d] = [pc |-> "answered", round |-> v, epoch |-> e]
    BY <1>1, <1>5 DEF Answer
  <2> QED BY <1>5, <2>1
<1>6. ASSUME NEW v \in FirstRound..now, AnswerPredicted(c, v)
      PROVE  Right(call'[d])
  BY <1>5, <1>6, PredictedRight DEF AnswerPredicted
<1>7. ASSUME NEW v \in FirstRound..now, AnswerListed(c, v)
      PROVE  Right(call'[d])
  <2>1. PICK i \in 1..(Len(startVotingRoundIds) - 1) :
            /\ ListStart(i) <= v /\ v < ListStart(i + 1)
            /\ Answer(c, v, startVotingRoundIds[i])
    BY <1>7 DEF AnswerListed
  <2>2. startVotingRoundIds[i + 1] = startVotingRoundIds[i] + 1
    BY DEF SafeInv, ListContiguous
  <2>3. Belongs(v, startVotingRoundIds[i])
    BY <2>1, <2>2 DEF Belongs, ListStart
  <2> QED BY <1>5, <2>1, <2>3
<1>8. ASSUME NEW v \in FirstRound..now, NEW h, AskIndexer(c, v, h)
      PROVE  Right(call'[d])
  <2>1. call'[d] = [pc |-> "history", round |-> v, hint |-> h]
    BY <1>1, <1>8 DEF AskIndexer
  <2> QED BY <1>1, <2>1 DEF EnvTypeOK
<1>9. CASE HistoryKnown(c)
  <2>1. call'[d].pc = "events" /\ call'[d].round = call[c].round /\ call[c].pc # "idle"
    BY <1>1, <1>9 DEF HistoryKnown
  <2> QED BY <1>4, <2>1
<1>10. CASE PoliciesArrive(c)
  <2>1. PICK e \in Policies(call[c].low) :
            /\ start[e] <= call[c].round
            /\ \A f \in Policies(call[c].low) : start[f] <= call[c].round => f <= e
            /\ call'[d].pc = "query" /\ call'[d].round = call[c].round /\ call'[d].epoch = e
    BY <1>1, <1>10 DEF PoliciesArrive
  <2>2. call[c].pc = "events" /\ call[c].low \in Nat
    BY <1>1, <1>10, CallFields DEF PoliciesArrive
  <2>3. Belongs(call[c].round, e)
    BY <1>4, <2>1, <2>2, FoundRight
  <2> QED BY <1>4, <2>1, <2>2, <2>3
<1>11. CASE EventsArrive(c)
  <2>1. /\ call[c].pc = "query" /\ call'[d].pc = "store"
        /\ call'[d].round = call[c].round /\ call'[d].epoch = call[c].epoch
    BY <1>1, <1>11, CallFields DEF EventsArrive
  <2> QED BY <1>4, <2>1 DEF TimelyInv, CallsRight
<1>12. CASE Store(c)
  <2>1. call[c].pc = "store" /\ Belongs(call[c].round, call[c].epoch)
    BY <1>12 DEF Store, TimelyInv, CallsRight
  <2>2. /\ call'[d].pc \in {"query", "answered"}
        /\ call'[d].round = call[c].round /\ call'[d].epoch = call[c].epoch
    <3>1. CASE call[c].hint # NoHint
      <4>1. d = c /\ call' = [call EXCEPT ![c].pc = "query", ![c].hint = NoHint]
        BY <1>1, <1>12, <3>1 DEF Store
      <4> QED BY <1>1, <2>1, <4>1, CallFields
    <3>2. CASE call[c].hint = NoHint
      BY <1>1, <1>12, <3>2 DEF Store, Answer
    <3> QED BY <3>1, <3>2
  <2> QED BY <1>4, <2>1, <2>2
<1>13. CASE Finish(c)
  BY <1>1, <1>13 DEF Finish, Idle
<1> QED BY <1>6, <1>7, <1>8, <1>9, <1>10, <1>11, <1>12, <1>13 DEF CallNext

\* Every answer is the reward epoch the round belongs to, when policies are
\* indexed before their epochs start.
THEOREM RightEpochAnswered ==
    ASSUME TimelyIndexer
    PROVE  Spec => []RightEpoch
<1>1. SafeInv /\ TimelyInv /\ [Next]_vars => TimelyInv'
  <2> SUFFICES ASSUME SafeInv, TimelyInv, [Next]_vars PROVE TimelyInv'
    OBVIOUS
  <2>1. ASSUME UNCHANGED <<environment, call>> PROVE TimelyInv'
    BY <2>1 DEF TimelyInv, IndexedInTime, CallsRight, Belongs, OnChain, environment, chain, indexer
  <2>2. ASSUME NEW c \in RangeCalls, RangeNext(c) PROVE UNCHANGED <<environment, call>>
    BY <2>2 DEF RangeNext, AskRange, RangeHistoryKnown, RangeStatusOK, RangeFromNextPolicy,
                RangeExpected, RangeUndefined, RangeFinish
  <2> QED BY <2>1, <2>2, EnvTimely, CallTimely DEF Next, vars
<1>2. TimelyInv => RightEpoch
  BY DEF TimelyInv, CallsRight, RightEpoch
<1> QED BY <1>1, <1>2, InitInv, SafeInvHolds, PTL DEF Spec
=============================================================================
