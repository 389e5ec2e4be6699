------------------------- MODULE RewardEpochManager -------------------------
(***************************************************************************)
(* RewardEpochManager: which reward epoch does a voting round belong to,   *)
(* and which voting rounds does a reward epoch last?                       *)
(*                                                                         *)
(* getRewardEpochForVotingEpochId tries the cached reward epoch the        *)
(* schedule predicts, then a list of consecutive cached reward epochs, and *)
(* asks the indexer last; what it finds there is initialized and cached.   *)
(* Requests share the caches and interleave at every await: call[c].pc     *)
(* names the await request c is suspended at.  getRewardEpochDurationRange *)
(* only reads the database; range[c] is such a request.                    *)
(*                                                                         *)
(* A RewardEpoch object is abstracted to its id: its start is start[id].   *)
(* The events initializeRewardEpoch queries were all emitted between the   *)
(* start of the previous reward epoch and the signing policy, which is in  *)
(* the database already: they are there iff the history is long enough.    *)
(***************************************************************************)
EXTENDS SigningPolicies, Sequences

CONSTANTS
    Calls,       \* slots for getRewardEpochForVotingEpochId in progress
    RangeCalls,  \* slots for getRewardEpochDurationRange in progress
    NoHint       \* nextRewardEpochIdHint is undefined

ASSUME NoHintAssumption == NoHint \notin Int

VARIABLES
    rewardEpochsCache,    \* ids of the cached reward epochs
    startVotingRoundIds,  \* ids of the consecutive reward epochs of the list
    call,
    range

caches == <<rewardEpochsCache, startVotingRoundIds>>
vars == <<environment, caches, call, range>>

Idle == [pc |-> "idle"]

Hints == Epochs \cup {NoHint}

-----------------------------------------------------------------------------
(* The lookups that need no query *)

\* Mutant: that the reward epoch has started by v is taken for granted.
PredictedUnchecked(v) == ExpectedEpoch(v) \in rewardEpochsCache

\* The reward epoch the schedule predicts is cached and has started by v.
Predicted(v) == /\ ExpectedEpoch(v) \in rewardEpochsCache
                /\ start[ExpectedEpoch(v)] <= v

ListStart(i) == start[startVotingRoundIds[i]]

\* v lies in the list, and not in its last epoch, whose end is not known.
Listed(v) == /\ Len(startVotingRoundIds) >= 2
             /\ ListStart(1) <= v
             /\ v < ListStart(Len(startVotingRoundIds))

-----------------------------------------------------------------------------
(* getRewardEpochForVotingEpochId *)

Answer(c, v, e) == call' = [call EXCEPT ![c] = [pc |-> "answered", round |-> v, epoch |-> e]]

\* A future voting round has no reward epoch, one before the first reward epoch
\* is an error: both change nothing.
Askable(c, v) == call[c].pc = "idle" /\ v \in FirstRound..now

AnswerPredicted(c, v) ==
    /\ Askable(c, v) /\ Predicted(v)
    /\ Answer(c, v, ExpectedEpoch(v))
    /\ UNCHANGED <<environment, caches, range>>

\* The binary search of findRewardEpochId ends at this epoch (EpochSearch.tla).
AnswerListed(c, v) ==
    /\ Askable(c, v) /\ ~Predicted(v) /\ Listed(v)
    /\ \E i \in 1..(Len(startVotingRoundIds) - 1) :
         /\ ListStart(i) <= v /\ v < ListStart(i + 1)
         /\ Answer(c, v, startVotingRoundIds[i])
    /\ UNCHANGED <<environment, caches, range>>

AskIndexer(c, v, h) ==
    /\ Askable(c, v) /\ ~Predicted(v) /\ ~Listed(v)
    /\ call' = [call EXCEPT ![c] = [pc |-> "history", round |-> v, hint |-> h]]
    /\ UNCHANGED <<environment, caches, range>>

\* secureLowestTimestamp answers.
HistoryKnown(c) ==
    /\ call[c].pc = "history"
    /\ call' = [call EXCEPT ![c] = [pc |-> "events", round |-> call[c].round,
                                    hint |-> call[c].hint, low |-> SecureLowest]]
    /\ UNCHANGED <<environment, caches, range>>

\* The policies arrive.  They are searched from the last one back to the first
\* that has started by the round; the hint counts if it was passed on the way.
\* The hinted epoch is initialized first.
PoliciesArrive(c) ==
    LET found == Policies(call[c].low)
        h == call[c].hint IN
    /\ call[c].pc = "events"
    /\ \E e \in found :
         /\ start[e] <= call[c].round
         /\ \A f \in found : start[f] <= call[c].round => f <= e
         /\ call' = [call EXCEPT ![c] =
                [pc |-> "query", round |-> call[c].round, epoch |-> e,
                 hint |-> IF h \in found /\ h >= e THEN h ELSE NoHint]]
    /\ UNCHANGED <<environment, caches, range>>

\* The epoch initializeRewardEpoch is busy with.
Target(c) == IF call[c].hint # NoHint THEN call[c].hint ELSE call[c].epoch

\* initializeRewardEpoch has all events of the epoch.
EventsArrive(c) ==
    /\ call[c].pc = "query"
    /\ Target(c) > InitialEpoch
    /\ LowerBlockOK(Expected(Target(c) - 1))
    /\ call' = [call EXCEPT ![c].pc = "store"]
    /\ UNCHANGED <<environment, caches, range>>

\* Mutant: the list takes any epoch that starts after its last one.
ExtendedAnyhow(e) ==
    LET list == startVotingRoundIds
        last == list[Len(list)] IN
    IF list = <<>> THEN <<e>>
    ELSE IF start[e] > start[last] THEN Append(list, e)
    ELSE IF start[e] < start[list[1]] /\ e = list[1] - 1 THEN <<e>> \o list
    ELSE list

\* The list grows only at its ends, and only by the epoch next to the end.
Extended(e) ==
    LET list == startVotingRoundIds
        last == list[Len(list)] IN
    IF list = <<>> THEN <<e>>
    ELSE IF start[e] > start[last] /\ e = last + 1 THEN Append(list, e)
    ELSE IF start[e] < start[list[1]] /\ e = list[1] - 1 THEN <<e>> \o list
    ELSE list

\* initializeRewardEpoch ends: the epoch is cached.  After the hinted epoch
\* comes the one that was asked for.
Store(c) ==
    /\ call[c].pc = "store"
    /\ rewardEpochsCache' = rewardEpochsCache \cup {Target(c)}
    /\ startVotingRoundIds' = Extended(Target(c))
    /\ IF call[c].hint # NoHint
       THEN call' = [call EXCEPT ![c].pc = "query", ![c].hint = NoHint]
       ELSE Answer(c, call[c].round, call[c].epoch)
    /\ UNCHANGED <<environment, range>>

\* Any query may fail, the history may be too short, the epoch too old: a
\* "Critical error" ends the request.  An answered request is over as well.
Finish(c) ==
    /\ call[c].pc # "idle"
    /\ call' = [call EXCEPT ![c] = Idle]
    /\ UNCHANGED <<environment, caches, range>>

-----------------------------------------------------------------------------
(* getRewardEpochDurationRange *)

AskRange(c, e, expected) ==
    /\ range[c].pc = "idle"
    /\ range' = [range EXCEPT ![c] = [pc |-> "history", epoch |-> e, useExpected |-> expected]]
    /\ UNCHANGED <<environment, caches, call>>

RangeHistoryKnown(c) ==
    /\ range[c].pc = "history"
    /\ range' = [range EXCEPT ![c] = [pc |-> "status", epoch |-> range[c].epoch,
                     useExpected |-> range[c].useExpected, low |-> SecureLowest]]
    /\ UNCHANGED <<environment, caches, call>>

\* The history still reaches back to where it did; else an error is thrown.
RangeStatusOK(c) ==
    /\ range[c].pc = "status"
    /\ LowerBlockOK(range[c].low)
    /\ range' = [range EXCEPT ![c].pc = "events"]
    /\ UNCHANGED <<environment, caches, call>>

Lasts(c, first, end, expected) ==
    range' = [range EXCEPT ![c] = [pc |-> "lasts", epoch |-> range[c].epoch,
                  startVotingRoundId |-> first, endVotingRoundId |-> end,
                  expectedEndUsed |-> expected]]

\* Mutant: the first round of the next epoch is counted in.
RangeFromNextPolicyInclusive(c) ==
    LET found == Policies(range[c].low)
        e == range[c].epoch IN
    /\ range[c].pc = "events" /\ e \in found
    /\ \E f \in found : f > e /\ Lasts(c, start[e], start[f], FALSE)
    /\ UNCHANGED <<environment, caches, call>>

\* The next policy of the result tells where the epoch ends.
RangeFromNextPolicy(c) ==
    LET found == Policies(range[c].low)
        e == range[c].epoch IN
    /\ range[c].pc = "events" /\ e \in found
    /\ \E f \in found : /\ f > e
                        /\ \A g \in found : g > e => f <= g
                        /\ Lasts(c, start[e], start[f] - 1, FALSE)
    /\ UNCHANGED <<environment, caches, call>>

\* No later policy: the schedule tells, if the caller wants it to.
RangeExpected(c) ==
    LET found == Policies(range[c].low)
        e == range[c].epoch IN
    /\ range[c].pc = "events" /\ e \in found
    /\ \A f \in found : f <= e
    /\ range[c].useExpected
    /\ Lasts(c, start[e], Expected(e + 1) - 1, TRUE)
    /\ UNCHANGED <<environment, caches, call>>

\* The epoch is not among the policies: the loop ends and nothing is returned.
RangeUndefined(c) ==
    /\ range[c].pc = "events"
    /\ range[c].epoch \notin Policies(range[c].low)
    /\ range' = [range EXCEPT ![c] = [pc |-> "undefined", epoch |-> range[c].epoch]]
    /\ UNCHANGED <<environment, caches, call>>

RangeFinish(c) ==
    /\ range[c].pc # "idle"
    /\ range' = [range EXCEPT ![c] = Idle]
    /\ UNCHANGED <<environment, caches, call>>

-----------------------------------------------------------------------------
Init ==
    /\ EnvInit
    /\ rewardEpochsCache = {}
    /\ startVotingRoundIds = <<>>
    /\ call = [c \in Calls |-> Idle]
    /\ range = [c \in RangeCalls |-> Idle]

CallNext(c) ==
    \/ \E v \in FirstRound..now : \/ AnswerPredicted(c, v) \/ AnswerListed(c, v)
                                  \/ \E h \in Hints : AskIndexer(c, v, h)
    \/ HistoryKnown(c) \/ PoliciesArrive(c) \/ EventsArrive(c) \/ Store(c) \/ Finish(c)

RangeNext(c) ==
    \/ \E e \in Epochs, expected \in BOOLEAN : AskRange(c, e, expected)
    \/ RangeHistoryKnown(c) \/ RangeStatusOK(c) \/ RangeFromNextPolicy(c)
    \/ RangeExpected(c) \/ RangeUndefined(c) \/ RangeFinish(c)

Next ==
    \/ EnvNext /\ UNCHANGED <<caches, call, range>>
    \/ \E c \in Calls : CallNext(c)
    \/ \E c \in RangeCalls : RangeNext(c)

Spec == Init /\ [][Next]_vars

-----------------------------------------------------------------------------
CallType ==
    [pc : {"idle"}]
    \cup [pc : {"history"}, round : Nat, hint : Hints]
    \cup [pc : {"events"}, round : Nat, hint : Hints, low : Nat]
    \cup [pc : {"query", "store"}, round : Nat, epoch : Epochs, hint : Hints]
    \cup [pc : {"answered"}, round : Nat, epoch : Epochs]

RangeType ==
    [pc : {"idle"}]
    \cup [pc : {"history"}, epoch : Epochs, useExpected : BOOLEAN]
    \cup [pc : {"status", "events"}, epoch : Epochs, useExpected : BOOLEAN, low : Nat]
    \cup [pc : {"lasts"}, epoch : Epochs, startVotingRoundId : Nat,
          endVotingRoundId : Int, expectedEndUsed : BOOLEAN]
    \cup [pc : {"undefined"}, epoch : Epochs]

TypeOK ==
    /\ EnvTypeOK
    /\ rewardEpochsCache \subseteq Epochs
    /\ startVotingRoundIds \in Seq(Epochs)
    /\ call \in [Calls -> CallType]
    /\ range \in [RangeCalls -> RangeType]

(* Properties *)

\* The voting round v belongs to the reward epoch e, as far as the chain knows.
Belongs(v, e) == start[e] <= v /\ (e < latest => v < start[e + 1])

\* getRewardEpochForVotingEpochId answers with the reward epoch the round
\* belongs to, whichever of the three lookups it took and whatever other
\* requests did to the caches meanwhile.  The answer also stays right: no
\* epoch that starts at or before the round is added to the chain later.
RightEpoch ==
    \A c \in Calls : call[c].pc = "answered" => Belongs(call[c].round, call[c].epoch)

\* The list findRewardEpochId searches is a run of consecutive cached epochs in
\* ascending order, although concurrent requests extend it at both ends in the
\* order they happen to finish in.
ListContiguous ==
    /\ \A i \in DOMAIN startVotingRoundIds : startVotingRoundIds[i] \in rewardEpochsCache
    /\ \A i \in 1..(Len(startVotingRoundIds) - 1) :
         /\ startVotingRoundIds[i + 1] = startVotingRoundIds[i] + 1
         /\ ListStart(i) < ListStart(i + 1)

\* getRewardEpochDurationRange: the range starts where the epoch starts and,
\* when the next policy was seen, ends right before the next epoch; the expected
\* end never reaches into the next epoch.
RangesRight ==
    \A c \in RangeCalls : range[c].pc = "lasts" =>
        LET r == range[c] IN
        /\ r.startVotingRoundId = start[r.epoch]
        /\ r.epoch < latest => r.endVotingRoundId < start[r.epoch + 1]
        /\ ~r.expectedEndUsed => /\ r.epoch < latest
                                 /\ r.endVotingRoundId = start[r.epoch + 1] - 1
=============================================================================
