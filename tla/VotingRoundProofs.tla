-------------------------- MODULE VotingRoundProofs --------------------------
(***************************************************************************)
(* Proofs about VotingRound.tla, for any number of voters, any schedule    *)
(* and benching window, and any pace of the indexer.                       *)
(***************************************************************************)
EXTENDS VotingRound, TLAPS

-----------------------------------------------------------------------------
(* The schedule *)

LEMMA StartType ==
    ASSUME NEW r \in Int
    PROVE  Start(r) \in Int
BY SubmissionChainAssumption DEF Start

LEMMA StartMonotone ==
    ASSUME NEW q \in Int, NEW r \in Int, q <= r
    PROVE  Start(q) <= Start(r)
<1>1. RoundLength \in Nat /\ r - q \in Nat /\ FirstStart \in Int
  BY SubmissionChainAssumption
<1>2. (r - q) * RoundLength >= 0
  BY <1>1, Z3
<1>3. r * RoundLength = q * RoundLength + (r - q) * RoundLength
  BY <1>1, Z3
<1> QED BY <1>1, <1>2, <1>3 DEF Start

\* The seconds the commits and the reveals of a round are read from.
LEMMA Ranges ==
    ASSUME round \in AskedRounds
    PROVE  /\ round \in Int /\ BenchingWindow \in Nat
           /\ CommitsFrom \in Int /\ CommitsTo \in Int
           /\ RevealsFrom \in Int /\ RevealsTo \in Int
BY StartType, SubmissionChainAssumption, VotingRoundAssumption
   DEF CommitsFrom, CommitsTo, RevealsFrom, RevealsTo, End, DeadlineSec

\* A commit for a round of the benching window, or for the round itself, is sent
\* within the range.
LEMMA CommitInRange ==
    ASSUME round \in AskedRounds, NEW q \in (round - BenchingWindow)..round,
           NEW t \in Int, InRound(t, q)
    PROVE  CommitsFrom <= t /\ t <= CommitsTo
<1>1. q \in Int /\ round \in Int /\ BenchingWindow \in Nat
  BY Ranges
<1>2. Start(round - BenchingWindow) <= Start(q) /\ Start(q + 1) <= Start(round + 1)
  BY <1>1, StartMonotone
<1>3. /\ Start(q) \in Int /\ Start(q + 1) \in Int
      /\ Start(round - BenchingWindow) \in Int /\ Start(round + 1) \in Int
  BY <1>1, StartType
<1> QED BY <1>2, <1>3 DEF InRound, CommitsFrom, CommitsTo, End

\* So is a reveal for such a round that meets its deadline.
LEMMA RevealInRange ==
    ASSUME round \in AskedRounds, NEW q \in (round - BenchingWindow)..round,
           NEW t \in Int, InRound(t, q + 1), t - Start(q + 1) < RevealDeadline
    PROVE  RevealsFrom <= t /\ t <= RevealsTo
<1>1. q \in Int /\ round \in Int /\ BenchingWindow \in Nat /\ RevealDeadline \in Int
  BY Ranges, SubmissionChainAssumption
<1>2. Start(round - BenchingWindow + 1) <= Start(q + 1) /\ Start(q + 1) <= Start(round + 1)
  BY <1>1, StartMonotone
<1>3. /\ Start(q + 1) \in Int
      /\ Start(round - BenchingWindow + 1) \in Int /\ Start(round + 1) \in Int
  BY <1>1, StartType
<1> QED BY <1>1, <1>2, <1>3 DEF InRound, RevealsFrom, RevealsTo, DeadlineSec

-----------------------------------------------------------------------------
(* The inductive invariant *)

\* Block timestamps never decrease and are not ahead of the clock.
Chronological ==
    /\ \A i \in Positions : txs[i].time <= now
    /\ \A i, j \in Positions : i <= j => txs[i].time <= txs[j].time

\* The database is a stretch of the chain: what lies before it is not newer than its
\* first block, and what lies after it not older than its last.
Stretch ==
    running => /\ \A i \in 1..dropped : txs[i].time <= first
               /\ \A i \in (indexed + 1)..Len(txs) : top <= txs[i].time

InRange(S, from, to) == {i \in S : from <= txs[i].time /\ txs[i].time <= to}

\* A range that was found covered is still covered when the query is made.
Covered ==
    /\ pc = "queryCommits" =>
           LowerBlockOK(CommitsFrom) /\ TopBlockOK(CommitsTo)
    /\ pc = "queryReveals" /\ reply = "OK" =>
           LowerBlockOK(RevealsFrom) /\ TopBlockOK(RevealsTo)

\* What was read is all there is in the range, and all there will be.
ReadAll ==
    /\ pc \in {"checkReveals", "queryReveals", "answered"} =>
           commits = InRange(Commits, CommitsFrom, CommitsTo) /\ now > CommitsTo
    /\ pc = "answered" /\ reply = "OK" =>
           reveals = InRange(Reveals, RevealsFrom, RevealsTo) /\ now > RevealsTo

ChainInv == TypeOK /\ Chronological /\ Stretch

IInv == ChainInv /\ Covered /\ ReadAll

-----------------------------------------------------------------------------
(* Steps of the environment *)

EnvStep ==
    \/ \E kind \in {"submit1", "submit2"}, v \in Voters, p \in Values \cup {Junk}, r \in Int :
          Submit(kind, v, r, p)
    \/ Tick \/ IndexFirstBlock \/ IndexSubmission \/ IndexOtherBlock
    \/ /\ KeepsHistory => pc \in {"checkCommits", "answered"}
       /\ \E d \in dropped..indexed, t \in first..top : DropHistory(d, t)

LEMMA EnvironmentStep ==
    Environment => EnvStep
<1> SUFFICES ASSUME Environment PROVE EnvStep
  OBVIOUS
<1>1. ASSUME NEW kind \in {"submit1", "submit2"}, NEW v \in Voters,
             NEW p \in Values \cup {Junk}, NEW q \in AskedRounds,
             NEW k \in 0..BenchingWindow, Submit(kind, v, q - k, p)
      PROVE  EnvStep
  <2>1. q - k \in Int
    BY VotingRoundAssumption
  <2> QED BY <1>1, <2>1 DEF EnvStep
<1> QED BY <1>1 DEF Environment, EnvStep

\* What a new submission leaves of the chain.
LEMMA Submitted ==
    ASSUME ChainTypeOK,
           NEW kind \in {"submit1", "submit2"}, NEW v \in Voters,
           NEW p \in Values \cup {Junk}, NEW r \in Int, Submit(kind, v, r, p)
    PROVE  /\ txs' \in Seq(Submission)
           /\ Len(txs') = Len(txs) + 1
           /\ \A i \in Positions : txs'[i] = txs[i]
           /\ txs'[Len(txs) + 1].time = now
<1> DEFINE tx == [time |-> now, kind |-> kind, voter |-> v, round |-> r, payload |-> p]
<1>1. tx \in Submission
  BY DEF ChainTypeOK, Submission
<1>2. txs' = Append(txs, tx) /\ txs \in Seq(Submission)
  BY DEF Submit, ChainTypeOK
<1>3. tx.time = now
  OBVIOUS
<1> HIDE DEF tx
<1> QED BY <1>1, <1>2, <1>3 DEF Positions

\* The fields of the submissions, spelled out.
LEMMA Fields ==
    ASSUME ChainTypeOK
    PROVE  /\ \A i \in Positions : txs[i] \in Submission /\ txs[i].time \in Nat
           /\ Len(txs) \in Nat /\ now \in Nat
           /\ first \in Nat /\ top \in Nat /\ first <= top /\ top <= now
           /\ dropped \in Nat /\ indexed \in Nat /\ dropped <= indexed /\ indexed <= Len(txs)
<1>1. \A i \in Positions : txs[i] \in Submission
  BY DEF ChainTypeOK, Positions
<1>2. \A i \in Positions : txs[i].time \in Nat
  BY <1>1 DEF Submission
<1>3. Len(txs) \in Nat
  BY DEF ChainTypeOK
<1> QED BY <1>1, <1>2, <1>3 DEF ChainTypeOK

LEMMA EnvChain ==
    ASSUME ChainTypeOK, Chronological, Stretch, EnvStep
    PROVE  ChainTypeOK' /\ Chronological' /\ Stretch'
<1>0. /\ \A i \in Positions : txs[i] \in Submission /\ txs[i].time \in Nat
      /\ Len(txs) \in Nat /\ now \in Nat
      /\ first \in Nat /\ top \in Nat /\ first <= top /\ top <= now
      /\ dropped \in Nat /\ indexed \in Nat /\ dropped <= indexed /\ indexed <= Len(txs)
  BY Fields
<1>1. ASSUME NEW kind \in {"submit1", "submit2"}, NEW v \in Voters,
             NEW p \in Values \cup {Junk}, NEW r \in Int, Submit(kind, v, r, p)
      PROVE  ChainTypeOK' /\ Chronological' /\ Stretch'
  <2>1. UNCHANGED <<now, database>>
    BY <1>1 DEF Submit
  <2>2. /\ txs' \in Seq(Submission) /\ Len(txs') = Len(txs) + 1
        /\ \A i \in Positions : txs'[i] = txs[i]
        /\ txs'[Len(txs) + 1].time = now
    BY <1>1, Submitted
  <2>3. ChainTypeOK'
    BY <1>0, <2>1, <2>2 DEF ChainTypeOK, database
  <2>4. Chronological'
    <3>1. ASSUME NEW i \in Positions'
          PROVE  i \in Positions \/ i = Len(txs) + 1
      BY <1>0, <2>2 DEF Positions
    <3>2. \A i \in Positions' : txs'[i].time <= now
      BY <1>0, <2>2, <3>1 DEF Chronological
    <3>3. ASSUME NEW i \in Positions', NEW j \in Positions', i <= j
          PROVE  txs'[i].time <= txs'[j].time
      <4>1. CASE j \in Positions
        <5>1. i \in Positions
          BY <1>0, <3>1, <3>3, <4>1 DEF Positions
        <5> QED BY <2>2, <3>3, <4>1, <5>1 DEF Chronological
      <4>2. CASE j = Len(txs) + 1
        BY <2>2, <3>2, <4>2
      <4> QED BY <3>1, <4>1, <4>2
    <3> QED BY <2>1, <3>2, <3>3 DEF Chronological
  <2>5. ASSUME running, NEW i \in (indexed + 1)..Len(txs') PROVE top <= txs'[i].time
    <3>1. CASE i = Len(txs) + 1
      BY <1>0, <2>2, <3>1
    <3>2. CASE i # Len(txs) + 1
      <4>1. i \in (indexed + 1)..Len(txs) /\ i \in Positions
        BY <1>0, <2>2, <2>5, <3>2 DEF Positions
      <4> QED BY <2>2, <2>5, <4>1 DEF Stretch
    <3> QED BY <3>1, <3>2
  <2>6. ASSUME running, NEW i \in 1..dropped PROVE txs'[i].time <= first
    <3>1. i \in Positions
      BY <1>0 DEF Positions
    <3> QED BY <2>2, <2>6, <3>1 DEF Stretch
  <2>7. Stretch'
    BY <2>1, <2>5, <2>6 DEF Stretch, database
  <2> QED BY <2>3, <2>4, <2>7
<1>2. CASE Tick
  BY <1>0, <1>2 DEF Tick, ChainTypeOK, Chronological, Stretch, Positions, database
<1>3. CASE IndexFirstBlock
  BY <1>0, <1>3 DEF IndexFirstBlock, ChainTypeOK, Chronological, Stretch, Positions, chain
<1>4. CASE IndexSubmission
  <2>1. indexed + 1 \in Positions /\ indexed + 1 \in (indexed + 1)..Len(txs)
    BY <1>0, <1>4 DEF IndexSubmission, Positions
  <2>2. /\ UNCHANGED <<chain, running, first, dropped>> /\ running
        /\ indexed' = indexed + 1 /\ top' = txs[indexed + 1].time
    BY <1>4 DEF IndexSubmission
  <2>3. top <= top' /\ top' <= now
    BY <2>1, <2>2 DEF Stretch, Chronological
  <2>4. ChainTypeOK'
    BY <1>0, <2>1, <2>2, <2>3 DEF ChainTypeOK, chain
  <2>5. \A i \in (indexed + 2)..Len(txs) : top' <= txs[i].time
    BY <1>0, <2>1, <2>2 DEF Chronological, Positions
  <2>6. indexed' + 1 = indexed + 2
    BY <1>0, <2>2
  <2> QED BY <2>2, <2>4, <2>5, <2>6 DEF Chronological, Stretch, Positions, chain
<1>5. CASE IndexOtherBlock
  <2>1. PICK t \in (top + 1)..now :
            (indexed < Len(txs) => t <= txs[indexed + 1].time) /\ top' = t
    BY <1>5 DEF IndexOtherBlock
  <2>2. UNCHANGED <<chain, running, first, dropped, indexed>>
    BY <1>5 DEF IndexOtherBlock
  <2>3. ASSUME NEW i \in (indexed + 1)..Len(txs) PROVE t <= txs[i].time
    <3>1. /\ indexed < Len(txs) /\ i \in Positions /\ indexed + 1 \in Positions
          /\ indexed + 1 <= i
      BY <1>0 DEF Positions
    <3>2. t <= txs[indexed + 1].time /\ txs[indexed + 1].time <= txs[i].time
      BY <2>1, <3>1 DEF Chronological
    <3>3. t \in Int
      BY <1>0, <2>1
    <3> QED BY <1>0, <3>1, <3>2, <3>3
  <2> QED BY <1>0, <2>1, <2>2, <2>3 DEF ChainTypeOK, Chronological, Stretch, Positions, chain
<1>6. ASSUME NEW d \in dropped..indexed, NEW t \in first..top, DropHistory(d, t)
      PROVE  ChainTypeOK' /\ Chronological' /\ Stretch'
  BY <1>0, <1>6 DEF DropHistory, ChainTypeOK, Chronological, Stretch, Positions, chain
<1> QED BY <1>1, <1>2, <1>3, <1>4, <1>5, <1>6 DEF EnvStep

\* The submissions on chain stay, at their places, and so do those read from them.
LEMMA EnvKeeps ==
    ASSUME ChainTypeOK, EnvStep
    PROVE  /\ Positions \subseteq Positions'
           /\ \A i \in Positions : txs'[i] = txs[i]
           /\ Commits \subseteq Commits' /\ Reveals \subseteq Reveals'
           /\ now <= now' /\ now' \in Nat
           /\ \A i \in Positions' : i \in Positions \/ txs'[i].time = now
<1>0. /\ \A i \in Positions : txs[i] \in Submission /\ txs[i].time \in Nat
      /\ Len(txs) \in Nat /\ now \in Nat
  BY Fields
<1>1. ASSUME NEW kind \in {"submit1", "submit2"}, NEW v \in Voters,
             NEW p \in Values \cup {Junk}, NEW r \in Int, Submit(kind, v, r, p)
      PROVE  /\ Positions \subseteq Positions'
             /\ \A i \in Positions : txs'[i] = txs[i]
             /\ Commits \subseteq Commits' /\ Reveals \subseteq Reveals'
             /\ now <= now' /\ now' \in Nat
             /\ \A i \in Positions' : i \in Positions \/ txs'[i].time = now
  <2>1. /\ Len(txs') = Len(txs) + 1
        /\ \A i \in Positions : txs'[i] = txs[i]
        /\ txs'[Len(txs) + 1].time = now
    BY <1>1, Submitted
  <2>2. now' = now
    BY <1>1 DEF Submit
  <2>3. Positions' = Positions \cup {Len(txs) + 1}
    BY <1>0, <2>1 DEF Positions
  <2>4. \A i \in Positions' : i \in Positions \/ txs'[i].time = now
    BY <2>1, <2>3
  <2>5. Commits \subseteq Commits' /\ Reveals \subseteq Reveals'
    BY <2>1, <2>3 DEF Commits, Reveals
  <2> QED BY <1>0, <2>1, <2>2, <2>3, <2>4, <2>5
<1>2. CASE Tick
  BY <1>0, <1>2 DEF Tick, Positions, Commits, Reveals
<1>3. CASE UNCHANGED chain
  BY <1>0, <1>3 DEF chain, Positions, Commits, Reveals
<1>4. \/ Tick \/ UNCHANGED chain
      \/ \E kind \in {"submit1", "submit2"}, v \in Voters, p \in Values \cup {Junk},
            r \in Int : Submit(kind, v, r, p)
  BY DEF EnvStep, IndexFirstBlock, IndexSubmission, IndexOtherBlock, DropHistory
<1> QED BY <1>1, <1>2, <1>3, <1>4

-----------------------------------------------------------------------------
(* Type correctness *)

LEMMA InitInv ==
    Init => IInv
<1> SUFFICES ASSUME Init PROVE IInv
  OBVIOUS
<1>1. /\ now = 0 /\ txs = << >> /\ running = FALSE
      /\ first = 0 /\ top = 0 /\ dropped = 0 /\ indexed = 0
      /\ pc = "checkCommits" /\ round \in AskedRounds
      /\ commits = {} /\ reveals = {} /\ reply = NoReply
  BY DEF Init, ChainInit
<1>2. Positions = {}
  BY <1>1 DEF Positions
<1>3. ChainTypeOK
  <2>1. txs \in Seq(Submission)
    BY <1>1
  <2>2. Len(txs) = 0
    BY <1>1
  <2>3. 0 \in 0..0 /\ 0 \in Nat
    OBVIOUS
  <2> QED BY <1>1, <2>1, <2>2, <2>3 DEF ChainTypeOK
<1>4. TypeOK
  BY <1>1, <1>3 DEF TypeOK
<1> QED BY <1>1, <1>2, <1>4 DEF IInv, ChainInv, Chronological, Stretch, Covered, ReadAll

\* A query returns submissions of its kind.
LEMMA QueryType ==
    ASSUME ChainTypeOK, NEW s, NEW e
    PROVE  /\ Query("submit1", s, e) \subseteq Commits
           /\ Query("submit2", s, e) \subseteq Reveals
<1>1. (dropped + 1)..indexed \subseteq Positions
  BY Fields DEF Positions
<1> QED BY <1>1 DEF Query, Commits, Reveals

LEMMA ChainInvariant ==
    ChainInv /\ [Next]_vars => ChainInv'
<1> SUFFICES ASSUME ChainInv, [Next]_vars PROVE ChainInv'
  OBVIOUS
<1>0. TypeOK /\ ChainTypeOK /\ Chronological /\ Stretch
  BY DEF ChainInv, TypeOK
<1>1. CASE UNCHANGED <<chain, database>>
  <2>1. ChainTypeOK' /\ Chronological' /\ Stretch' /\ Commits' = Commits /\ Reveals' = Reveals
    BY <1>0, <1>1 DEF chain, database, ChainTypeOK, Chronological, Stretch, Positions,
                      Commits, Reveals
  <2>2. CASE CheckCommits
    BY <1>0, <2>1, <2>2 DEF CheckCommits, TypeOK, Answered, ChainInv
  <2>3. CASE QueryCommits
    <3>1. commits' \subseteq Commits
      BY <1>0, <2>3, QueryType DEF QueryCommits
    <3> QED BY <1>0, <2>1, <2>3, <3>1 DEF QueryCommits, TypeOK, ChainInv
  <2>4. CASE CheckReveals
    <3>1. RevealsStatus \in {"OK", "NOT_OK", "TIMEOUT_OK"}
      BY DEF RevealsStatus
    <3> QED BY <1>0, <2>1, <2>4, <3>1 DEF CheckReveals, TypeOK, ChainInv
  <2>5. CASE QueryReveals
    <3>1. reveals' \subseteq Reveals
      BY <1>0, <2>5, QueryType DEF QueryReveals
    <3> QED BY <1>0, <2>1, <2>5, <3>1 DEF QueryReveals, TypeOK, ChainInv
  <2>6. ASSUME NEW r \in AskedRounds, AskAgain(r) PROVE ChainInv'
    BY <1>0, <2>1, <2>6 DEF AskAgain, TypeOK, ChainInv
  <2>7. CASE UNCHANGED request
    BY <1>0, <2>1, <2>7 DEF request, TypeOK, ChainInv
  <2> QED BY <2>2, <2>3, <2>4, <2>5, <2>6, <2>7 DEF Next, Request, vars
<1>2. CASE EnvStep /\ UNCHANGED request
  <2>1. ChainTypeOK' /\ Chronological' /\ Stretch'
    BY <1>0, <1>2, EnvChain
  <2>2. Commits \subseteq Commits' /\ Reveals \subseteq Reveals'
    BY <1>0, <1>2, EnvKeeps
  <2> QED BY <1>0, <1>2, <2>1, <2>2 DEF TypeOK, ChainInv, request
<1>3. UNCHANGED <<chain, database>> \/ (EnvStep /\ UNCHANGED request)
  BY EnvironmentStep
     DEF Next, Request, CheckCommits, QueryCommits, CheckReveals, QueryReveals, AskAgain, vars
<1> QED BY <1>1, <1>2, <1>3

\* The state of chain, database and request keeps its types, whatever the history.
THEOREM TypeCorrect ==
    Spec => []TypeOK
<1>1. Init => ChainInv
  BY InitInv DEF IInv
<1>2. ChainInv => TypeOK
  BY DEF ChainInv
<1> QED BY <1>1, <1>2, ChainInvariant, PTL DEF Spec

-----------------------------------------------------------------------------
(* What is read is complete *)

\* Time ranges depend on the round asked for alone.
LEMMA RangesFixed ==
    UNCHANGED round => /\ CommitsFrom' = CommitsFrom /\ CommitsTo' = CommitsTo
                       /\ RevealsFrom' = RevealsFrom /\ RevealsTo' = RevealsTo
BY DEF CommitsFrom, CommitsTo, RevealsFrom, RevealsTo, Start, End, DeadlineSec

\* A query over a range the database covers finds all of it, and nothing will be
\* added to it.
LEMMA QueryComplete ==
    ASSUME ChainTypeOK, Chronological, Stretch, NEW s \in Int, NEW e \in Int,
           LowerBlockOK(s), TopBlockOK(e)
    PROVE  /\ Query("submit1", s, e) = InRange(Commits, s, e)
           /\ Query("submit2", s, e) = InRange(Reveals, s, e)
           /\ now > e
<1>0. /\ \A i \in Positions : txs[i].time \in Nat
      /\ Len(txs) \in Nat /\ now \in Nat
      /\ first \in Nat /\ top \in Nat /\ first <= top /\ top <= now
      /\ dropped \in Nat /\ indexed \in Nat /\ dropped <= indexed /\ indexed <= Len(txs)
  BY Fields
<1>1. running /\ first < s /\ top > e
  BY DEF LowerBlockOK, TopBlockOK
<1>2. ASSUME NEW i \in Positions, s <= txs[i].time, txs[i].time <= e
      PROVE  i \in (dropped + 1)..indexed
  <2>1. ~(i \in 1..dropped)
    BY <1>0, <1>1, <1>2 DEF Stretch
  <2>2. ~(i \in (indexed + 1)..Len(txs))
    BY <1>0, <1>1, <1>2 DEF Stretch
  <2> QED BY <1>0, <2>1, <2>2 DEF Positions
<1>3. (dropped + 1)..indexed \subseteq Positions
  BY <1>0 DEF Positions
<1> QED BY <1>0, <1>1, <1>2, <1>3 DEF Query, InRange, Commits, Reveals

\* What the environment does keeps a covered range covered while a query is due.
LEMMA EnvCovered ==
    ASSUME KeepsHistory, IInv, EnvStep, UNCHANGED request
    PROVE  Covered'
<1>0. ChainTypeOK /\ Stretch /\ Covered
  BY DEF IInv, ChainInv, TypeOK
<1>1. /\ top \in Nat /\ now \in Nat /\ Len(txs) \in Nat /\ indexed \in Nat
      /\ \A i \in Positions : txs[i].time \in Nat
      /\ round \in AskedRounds
  BY <1>0, Fields DEF IInv, ChainInv, TypeOK
<1>2. CASE pc \in {"checkCommits", "checkReveals", "answered"}
  BY <1>2 DEF Covered, request
<1>3. CASE pc \in {"queryCommits", "queryReveals"}
  <2>1. ASSUME running PROVE running' /\ first' = first /\ top' \in Nat /\ top <= top'
    <3>1. CASE IndexSubmission
      <4>1. indexed + 1 \in (indexed + 1)..Len(txs) /\ indexed + 1 \in Positions
        BY <1>1, <3>1 DEF IndexSubmission, Positions
      <4> QED BY <1>0, <1>1, <2>1, <3>1, <4>1 DEF IndexSubmission, Stretch
    <3>2. CASE IndexOtherBlock
      BY <1>1, <2>1, <3>2 DEF IndexOtherBlock
    <3>3. CASE UNCHANGED database
      BY <1>1, <2>1, <3>3 DEF database
    <3> QED BY <1>3, <2>1, <3>1, <3>2, <3>3
            DEF EnvStep, Submit, Tick, IndexFirstBlock
  <2>2. /\ CommitsFrom' = CommitsFrom /\ CommitsTo' = CommitsTo
        /\ RevealsFrom' = RevealsFrom /\ RevealsTo' = RevealsTo
        /\ UNCHANGED <<pc, reply>>
    BY RangesFixed DEF request
  <2>3. CommitsTo \in Int /\ RevealsTo \in Int
    BY <1>1, Ranges
  <2> QED BY <1>0, <1>1, <2>1, <2>2, <2>3 DEF Covered, LowerBlockOK, TopBlockOK
<1>4. pc \in {"checkCommits", "queryCommits", "checkReveals", "queryReveals", "answered"}
  BY DEF IInv, ChainInv, TypeOK
<1> QED BY <1>2, <1>3, <1>4

\* Nothing is added to a range the clock has passed.
LEMMA RangeClosed ==
    ASSUME ChainTypeOK, EnvStep, NEW s \in Int, NEW e \in Int, now > e
    PROVE  /\ now' > e
           /\ InRange(Commits, s, e)' = InRange(Commits, s, e)
           /\ InRange(Reveals, s, e)' = InRange(Reveals, s, e)
<1>1. /\ Positions \subseteq Positions'
      /\ \A i \in Positions : txs'[i] = txs[i]
      /\ now <= now' /\ now' \in Nat /\ now \in Nat
      /\ \A i \in Positions' : i \in Positions \/ txs'[i].time = now
  BY EnvKeeps, Fields
<1>2. now' > e
  BY <1>1
<1>3. ASSUME NEW i \in Positions', i \notin Positions PROVE ~(txs'[i].time <= e)
  BY <1>1, <1>3
<1>4. InRange(Commits, s, e)' = InRange(Commits, s, e)
  BY <1>1, <1>3 DEF InRange, Commits
<1>5. InRange(Reveals, s, e)' = InRange(Reveals, s, e)
  BY <1>1, <1>3 DEF InRange, Reveals
<1> QED BY <1>2, <1>4, <1>5

LEMMA ReadingInvariant ==
    ASSUME KeepsHistory, IInv, [Next]_vars
    PROVE  Covered' /\ ReadAll'
<1>0. /\ ChainTypeOK /\ Chronological /\ Stretch /\ Covered /\ ReadAll
      /\ round \in AskedRounds
      /\ pc \in {"checkCommits", "queryCommits", "checkReveals", "queryReveals", "answered"}
  BY DEF IInv, ChainInv, TypeOK
<1>1. /\ CommitsFrom \in Int /\ CommitsTo \in Int
      /\ RevealsFrom \in Int /\ RevealsTo \in Int
  BY <1>0, Ranges
<1>2. CASE UNCHANGED <<chain, database, round>>
  <2>1. /\ CommitsFrom' = CommitsFrom /\ CommitsTo' = CommitsTo
        /\ RevealsFrom' = RevealsFrom /\ RevealsTo' = RevealsTo
    BY <1>2, RangesFixed
  <2>2. /\ now' = now
        /\ InRange(Commits, CommitsFrom, CommitsTo)' = InRange(Commits, CommitsFrom, CommitsTo)
        /\ InRange(Reveals, RevealsFrom, RevealsTo)' = InRange(Reveals, RevealsFrom, RevealsTo)
        /\ LowerBlockOK(CommitsFrom)' = LowerBlockOK(CommitsFrom)
        /\ TopBlockOK(CommitsTo)' = TopBlockOK(CommitsTo)
        /\ LowerBlockOK(RevealsFrom)' = LowerBlockOK(RevealsFrom)
        /\ TopBlockOK(RevealsTo)' = TopBlockOK(RevealsTo)
    BY <1>2, <2>1 DEF chain, database, InRange, Commits, Reveals, Positions,
                      LowerBlockOK, TopBlockOK
  <2>3. CASE CheckCommits
    BY <1>0, <2>1, <2>2, <2>3 DEF CheckCommits, CommitsAvailable, Covered, ReadAll
  <2>4. CASE QueryCommits
    <3>1. commits' = InRange(Commits, CommitsFrom, CommitsTo) /\ now > CommitsTo
      BY <1>0, <1>1, <2>4, QueryComplete DEF QueryCommits, Covered
    <3> QED BY <1>0, <2>1, <2>2, <2>4, <3>1 DEF QueryCommits, Covered, ReadAll
  <2>5. CASE CheckReveals
    <3>1. RevealsStatus = "OK" => LowerBlockOK(RevealsFrom) /\ TopBlockOK(RevealsTo)
      BY DEF RevealsStatus
    <3> QED BY <1>0, <2>1, <2>2, <2>5, <3>1 DEF CheckReveals, Covered, ReadAll
  <2>6. CASE QueryReveals
    <3>1. reply = "OK" =>
              reveals' = InRange(Reveals, RevealsFrom, RevealsTo) /\ now > RevealsTo
      BY <1>0, <1>1, <2>6, QueryComplete DEF QueryReveals, Covered
    <3> QED BY <1>0, <2>1, <2>2, <2>6, <3>1 DEF QueryReveals, Covered, ReadAll
  <2>7. CASE UNCHANGED request
    BY <1>0, <2>1, <2>2, <2>7 DEF request, Covered, ReadAll
  <2>8. CASE pc' = "checkCommits"
    BY <2>8 DEF Covered, ReadAll
  <2> QED BY <2>3, <2>4, <2>5, <2>6, <2>7, <2>8 DEF Next, Request, AskAgain, vars
<1>3. ASSUME NEW r \in AskedRounds, AskAgain(r) PROVE Covered' /\ ReadAll'
  BY <1>3 DEF AskAgain, Covered, ReadAll
<1>4. CASE EnvStep /\ UNCHANGED request
  <2>1. Covered'
    BY <1>4, EnvCovered
  <2>2. /\ CommitsFrom' = CommitsFrom /\ CommitsTo' = CommitsTo
        /\ RevealsFrom' = RevealsFrom /\ RevealsTo' = RevealsTo
        /\ UNCHANGED <<pc, commits, reveals, reply>>
    BY <1>4, RangesFixed DEF request
  <2>3. ASSUME now > CommitsTo
        PROVE  /\ now' > CommitsTo'
               /\ InRange(Commits, CommitsFrom, CommitsTo)'
                      = InRange(Commits, CommitsFrom, CommitsTo)
    <3>1. PICK s \in Int, e \in Int : s = CommitsFrom /\ e = CommitsTo
      BY <1>1
    <3>2. now' > e /\ InRange(Commits, s, e)' = InRange(Commits, s, e)
      BY <1>0, <1>4, <2>3, <3>1, RangeClosed
    <3> QED BY <2>2, <3>1, <3>2 DEF InRange
  <2>4. ASSUME now > RevealsTo
        PROVE  /\ now' > RevealsTo'
               /\ InRange(Reveals, RevealsFrom, RevealsTo)'
                      = InRange(Reveals, RevealsFrom, RevealsTo)
    <3>1. PICK s \in Int, e \in Int : s = RevealsFrom /\ e = RevealsTo
      BY <1>1
    <3>2. now' > e /\ InRange(Reveals, s, e)' = InRange(Reveals, s, e)
      BY <1>0, <1>4, <2>4, <3>1, RangeClosed
    <3> QED BY <2>2, <3>1, <3>2 DEF InRange
  <2>5. ReadAll'
    BY <1>0, <2>2, <2>3, <2>4 DEF ReadAll
  <2> QED BY <2>1, <2>5
<1> QED BY <1>2, <1>3, <1>4, EnvironmentStep
        DEF Next, Request, CheckCommits, QueryCommits, CheckReveals, QueryReveals, vars, request

LEMMA Invariant ==
    ASSUME KeepsHistory
    PROVE  Spec => []IInv
<1>1. IInv /\ [Next]_vars => IInv'
  BY ChainInvariant, ReadingInvariant DEF IInv
<1> QED BY <1>1, InitInv, PTL DEF Spec

-----------------------------------------------------------------------------
(* The answer is final *)

\* In the rounds the result is made of, what was read gives the last commits and
\* reveals of the whole chain.
LEMMA LastCommitsRead ==
    ASSUME ChainTypeOK, round \in AskedRounds,
           commits = InRange(Commits, CommitsFrom, CommitsTo),
           NEW q \in (round - BenchingWindow)..round
    PROVE  LastCommits(commits, q) = LastCommits(Commits, q)
<1>1. \A i \in Commits : txs[i].time \in Int
  BY Fields DEF Commits
<1>2. \A i \in Commits : InRound(txs[i].time, q) => i \in commits
  BY <1>1, CommitInRange DEF InRange
<1>3. commits \subseteq Commits
  BY DEF InRange
<1>4. \A v \in Voters : CommitsBy(v, commits, q) = CommitsBy(v, Commits, q)
  BY <1>2, <1>3 DEF CommitsBy
<1> QED BY <1>4 DEF LastCommits

LEMMA LastRevealsRead ==
    ASSUME ChainTypeOK, round \in AskedRounds,
           reveals = InRange(Reveals, RevealsFrom, RevealsTo),
           NEW q \in (round - BenchingWindow)..round
    PROVE  LastReveals(reveals, q) = LastReveals(Reveals, q)
<1>1. \A i \in Reveals : txs[i].time \in Int
  BY Fields DEF Reveals
<1>2. \A i \in Reveals :
          InRound(txs[i].time, q + 1) /\ txs[i].time - Start(q + 1) < RevealDeadline
              => i \in reveals
  BY <1>1, RevealInRange DEF InRange
<1>3. reveals \subseteq Reveals
  BY DEF InRange
<1>4. \A v \in Voters : RevealsBy(v, reveals, q) = RevealsBy(v, Reveals, q)
  BY <1>2, <1>3 DEF RevealsBy
<1> QED BY <1>4 DEF LastReveals

\* The benching window lies among those rounds.
LEMMA BenchingRounds ==
    ASSUME round \in AskedRounds
    PROVE  /\ FirstBenchingRound(round)..(round - 1) \subseteq (round - BenchingWindow)..round
           /\ round \in (round - BenchingWindow)..round
BY Ranges, VotingRoundAssumption DEF FirstBenchingRound

\* Every answer has all commits, on timeout too, if no history is dropped meanwhile.
THEOREM CommitsAreFinal ==
    ASSUME KeepsHistory
    PROVE  Spec => []CommitsFinal
<1>1. IInv => CommitsFinal
  BY LastCommitsRead DEF IInv, ChainInv, TypeOK, ReadAll, CommitsFinal, Answered
<1> QED BY <1>1, Invariant, PTL

\* An answer with status OK is the one the whole chain gives.
THEOREM ResultIsFinal ==
    ASSUME KeepsHistory
    PROVE  Spec => []ResultFinal
<1>1. ASSUME IInv, Answered, reply = "OK"
      PROVE  Answer = DataForCalculations(Commits, Reveals, round)
  <2>0. /\ ChainTypeOK /\ round \in AskedRounds
        /\ commits = InRange(Commits, CommitsFrom, CommitsTo)
        /\ reveals = InRange(Reveals, RevealsFrom, RevealsTo)
    BY <1>1 DEF IInv, ChainInv, TypeOK, ReadAll, Answered
  <2>1. \A q \in (round - BenchingWindow)..round :
            /\ LastCommits(commits, q) = LastCommits(Commits, q)
            /\ LastReveals(reveals, q) = LastReveals(Reveals, q)
    BY <2>0, LastCommitsRead, LastRevealsRead
  <2>2. /\ LastCommits(commits, round) = LastCommits(Commits, round)
        /\ LastReveals(reveals, round) = LastReveals(Reveals, round)
    BY <2>0, <2>1, BenchingRounds
  <2>3. BenchingWindowRevealOffenders(commits, reveals, round)
            = BenchingWindowRevealOffenders(Commits, Reveals, round)
    BY <2>0, <2>1, BenchingRounds DEF BenchingWindowRevealOffenders
  <2> QED BY <2>2, <2>3 DEF Answer, DataForCalculations
<1>2. IInv => ResultFinal
  BY <1>1 DEF ResultFinal
<1> QED BY <1>2, Invariant, PTL

-----------------------------------------------------------------------------
(* The secure random *)

\* If no offender is out of the bench, the terms of the random are the commits of the
\* eligible voters out of the bench.
LEMMA SecureTerms ==
    ASSUME NEW C, NEW V, NEW r, IsSecure(DataForCalculations(C, V, r)),
           NEW c, c = LastCommits(C, r)
    PROVE  LET data == DataForCalculations(C, V, r)
           IN  Terms(data) = [v \in (DOMAIN c \cap Eligible) \ data.benched |-> c[v]]
<1> DEFINE data == DataForCalculations(C, V, r)
           s == LastReveals(V, r)
           b == BenchingWindowRevealOffenders(C, V, r)
<1>1. /\ data.valid = [v \in ValidReveals(c, s) |-> s[v]]
      /\ data.offenders = RevealOffenders(c, s) \cap Eligible
      /\ data.benched = b
  BY DEF DataForCalculations
<1>2. DOMAIN data.valid = ValidReveals(c, s)
  BY <1>1
<1>3. data.offenders \subseteq data.benched
  BY DEF IsSecure
<1> HIDE DEF data, s, b
<1>4. Counted(data) = (DOMAIN c \cap Eligible) \ data.benched
  BY <1>1, <1>2, <1>3 DEF Counted, ValidReveals, RevealOffenders
<1>5. \A v \in Counted(data) : data.valid[v] = c[v]
  BY <1>1, <1>2 DEF Counted, ValidReveals, Matches
<1>6. Terms(data) = [v \in (DOMAIN c \cap Eligible) \ data.benched |-> c[v]]
  BY <1>4, <1>5 DEF Terms
<1> QED BY <1>6 DEF data

\* A secure random is made of what was committed to when the round ended.
THEOREM SecureRandomFixed ==
    ASSUME KeepsHistory
    PROVE  Spec => []SecureRandom
<1>1. ASSUME IInv, Answered, IsSecure(Answer)
      PROVE  Terms(Answer) =
                 [v \in (DOMAIN CommittedTo(round) \cap Eligible) \ Answer.benched
                    |-> CommittedTo(round)[v]]
  <2>0. /\ ChainTypeOK /\ round \in AskedRounds
        /\ commits = InRange(Commits, CommitsFrom, CommitsTo)
    BY <1>1 DEF IInv, ChainInv, TypeOK, ReadAll, Answered
  <2>1. LastCommits(commits, round) = LastCommits(Commits, round)
    BY <2>0, LastCommitsRead, BenchingRounds
  <2>2. CommittedTo(round) = LastCommits(Commits, round)
    <3>1. ASSUME NEW i \in Commits, InRound(txs[i].time, round)
          PROVE  txs[i].time <= End(round)
      <4>1. txs[i].time \in Int
        BY <2>0, Fields DEF Commits
      <4> QED BY <2>0, <3>1, <4>1, CommitInRange, BenchingRounds DEF CommitsTo
    <3>2. \A v \in Voters :
              CommitsBy(v, {i \in Commits : txs[i].time <= End(round)}, round)
                  = CommitsBy(v, Commits, round)
      BY <3>1 DEF CommitsBy
    <3> QED BY <3>2 DEF CommittedTo, LastCommits
  <2> QED BY <1>1, <2>1, <2>2, SecureTerms DEF Answer
<1>2. IInv => SecureRandom
  BY <1>1 DEF SecureRandom
<1> QED BY <1>2, Invariant, PTL
=============================================================================
