----------------------------- MODULE VotingRound -----------------------------
(***************************************************************************)
(* getDataForCalculations of DataManager and calculateRandom: the answer a *)
(* data provider gives for a voting round.                                 *)
(*                                                                         *)
(* A request reads the commits and then the reveals of the round and of    *)
(* the benching window before it.  Each read is two steps, with an await   *)
(* between them: a check that the database covers the time range, and the  *)
(* query.  The chain and the indexer move on meanwhile.                    *)
(***************************************************************************)
EXTENDS SubmissionChain, FiniteSets

CONSTANTS
    Eligible,          \* submit addresses of the reward epoch's voters
    BenchingWindow,    \* RANDOM_GENERATION_BENCHING_WINDOW
    MinRevealers,      \* NON_BENCHED_RANDOM_VOTERS_MIN_COUNT
    FirstEpochStart,   \* first and last voting round of the reward epoch
    FirstEpochEnd,     \*   after the genesis one
    AskedRounds,       \* bound: voting rounds results are asked for
    NoReply            \* not answered yet

ASSUME VotingRoundAssumption ==
    /\ Eligible \subseteq Voters
    /\ BenchingWindow \in Nat
    /\ MinRevealers \in Nat
    /\ FirstEpochStart \in Int /\ FirstEpochEnd \in Int
    /\ AskedRounds \subseteq Int
    /\ NoReply \notin {"OK", "NOT_OK", "TIMEOUT_OK"}

VARIABLES
    pc,       \* the step the request is at
    round,    \* the voting round asked for
    commits,  \* positions of the submit1 transactions read
    reveals,  \* positions of the submit2 transactions read
    reply     \* status of the answer

request == <<pc, round, commits, reveals, reply>>
vars == <<chain, database, request>>

-----------------------------------------------------------------------------
(* DataManager on the submissions at a set P of positions *)

LastOf(I) == CHOOSE i \in I : \A j \in I : j <= i

CommitsBy(v, P, r) ==
    {i \in P : /\ txs[i].voter = v
               /\ InRound(txs[i].time, r) /\ txs[i].round = r
               /\ txs[i].payload # Junk}

RevealsBy(v, P, r) ==
    {i \in P : /\ txs[i].voter = v
               /\ InRound(txs[i].time, r + 1) /\ txs[i].round = r
               /\ txs[i].time - Start(r + 1) < RevealDeadline
               /\ txs[i].payload # Junk}

LastCommits(P, r) ==
    [v \in {w \in Voters : CommitsBy(w, P, r) # {}} |-> txs[LastOf(CommitsBy(v, P, r))].payload]

LastReveals(P, r) ==
    [v \in {w \in Voters : RevealsBy(w, P, r) # {}} |-> txs[LastOf(RevealsBy(v, P, r))].payload]

Matches(v, c, s) == v \in DOMAIN s /\ s[v] = c[v]

ValidReveals(c, s) == {v \in DOMAIN c \cap Eligible : Matches(v, c, s)}

\* Mutant: only a reveal that opens another value is an offence, not a missing one.
WrongReveals(c, s) == {v \in DOMAIN c : v \in DOMAIN s /\ s[v] # c[v]}

RevealOffenders(c, s) == {v \in DOMAIN c : ~Matches(v, c, s)}

FirstBenchingRound(r) ==
    IF r \in FirstEpochStart..FirstEpochEnd /\ r - BenchingWindow < FirstEpochStart
    THEN FirstEpochStart
    ELSE r - BenchingWindow

BenchingWindowRevealOffenders(C, V, r) ==
    UNION {RevealOffenders(LastCommits(C, q), LastReveals(V, q)) :
              q \in FirstBenchingRound(r)..(r - 1)}

DataForCalculations(C, V, r) ==
    LET c == LastCommits(C, r)
        s == LastReveals(V, r)
    IN  [valid     |-> [v \in ValidReveals(c, s) |-> s[v]],
         offenders |-> RevealOffenders(c, s) \cap Eligible,
         benched   |-> BenchingWindowRevealOffenders(C, V, r)]

\* The voters whose numbers the random is made of.
Counted(data) == DOMAIN data.valid \ data.benched

\* calculateRandom adds up the terms, modulo 2^256.
Terms(data) == [v \in Counted(data) |-> data.valid[v]]

IsSecure(data) ==
    /\ data.offenders \subseteq data.benched
    /\ Cardinality(Counted(data)) >= MinRevealers

-----------------------------------------------------------------------------
Init ==
    /\ ChainInit
    /\ pc = "checkCommits"
    /\ round \in AskedRounds
    /\ commits = {} /\ reveals = {}
    /\ reply = NoReply

CommitsFrom == Start(round - BenchingWindow)
CommitsTo   == End(round)
RevealsFrom == Start(round - BenchingWindow + 1)
RevealsTo   == DeadlineSec(round + 1)

\* Mutant: commits are taken on timeout too.
CommitsOnTimeout ==
    LowerBlockOK(CommitsFrom) /\ (TopBlockOK(CommitsTo) \/ TopBlockTimeoutOK(CommitsTo))

CommitsAvailable == LowerBlockOK(CommitsFrom) /\ TopBlockOK(CommitsTo)

CheckCommits ==
    /\ pc = "checkCommits"
    /\ IF CommitsAvailable
       THEN pc' = "queryCommits" /\ reply' = NoReply
       ELSE UNCHANGED pc /\ reply' = "NOT_OK"
    /\ UNCHANGED <<chain, database, round, commits, reveals>>

QueryCommits ==
    /\ pc = "queryCommits"
    /\ commits' = Query("submit1", CommitsFrom, CommitsTo)
    /\ pc' = "checkReveals"
    /\ UNCHANGED <<chain, database, round, reveals, reply>>

RevealsStatus ==
    IF ~LowerBlockOK(RevealsFrom) THEN "NOT_OK"
    ELSE IF TopBlockOK(RevealsTo) THEN "OK"
    ELSE IF TopBlockTimeoutOK(RevealsTo) THEN "TIMEOUT_OK" ELSE "NOT_OK"

\* Mutant: the reveals are read whatever the check says.
CheckRevealsInVain ==
    /\ pc = "checkReveals"
    /\ reply' = RevealsStatus
    /\ pc' = "queryReveals"
    /\ UNCHANGED <<chain, database, round, commits, reveals>>

CheckReveals ==
    /\ pc = "checkReveals"
    /\ reply' = RevealsStatus
    /\ IF RevealsStatus = "NOT_OK"
       THEN pc' = "checkCommits" /\ commits' = {}
       ELSE pc' = "queryReveals" /\ UNCHANGED commits
    /\ UNCHANGED <<chain, database, round, reveals>>

QueryReveals ==
    /\ pc = "queryReveals"
    /\ reveals' = Query("submit2", RevealsFrom, RevealsTo)
    /\ pc' = "answered"
    /\ UNCHANGED <<chain, database, round, commits, reply>>

\* A result is asked for again, for this round or for another.
AskAgain(r) ==
    /\ pc = "answered"
    /\ pc' = "checkCommits"
    /\ round' = r
    /\ commits' = {} /\ reveals' = {}
    /\ reply' = NoReply
    /\ UNCHANGED <<chain, database>>

Request == CheckCommits \/ QueryCommits \/ CheckReveals \/ QueryReveals

Environment ==
    \/ \E kind \in {"submit1", "submit2"}, v \in Voters, p \in Values \cup {Junk},
          q \in AskedRounds, k \in 0..BenchingWindow : Submit(kind, v, q - k, p)
    \/ /\ Tick \/ IndexFirstBlock \/ IndexSubmission \/ IndexOtherBlock
    \/ /\ KeepsHistory => pc \in {"checkCommits", "answered"}
       /\ \E d \in dropped..indexed, t \in first..top : DropHistory(d, t)

Next ==
    \/ Request
    \/ \E r \in AskedRounds : AskAgain(r)
    \/ Environment /\ UNCHANGED request

Spec == Init /\ [][Next]_vars

\* The database answers, and the clock goes on; the indexer may stop.
FairSpec == Spec /\ WF_vars(Request) /\ WF_vars(Tick /\ UNCHANGED request)
-----------------------------------------------------------------------------
Positions == 1..Len(txs)
Commits == {i \in Positions : txs[i].kind = "submit1"}
Reveals == {i \in Positions : txs[i].kind = "submit2"}

Answered == pc = "answered"
Answer == DataForCalculations(commits, reveals, round)

TypeOK ==
    /\ ChainTypeOK
    /\ pc \in {"checkCommits", "queryCommits", "checkReveals", "queryReveals", "answered"}
    /\ round \in AskedRounds
    /\ commits \subseteq Commits /\ reveals \subseteq Reveals
    /\ reply \in {NoReply, "OK", "NOT_OK", "TIMEOUT_OK"}
    /\ pc \in {"queryReveals", "answered"} => reply \in {"OK", "TIMEOUT_OK"}

(***************************************************************************)
(* An answer with status OK is the one the whole chain gives, now and      *)
(* later: every data provider that answers OK for a round finds the same   *)
(* valid reveals, offenders, benched voters and random, however far its    *)
(* own indexer is.  (ensureTopBlock, getSubmissionDataInRange)             *)
(***************************************************************************)
ResultFinal ==
    Answered /\ reply = "OK" => Answer = DataForCalculations(Commits, Reveals, round)

(***************************************************************************)
(* The timeout is only for reveals: an answer given on timeout still has   *)
(* every commit of the round and of the benching window, so an offender is *)
(* never overlooked for want of a commit.                                  *)
(* (getCommitAndRevealMappingsForVotingRoundRange)                         *)
(***************************************************************************)
CommitsFinal ==
    Answered =>
        \A q \in (round - BenchingWindow)..round :
            LastCommits(commits, q) = LastCommits(Commits, q)

(***************************************************************************)
(* A secure random is the sum of what eligible voters out of the bench had *)
(* committed to when the round ended.  Revealing, withholding or spoiling  *)
(* a reveal afterwards can take the security away but not change the       *)
(* number, on timeout too.  (calculateRandom, getRevealOffenders)          *)
(***************************************************************************)
CommittedTo(r) ==
    LastCommits({i \in Commits : txs[i].time <= End(r)}, r)

SecureRandom ==
    Answered /\ IsSecure(Answer) =>
        LET fixed == CommittedTo(round)
        IN  Terms(Answer) = [v \in (DOMAIN fixed \cap Eligible) \ Answer.benched |-> fixed[v]]

(***************************************************************************)
(* Once the commits of the round asked for are in the database, the client *)
(* that keeps asking gets an answer, if need be on timeout when the        *)
(* indexer has stopped, unless the history it needs is dropped.            *)
(* (ensureTopBlock)                                                        *)
(***************************************************************************)
EventuallyAnswered ==
    \A r \in AskedRounds :
        round = r /\ CommitsAvailable ~> Answered \/ ~LowerBlockOK(CommitsFrom)
=============================================================================
