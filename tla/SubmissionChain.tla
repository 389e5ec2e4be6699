--------------------------- MODULE SubmissionChain ---------------------------
(***************************************************************************)
(* The commit and reveal transactions of the Submission contract, and as   *)
(* much of them as the C-chain indexer has put in its database.  Chain,    *)
(* indexer and clock are external; EpochSettings, ensureLowerBlock,        *)
(* ensureTopBlock and queryTransactions are the repository's.              *)
(*                                                                         *)
(* Time is counted in seconds; block timestamps never decrease and may     *)
(* repeat.  A submission carries one message of the FTSO protocol: for a   *)
(* commit, the value whose hash is committed, for a reveal the value.      *)
(* Both stand for the pair of random number and encoded feed values, and   *)
(* Junk for a payload that does not parse.  A hash over address and round  *)
(* is opened by no other value, so a commit matches a reveal of the same   *)
(* address and round exactly when the values are equal.                    *)
(***************************************************************************)
EXTENDS Integers, Sequences

CONSTANTS
    Voters,         \* submit addresses
    Values,         \* random numbers and feed values a voter may commit to
    Junk,           \* a payload no decoder accepts
    FirstStart,     \* firstVotingRoundStartTs
    RoundLength,    \* votingEpochDurationSeconds
    RevealDeadline, \* revealDeadlineSeconds
    Timeout,        \* indexer_top_timeout, 0 for none
    KeepsHistory,   \* is history dropped only while no request runs?
    MaxTime,        \* bound: last second of the clock
    MaxTxs          \* bound: submissions on chain

ASSUME SubmissionChainAssumption ==
    /\ Junk \notin Values
    /\ FirstStart \in Nat
    /\ RoundLength \in Nat \ {0}
    /\ RevealDeadline \in 1..RoundLength
    /\ Timeout \in Nat
    /\ KeepsHistory \in BOOLEAN
    /\ MaxTime \in Nat
    /\ MaxTxs \in Nat

VARIABLES
    now,      \* the clock
    txs,      \* the submissions on chain, in block order
    running,  \* does the database hold a block?
    first,    \* timestamp of the first block in the database
    top,      \* timestamp of the last block in the database
    dropped,  \* how many submissions lie before the first block
    indexed   \* how many lie before the end of the last block

chain == <<now, txs>>
database == <<running, first, top, dropped, indexed>>

Submission ==
    [time : Nat, kind : {"submit1", "submit2"}, voter : Voters, round : Int,
     payload : Values \cup {Junk}]

-----------------------------------------------------------------------------
(* EpochSettings *)

Start(r) == FirstStart + r * RoundLength

End(r) == Start(r + 1) - 1

DeadlineSec(r) == Start(r) + RevealDeadline - 1

\* votingEpochForTimeSec(t) is r.
InRound(t, r) == Start(r) <= t /\ t < Start(r + 1)

-----------------------------------------------------------------------------
(* IndexerClient *)

LowerBlockOK(s) == running /\ first < s

\* Mutant: a block at the end of the range is enough.
TopBlockReached(e) == running /\ top >= e

TopBlockOK(e) == running /\ top > e

\* Mutant: the timeout is never consulted.
TimeoutIgnored(e) == FALSE

TopBlockTimeoutOK(e) == running /\ ~TopBlockOK(e) /\ Timeout > 0 /\ now > e + Timeout

\* The positions of the submissions a query from second s to second e returns.
Query(kind, s, e) ==
    {i \in (dropped + 1)..indexed :
        txs[i].kind = kind /\ s <= txs[i].time /\ txs[i].time <= e}

-----------------------------------------------------------------------------
ChainInit ==
    /\ now = 0
    /\ txs = << >>
    /\ running = FALSE
    /\ first = 0 /\ top = 0 /\ dropped = 0 /\ indexed = 0

\* A message for the current voting round or the one before is sent.
Submit(kind, v, r, p) ==
    /\ Len(txs) < MaxTxs
    /\ InRound(now, r) \/ InRound(now, r + 1)
    /\ txs' = Append(txs, [time |-> now, kind |-> kind, voter |-> v, round |-> r,
                           payload |-> p])
    /\ UNCHANGED <<now, database>>

Tick ==
    /\ now < MaxTime
    /\ now' = now + 1
    /\ UNCHANGED <<txs, database>>

\* The indexer stores its first block, the latest on chain.
IndexFirstBlock ==
    /\ ~running
    /\ running' = TRUE
    /\ first' = now /\ top' = now
    /\ dropped' = Len(txs) /\ indexed' = Len(txs)
    /\ UNCHANGED chain

\* It stores the next block: one with a submission, or one without.
IndexSubmission ==
    /\ running
    /\ indexed < Len(txs)
    /\ indexed' = indexed + 1
    /\ top' = txs[indexed + 1].time
    /\ UNCHANGED <<chain, running, first, dropped>>

IndexOtherBlock ==
    /\ running
    /\ \E t \in (top + 1)..now :
        /\ indexed < Len(txs) => t <= txs[indexed + 1].time
        /\ top' = t
    /\ UNCHANGED <<chain, running, first, dropped, indexed>>

\* It drops the blocks before one that has timestamp t and d submissions before it.
DropHistory(d, t) ==
    /\ running
    /\ d \in dropped..indexed /\ t \in first..top
    /\ <<d, t>> # <<dropped, first>>
    /\ \A i \in 1..d : txs[i].time <= t
    /\ \A i \in (d + 1)..indexed : t <= txs[i].time
    /\ dropped' = d /\ first' = t
    /\ UNCHANGED <<chain, running, top, indexed>>

-----------------------------------------------------------------------------
ChainTypeOK ==
    /\ now \in Nat
    /\ txs \in Seq(Submission)
    /\ running \in BOOLEAN
    /\ first \in 0..top /\ top \in 0..now
    /\ dropped \in 0..indexed /\ indexed \in 0..Len(txs)
=============================================================================
