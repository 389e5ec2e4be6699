--------------------------- MODULE SigningPolicies ---------------------------
(***************************************************************************)
(* What the reward epoch manager reads: the SigningPolicyInitialized       *)
(* events of the Relay contract, as far as the indexer database has them,  *)
(* and the indexer's own record of its first block.  Chain, indexer and    *)
(* clock are external; EpochSettings, secureLowestTimestamp,               *)
(* ensureLowerBlock and getLatestSigningPolicyInitializedEvents are the    *)
(* repository's.                                                           *)
(*                                                                         *)
(* Time is counted in voting rounds.  The signing policy of a reward epoch *)
(* fixes the voting round the epoch starts in.  It is emitted before that  *)
(* round and during the epoch before, and an epoch may start later than    *)
(* the schedule of EpochSettings expects, never earlier.                   *)
(***************************************************************************)
EXTENDS Integers

CONSTANTS
    FirstRound,     \* firstRewardEpochStartVotingRoundId
    EpochLength,    \* rewardEpochDurationInVotingEpochs
    InitialEpoch,   \* INITIAL_REWARD_EPOCH_ID
    MaxEpoch,       \* bound: last reward epoch with a signing policy
    MaxRound,       \* bound: last voting round
    MaxDelay,       \* bound: how many rounds an epoch may start late
    TimelyIndexer   \* is a policy indexed before the first round it is for?

ASSUME SigningPoliciesAssumption ==
    /\ FirstRound \in Nat
    /\ EpochLength \in Nat \ {0}
    /\ InitialEpoch \in Nat
    /\ MaxEpoch \in Nat /\ InitialEpoch <= MaxEpoch
    /\ MaxRound \in Nat
    /\ MaxDelay \in Nat
    /\ TimelyIndexer \in BOOLEAN

VARIABLES
    now,      \* the voting round the clock is in
    latest,   \* last reward epoch whose signing policy is on chain
    start,    \* startVotingRoundId of the epochs up to latest
    emitted,  \* the voting round their events were emitted in
    indexed,  \* last reward epoch whose signing policy is in the database
    bottom    \* voting round of the first block in the database

chain == <<latest, start, emitted>>
indexer == <<indexed, bottom>>
environment == <<now, chain, indexer>>

Epochs == InitialEpoch..MaxEpoch

-----------------------------------------------------------------------------
(* EpochSettings *)

Expected(e) == FirstRound + e * EpochLength

ExpectedEpoch(v) == (v - FirstRound) \div EpochLength

-----------------------------------------------------------------------------
(* IndexerClient *)

\* Mutant: the offset goes the wrong way.
SecureLowestBelow == bottom - 1

SecureLowest == bottom + 1

\* The database reaches back before round r.
LowerBlockOK(r) == bottom < r

\* The epochs whose policies a query from round low on returns.
Policies(low) == {e \in InitialEpoch..indexed : emitted[e] >= low /\ emitted[e] >= bottom}

-----------------------------------------------------------------------------
EnvInit ==
    /\ now = Expected(InitialEpoch)
    /\ latest = InitialEpoch
    /\ start = [e \in Epochs |-> Expected(InitialEpoch)]
    /\ emitted = [e \in Epochs |-> Expected(InitialEpoch)]
    /\ indexed = InitialEpoch
    /\ bottom \in 0..now

\* The signing policy of the next epoch is initialized.
NextPolicy(s) ==
    LET e == latest + 1 IN
    /\ e <= MaxEpoch
    /\ start[latest] <= now
    /\ s > now /\ s >= Expected(e)
    /\ s <= now + 1 + MaxDelay \/ s <= Expected(e) + MaxDelay
    /\ latest' = e
    /\ start' = [start EXCEPT ![e] = s]
    /\ emitted' = [emitted EXCEPT ![e] = now]
    /\ UNCHANGED <<now, indexer>>

IndexPolicy ==
    /\ indexed < latest
    /\ indexed' = indexed + 1
    /\ UNCHANGED <<now, chain, bottom>>

\* The indexer drops the oldest part of its history.
DropHistory ==
    /\ bottom < now
    /\ bottom' = bottom + 1
    /\ UNCHANGED <<now, chain, indexed>>

NewRound ==
    /\ now < MaxRound
    /\ TimelyIndexer => \A e \in (indexed + 1)..latest : now + 1 < start[e]
    /\ now' = now + 1
    /\ UNCHANGED <<chain, indexer>>

EnvNext ==
    \/ \E s \in (now + 1)..(MaxRound + EpochLength + MaxDelay) : NextPolicy(s)
    \/ IndexPolicy \/ DropHistory \/ NewRound

-----------------------------------------------------------------------------
EnvTypeOK ==
    /\ now \in Nat
    /\ latest \in Epochs
    /\ start \in [Epochs -> Nat]
    /\ emitted \in [Epochs -> Nat]
    /\ indexed \in InitialEpoch..latest
    /\ bottom \in 0..now
=============================================================================
