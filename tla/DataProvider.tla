---------------------------- MODULE DataProvider ----------------------------
(***************************************************************************)
(* The commit / reveal life cycle of the FTSO data provider service:       *)
(* FtsoDataProviderController (submit1, submit2, beforeApplicationShutdown)*)
(* on top of FtsoDataProviderService (getCommitData, getRevealData and the *)
(* LRU cache that holds the reveal data between the two requests).         *)
(*                                                                         *)
(* The server is one Node.js process.  A request runs until its next await *)
(* and other requests run in between, so every request handler is cut at   *)
(* its awaits: call[c].pc names the await the handler of request c is      *)
(* suspended at.                                                           *)
(*                                                                         *)
(* Reveal data (feed values and a random) is abstracted to its random:     *)
(* Bytes32.random() never repeats, so every draw is a new number, and the  *)
(* commit hash is injective, so a commit is the random it hides.           *)
(*                                                                         *)
(* The client (Flare Systems Client) is external.  It asks submit1 for     *)
(* voting round v during round v and submit2 for v during round v + 1, and *)
(* waits for the answer before it asks for the same key again, unless      *)
(* ClientTimeouts lets it give up waiting.                                 *)
(***************************************************************************)
EXTENDS Naturals

CONSTANTS
    Addresses,       \* submit addresses the client asks for
    Calls,           \* slots for requests in progress at one time
    CacheSize,       \* voting_round_history_size: capacity of the LRU cache
    MaxRound,        \* bound: last voting round with a submit1
    MaxDraws,        \* bound: number of randoms drawn
    MaxRestarts,     \* bound: number of times the process is started again
    ClientTimeouts,  \* may the client stop waiting for an answer and ask again?
    TimelyClient     \* are answers and submit2 requests in time for the round?

ASSUME DataProviderAssumption ==
    /\ CacheSize \in Nat \ {0}
    /\ MaxRound \in Nat
    /\ MaxDraws \in Nat
    /\ MaxRestarts \in Nat
    /\ ClientTimeouts \in BOOLEAN
    /\ TimelyClient \in BOOLEAN

NoData == 0
Randoms == 1..MaxDraws

\* The cache key: combine(round, address).
Keys == (1..MaxRound) \X Addresses
Round(k) == k[1]

VARIABLES
    now,                \* the voting round the clock is in
    shutdownInitiated,  \* set by beforeApplicationShutdown
    safeLogged,         \* "No more pending reveals, safe to terminate." was logged
    pendingReveals,     \* Set<number> of voting round ids
    votingRoundData,    \* the LRU cache: reveal data per key, NoData when absent
    age,                \* how many cached keys were used after this one
    call,               \* the requests in progress
    drawn,              \* randoms drawn so far
    restarts,           \* process starts so far
    (* What the client has seen; the server does not read these. *)
    commit,             \* last commit received per key
    reveal,             \* last reveal received per key
    answered            \* keys whose commit this process has answered

server == <<shutdownInitiated, safeLogged, pendingReveals>>
cache  == <<votingRoundData, age>>
client == <<commit, reveal, answered>>
vars   == <<now, server, cache, call, drawn, restarts, client>>

-----------------------------------------------------------------------------
(* Requests in progress *)

Idle == [pc |-> "idle"]

Active == [pc : {"epoch", "feeds", "commit", "reveal"}, key : Keys,
           data : Randoms \cup {NoData}, heard : BOOLEAN]

IsActive(c) == call[c].pc # "idle"

\* A commit is being computed for k / the client still waits on k.
Committing(k) == \E c \in Calls : /\ IsActive(c)
                                  /\ call[c].key = k
                                  /\ call[c].pc \in {"epoch", "feeds", "commit"}
Waiting(k) == \E c \in Calls : IsActive(c) /\ call[c].key = k /\ call[c].heard

Suspend(c, pc, k, data) ==
    call' = [call EXCEPT ![c] = [pc |-> pc, key |-> k, data |-> data, heard |-> TRUE]]

Resume(c, pc, data) == call' = [call EXCEPT ![c].pc = pc, ![c].data = data]

Done(c) == call' = [call EXCEPT ![c] = Idle]

-----------------------------------------------------------------------------
(* The LRU cache.  A cached key has an age below CacheSize, an absent one    *)
(* has age CacheSize; using a key makes it the youngest and ages the keys    *)
(* that were used after it by one, so the oldest key of a full cache is      *)
(* dropped when a new one is stored.                                         *)

Aged(k) == [j \in Keys |-> IF j = k THEN 0
                           ELSE IF age[j] < age[k] THEN age[j] + 1
                           ELSE age[j]]

CacheGet(k) == age' = Aged(k) /\ UNCHANGED votingRoundData

\* Mutant: the cache holds one entry less than it was created for.
CacheSetOneShort(k, data) ==
    /\ age' = Aged(k)
    /\ votingRoundData' = [j \in Keys |-> IF j = k THEN data
                                          ELSE IF Aged(k)[j] >= CacheSize - 1 THEN NoData
                                          ELSE votingRoundData[j]]

CacheSet(k, data) ==
    /\ age' = Aged(k)
    /\ votingRoundData' = [j \in Keys |-> IF j = k THEN data
                                          ELSE IF Aged(k)[j] = CacheSize THEN NoData
                                          ELSE votingRoundData[j]]

Cached(k) == votingRoundData[k] # NoData

-----------------------------------------------------------------------------
Init ==
    /\ now = 1
    /\ shutdownInitiated = FALSE
    /\ safeLogged = FALSE
    /\ pendingReveals = {}
    /\ votingRoundData = [k \in Keys |-> NoData]
    /\ age = [k \in Keys |-> CacheSize]
    /\ call = [c \in Calls |-> Idle]
    /\ drawn = 0
    /\ restarts = 0
    /\ commit = [k \in Keys |-> NoData]
    /\ reveal = [k \in Keys |-> NoData]
    /\ answered = {}

\* GET submit1 arrives.  During a shutdown it is refused on the spot, which
\* changes nothing; otherwise the handler asks for the reward epoch.
Submit1(c, k) ==
    /\ ~safeLogged /\ ~shutdownInitiated
    /\ ~IsActive(c) /\ Round(k) = now /\ ~Waiting(k)
    /\ Suspend(c, "epoch", k, NoData)
    /\ UNCHANGED <<now, server, cache, drawn, restarts, client>>

\* Mutant: the cache is looked up by round only.
CommitFromCacheOfRound(c) ==
    /\ IsActive(c) /\ call[c].pc = "epoch"
    /\ \E k \in Keys :
          /\ Round(k) = Round(call[c].key) /\ Cached(k)
          /\ CacheGet(k)
          /\ Resume(c, "commit", votingRoundData[k])
    /\ UNCHANGED <<now, server, drawn, restarts, client>>

\* The reward epoch is known and the cache has data for the key: it is used.
CommitFromCache(c) ==
    /\ IsActive(c) /\ call[c].pc = "epoch"
    /\ Cached(call[c].key)
    /\ CacheGet(call[c].key)
    /\ Resume(c, "commit", votingRoundData[call[c].key])
    /\ UNCHANGED <<now, server, drawn, restarts, client>>

\* Mutant: the cache is not looked up, every request computes its own data.
RequestFeedsAlways(c) ==
    /\ IsActive(c) /\ call[c].pc = "epoch"
    /\ Resume(c, "feeds", NoData)
    /\ UNCHANGED <<now, server, cache, drawn, restarts, client>>

\* No data yet: the feed values are requested from the value provider.
RequestFeeds(c) ==
    /\ IsActive(c) /\ call[c].pc = "epoch"
    /\ ~Cached(call[c].key)
    /\ Resume(c, "feeds", NoData)
    /\ UNCHANGED <<now, server, cache, drawn, restarts, client>>

\* Mutant: the commit hash is computed over a random of its own.
FeedsArriveDrawTwice(c) ==
    /\ IsActive(c) /\ call[c].pc = "feeds"
    /\ drawn + 1 < MaxDraws
    /\ drawn' = drawn + 2
    /\ CacheSet(call[c].key, drawn + 1)
    /\ Resume(c, "commit", drawn + 2)
    /\ UNCHANGED <<now, server, restarts, client>>

\* The feed values arrive, a fresh random is drawn and both are cached,
\* whatever the cache holds for the key by now.
FeedsArrive(c) ==
    /\ IsActive(c) /\ call[c].pc = "feeds"
    /\ drawn < MaxDraws
    /\ drawn' = drawn + 1
    /\ CacheSet(call[c].key, drawn + 1)
    /\ Resume(c, "commit", drawn + 1)
    /\ UNCHANGED <<now, server, restarts, client>>

\* Every error before the data is known ends the request with a 5xx status:
\* indexer down, future round with nothing cached, value provider down.
Submit1Fails(c) ==
    /\ IsActive(c) /\ call[c].pc \in {"epoch", "feeds"}
    /\ Done(c)
    /\ UNCHANGED <<now, server, cache, drawn, restarts, client>>

\* submit1 ends: the round becomes pending and the commit is sent.
CommitReply(c) ==
    LET k == call[c].key IN
    /\ IsActive(c) /\ call[c].pc = "commit"
    /\ pendingReveals' = pendingReveals \cup {Round(k)}
    /\ IF call[c].heard
       THEN /\ commit' = [commit EXCEPT ![k] = call[c].data]
            /\ answered' = answered \cup {k}
       ELSE UNCHANGED <<commit, answered>>
    /\ Done(c)
    /\ UNCHANGED <<now, shutdownInitiated, safeLogged, cache, drawn, restarts, reveal>>

\* Mutant: data the cache no longer has is computed again.
Submit2Recomputes(c, k) ==
    /\ ~safeLogged
    /\ ~IsActive(c) /\ Round(k) + 1 = now /\ ~Waiting(k)
    /\ IF Cached(k)
       THEN CacheGet(k) /\ Suspend(c, "reveal", k, votingRoundData[k]) /\ UNCHANGED drawn
       ELSE /\ drawn < MaxDraws
            /\ drawn' = drawn + 1
            /\ CacheSet(k, drawn + 1)
            /\ Suspend(c, "reveal", k, drawn + 1)
    /\ UNCHANGED <<now, server, restarts, client>>

\* GET submit2 arrives and the cache has the data.  Without data the answer
\* is NOT_AVAILABLE, which changes nothing.
Submit2(c, k) ==
    /\ ~safeLogged
    /\ ~IsActive(c) /\ Round(k) + 1 = now /\ ~Waiting(k)
    /\ Cached(k)
    /\ CacheGet(k)
    /\ Suspend(c, "reveal", k, votingRoundData[k])
    /\ UNCHANGED <<now, server, drawn, restarts, client>>

\* Mutant: a reveal settles every pending round.
RevealReplyClearsAll(c) ==
    LET k == call[c].key IN
    /\ IsActive(c) /\ call[c].pc = "reveal"
    /\ pendingReveals' = {}
    /\ IF call[c].heard
       THEN reveal' = [reveal EXCEPT ![k] = call[c].data]
       ELSE UNCHANGED reveal
    /\ Done(c)
    /\ UNCHANGED <<now, shutdownInitiated, safeLogged, cache, drawn, restarts,
                   commit, answered>>

\* Mutant: during a shutdown a reveal does not settle its round.
RevealReplyKeepsPending(c) ==
    LET k == call[c].key IN
    /\ IsActive(c) /\ call[c].pc = "reveal"
    /\ pendingReveals' = IF shutdownInitiated THEN pendingReveals
                         ELSE pendingReveals \ {Round(k)}
    /\ IF call[c].heard
       THEN reveal' = [reveal EXCEPT ![k] = call[c].data]
       ELSE UNCHANGED reveal
    /\ Done(c)
    /\ UNCHANGED <<now, shutdownInitiated, safeLogged, cache, drawn, restarts,
                   commit, answered>>

\* submit2 ends: the round is no longer pending and the reveal is sent.
RevealReply(c) ==
    LET k == call[c].key IN
    /\ IsActive(c) /\ call[c].pc = "reveal"
    /\ pendingReveals' = pendingReveals \ {Round(k)}
    /\ IF call[c].heard
       THEN reveal' = [reveal EXCEPT ![k] = call[c].data]
       ELSE UNCHANGED reveal
    /\ Done(c)
    /\ UNCHANGED <<now, shutdownInitiated, safeLogged, cache, drawn, restarts,
                   commit, answered>>

\* SIGTERM: commits are disabled from here on.  Without a pending round the
\* waiting loop is not entered and "safe to terminate" is logged at once.
BeginShutdown ==
    /\ ~shutdownInitiated
    /\ shutdownInitiated' = TRUE
    /\ safeLogged' = (pendingReveals = {})
    /\ UNCHANGED <<now, pendingReveals, cache, call, drawn, restarts, client>>

\* The waiting loop wakes up and finds no pending round.  Nest then stops
\* listening and finishes the requests in progress.
Drained ==
    /\ shutdownInitiated /\ ~safeLogged
    /\ pendingReveals = {}
    /\ safeLogged' = TRUE
    /\ UNCHANGED <<now, shutdownInitiated, pendingReveals, cache, call, drawn, restarts, client>>

\* The process dies, or has ended, and is started again: all of its memory is
\* gone, and the client sees its open requests fail.
Restart ==
    /\ restarts < MaxRestarts
    /\ restarts' = restarts + 1
    /\ shutdownInitiated' = FALSE
    /\ safeLogged' = FALSE
    /\ pendingReveals' = {}
    /\ votingRoundData' = [k \in Keys |-> NoData]
    /\ age' = [k \in Keys |-> CacheSize]
    /\ call' = [c \in Calls |-> Idle]
    /\ answered' = {}
    /\ UNCHANGED <<now, drawn, commit, reveal>>

\* The client stops waiting; the handler goes on.
ClientTimeout(c) ==
    /\ ClientTimeouts
    /\ IsActive(c) /\ call[c].heard
    /\ call' = [call EXCEPT ![c].heard = FALSE]
    /\ UNCHANGED <<now, server, cache, drawn, restarts, client>>

\* The next voting round starts.  With a timely client, a commit of round v is
\* answered and its reveal fetched before round v + 1 ends.
NewRound ==
    /\ now <= MaxRound
    /\ TimelyClient => \A k \in Keys : Round(k) < now =>
                          ~Committing(k) /\ (k \in answered => reveal[k] # NoData)
    /\ now' = now + 1
    /\ UNCHANGED <<server, cache, call, drawn, restarts, client>>

Handler(c) == \/ CommitFromCache(c) \/ RequestFeeds(c) \/ FeedsArrive(c)
              \/ CommitReply(c) \/ RevealReply(c)

Next ==
    \/ \E c \in Calls, k \in Keys : Submit1(c, k) \/ Submit2(c, k)
    \/ \E c \in Calls : Handler(c) \/ Submit1Fails(c) \/ ClientTimeout(c)
    \/ BeginShutdown \/ Drained \/ Restart \/ NewRound

Spec == Init /\ [][Next]_vars

\* Promises resolve, the shutdown loop polls once a second, the clock runs,
\* and the client asks for the reveal of a commit it received.
FairSpec ==
    /\ Spec
    /\ WF_vars(NewRound) /\ WF_vars(Drained)
    /\ \A c \in Calls : WF_vars(Handler(c) \/ Submit1Fails(c))
    /\ \A k \in Keys : SF_vars(/\ commit[k] # NoData /\ reveal[k] = NoData
                               /\ \E c \in Calls : Submit2(c, k))

-----------------------------------------------------------------------------
TypeOK ==
    /\ now \in 1..(MaxRound + 1)
    /\ shutdownInitiated \in BOOLEAN
    /\ safeLogged \in BOOLEAN
    /\ pendingReveals \subseteq 1..MaxRound
    /\ votingRoundData \in [Keys -> Randoms \cup {NoData}]
    /\ age \in [Keys -> 0..CacheSize]
    /\ call \in [Calls -> Active \cup {Idle}]
    /\ drawn \in 0..MaxDraws
    /\ restarts \in 0..MaxRestarts
    /\ commit \in [Keys -> Randoms \cup {NoData}]
    /\ reveal \in [Keys -> Randoms \cup {NoData}]
    /\ answered \subseteq Keys

(* Properties *)

\* The randoms known for a round and address: the server has them in its cache
\* or in a request, or the client has received them.
KnownFor(k) ==
    ({votingRoundData[k], commit[k], reveal[k]}
     \cup {call[c].data : c \in {c \in Calls : IsActive(c) /\ call[c].key = k}}) \ {NoData}

RandomsApart == \A j, k \in Keys : KnownFor(j) \cap KnownFor(k) # {} => j = k

\* No two rounds or addresses ever have a random in common, in the cache, in a
\* commit or in a reveal: a reveal is public, so it would give away what another
\* commit hides.  At risk when requests for several addresses wait for the same
\* round, one key has several requests, and entries are evicted, replaced or
\* lost in a restart between commit and reveal.  The variables have their types.
OwnRandoms == TypeOK /\ RandomsApart

\* A reveal opens the last commit the client received for the same round and
\* address: getRevealData hands out the very data getCommitData hashed.  At
\* risk when a cached entry is replaced between the two requests.
RevealOpensCommit ==
    \A k \in Keys : commit[k] # NoData /\ reveal[k] # NoData => reveal[k] = commit[k]

\* As long as a commit can still be revealed, the cache of the process that
\* answered it holds its data.  At risk when the LRU cache evicts the entry of
\* an open round because entries of other rounds and addresses, late ones of
\* slow requests included, were used after it.
OpenCommitsCached ==
    \A k \in answered :
        now <= Round(k) + 1 /\ ~Committing(k) => votingRoundData[k] = commit[k]

\* A client that asks submit1 again gets the commit it already has, for as long
\* as the process lives and the commit can be revealed: calculateOrGetRoundData
\* draws one random per key.  (A request delayed for longer than that may find
\* the data evicted, and draw again.)
RepeatedCommitUnchanged ==
    [][\A k \in answered \cap answered' :
           now <= Round(k) + 1 => commit'[k] = commit[k]]_vars

\* A round in which the process answered a commit is in pendingReveals until
\* a reveal of the round has been answered.  Without it the shutdown loop
\* would not wait for a reveal that is still due.
AnsweredRoundsTracked ==
    \A k \in answered : \/ Round(k) \in pendingReveals
                        \/ \E a \in Addresses : reveal[<<Round(k), a>>] # NoData

\* A shutdown completes: the loop of beforeApplicationShutdown ends once the
\* client has fetched the reveals the process still owes.  At risk when a round
\* stays pending with nobody left to fetch its reveal.
ShutdownCompletes == shutdownInitiated ~> (safeLogged \/ ~shutdownInitiated)

\* The server keeps the promise of CommitReveal.tla.
Scheme == INSTANCE CommitReveal
              WITH Keys <- Keys, Randoms <- Randoms, NoData <- NoData,
                   commit <- commit, reveal <- reveal
ImplementsCommitReveal == Scheme!SchemeSpec
=============================================================================
