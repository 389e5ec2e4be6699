------------------------- MODULE DataProviderProofs -------------------------
(***************************************************************************)
(* Proofs about DataProvider.tla, for every value of its constants.        *)
(***************************************************************************)
EXTENDS DataProvider, FiniteSetTheorems, TLAPS

USE DEF NoData

(* Lemmas about the operators the actions are built from. *)

\* Using a key keeps every age within the capacity of the cache.
LEMMA AgedType ==
    ASSUME NEW k \in Keys, age \in [Keys -> 0..CacheSize]
    PROVE  Aged(k) \in [Keys -> 0..CacheSize]
  <1>1. ASSUME NEW j \in Keys
        PROVE  Aged(k)[j] \in 0..CacheSize
    <2>1. age[j] \in 0..CacheSize /\ age[k] \in 0..CacheSize /\ CacheSize \in Nat
      BY DataProviderAssumption
    <2>2. age[j] < age[k] => age[j] + 1 \in 0..CacheSize
      BY <2>1
    <2> QED
      BY <2>1, <2>2 DEF Aged
  <1> QED
    BY <1>1 DEF Aged

\* Storing data under a key keeps the cache a function from keys to data.
LEMMA CacheSetType ==
    ASSUME TypeOK, NEW k \in Keys, NEW x \in Randoms, CacheSet(k, x)
    PROVE  /\ votingRoundData' \in [Keys -> Randoms \cup {NoData}]
           /\ age' \in [Keys -> 0..CacheSize]
  BY AgedType DEF TypeOK, CacheSet

\* A request that is not idle is a record of the type Active.
LEMMA ActiveCall ==
    ASSUME TypeOK, NEW c \in Calls, IsActive(c)
    PROVE  /\ call[c] \in Active
           /\ call[c].key \in Keys
           /\ call[c].pc \in {"epoch", "feeds", "commit", "reveal"}
           /\ call[c].data \in Randoms \cup {NoData}
           /\ call[c].heard \in BOOLEAN
  BY DEF TypeOK, IsActive, Active, Idle

LEMMA RoundType ==
    ASSUME NEW k \in Keys
    PROVE  Round(k) \in 1..MaxRound /\ k[2] \in Addresses /\ k = <<Round(k), k[2]>>
  BY DEF Keys, Round

-----------------------------------------------------------------------------
(* Type correctness *)

LEMMA InitTypeOK == Init => TypeOK
  <1> SUFFICES ASSUME Init PROVE TypeOK
    OBVIOUS
  <1>1. now \in 1..(MaxRound + 1) /\ drawn \in 0..MaxDraws /\ restarts \in 0..MaxRestarts
    BY DataProviderAssumption DEF Init
  <1>2. age \in [Keys -> 0..CacheSize]
    BY DataProviderAssumption DEF Init
  <1> QED
    BY <1>1, <1>2 DEF Init, TypeOK

LEMMA NextTypeOK == TypeOK /\ [Next]_vars => TypeOK'
  <1> SUFFICES ASSUME TypeOK, [Next]_vars PROVE TypeOK'
    OBVIOUS
  <1> USE DataProviderAssumption
  <1>1. ASSUME NEW c \in Calls, NEW k \in Keys, Submit1(c, k)
        PROVE  TypeOK'
    <2>1. call' \in [Calls -> Active \cup {Idle}]
      BY <1>1 DEF Submit1, Suspend, TypeOK, Active
    <2> QED BY <1>1, <2>1 DEF Submit1, TypeOK, server, cache, client
  <1>2. ASSUME NEW c \in Calls, NEW k \in Keys, Submit2(c, k)
        PROVE  TypeOK'
    <2>1. call' \in [Calls -> Active \cup {Idle}]
      BY <1>2 DEF Submit2, Suspend, TypeOK, Active
    <2>2. age' \in [Keys -> 0..CacheSize]
      BY <1>2, AgedType DEF Submit2, CacheGet, TypeOK
    <2> QED BY <1>2, <2>1, <2>2 DEF Submit2, CacheGet, TypeOK, server, cache, client
  <1>3. ASSUME NEW c \in Calls, CommitFromCache(c)
        PROVE  TypeOK'
    <2>1. call[c] \in Active /\ call[c].key \in Keys
      BY <1>3, ActiveCall DEF CommitFromCache
    <2>2. call' \in [Calls -> Active \cup {Idle}]
      BY <1>3, <2>1 DEF CommitFromCache, Resume, TypeOK, Active
    <2>3. age' \in [Keys -> 0..CacheSize]
      BY <1>3, <2>1, AgedType DEF CommitFromCache, CacheGet, TypeOK
    <2> QED BY <1>3, <2>2, <2>3 DEF CommitFromCache, CacheGet, TypeOK, server, cache, client
  <1>4. ASSUME NEW c \in Calls, RequestFeeds(c)
        PROVE  TypeOK'
    <2>1. call[c] \in Active
      BY <1>4, ActiveCall DEF RequestFeeds
    <2>2. call' \in [Calls -> Active \cup {Idle}]
      BY <1>4, <2>1 DEF RequestFeeds, Resume, TypeOK, Active
    <2> QED BY <1>4, <2>2 DEF RequestFeeds, TypeOK, server, cache, client
  <1>5. ASSUME NEW c \in Calls, FeedsArrive(c)
        PROVE  TypeOK'
    <2>1. call[c] \in Active /\ call[c].key \in Keys
      BY <1>5, ActiveCall DEF FeedsArrive
    <2>2. drawn + 1 \in Randoms /\ drawn' \in 0..MaxDraws
      BY <1>5 DEF FeedsArrive, TypeOK, Randoms
    <2>3. call' \in [Calls -> Active \cup {Idle}]
      BY <1>5, <2>1, <2>2 DEF FeedsArrive, Resume, TypeOK, Active
    <2>4. /\ votingRoundData' \in [Keys -> Randoms \cup {NoData}]
          /\ age' \in [Keys -> 0..CacheSize]
      BY <1>5, <2>1, <2>2, CacheSetType DEF FeedsArrive
    <2> QED BY <1>5, <2>2, <2>3, <2>4 DEF FeedsArrive, TypeOK, server, client
  <1>6. ASSUME NEW c \in Calls, CommitReply(c)
        PROVE  TypeOK'
    <2>1. /\ call[c].key \in Keys /\ call[c].data \in Randoms \cup {NoData}
          /\ Round(call[c].key) \in 1..MaxRound
      BY <1>6, ActiveCall, RoundType DEF CommitReply
    <2> QED BY <1>6, <2>1 DEF CommitReply, Done, TypeOK, cache
  <1>7. ASSUME NEW c \in Calls, RevealReply(c)
        PROVE  TypeOK'
    <2>1. call[c].key \in Keys /\ call[c].data \in Randoms \cup {NoData}
      BY <1>7, ActiveCall DEF RevealReply
    <2> QED BY <1>7, <2>1 DEF RevealReply, Done, TypeOK, cache
  <1>8. ASSUME NEW c \in Calls, Submit1Fails(c)
        PROVE  TypeOK'
    BY <1>8 DEF Submit1Fails, Done, TypeOK, server, cache, client
  <1>9. ASSUME NEW c \in Calls, ClientTimeout(c)
        PROVE  TypeOK'
    <2>1. call[c] \in Active
      BY <1>9, ActiveCall DEF ClientTimeout
    <2>2. call' \in [Calls -> Active \cup {Idle}]
      BY <1>9, <2>1 DEF ClientTimeout, TypeOK, Active
    <2> QED BY <1>9, <2>2 DEF ClientTimeout, TypeOK, server, cache, client
  <1>10. CASE BeginShutdown
    BY <1>10 DEF BeginShutdown, TypeOK, cache, client
  <1>11. CASE Drained
    BY <1>11 DEF Drained, TypeOK, cache, client
  <1>12. CASE Restart
    <2>1. age' \in [Keys -> 0..CacheSize]
      BY <1>12 DEF Restart
    <2>2. restarts' \in 0..MaxRestarts
      BY <1>12 DEF Restart, TypeOK
    <2> QED BY <1>12, <2>1, <2>2 DEF Restart, TypeOK
  <1>13. CASE NewRound
    BY <1>13 DEF NewRound, TypeOK, server, cache, client
  <1>14. CASE UNCHANGED vars
    BY <1>14 DEF vars, TypeOK, server, cache, client
  <1> QED
    BY <1>1, <1>2, <1>3, <1>4, <1>5, <1>6, <1>7, <1>8, <1>9, <1>10, <1>11, <1>12,
       <1>13, <1>14 DEF Next, Handler

\* Every variable keeps its type: the service never stores anything but
\* reveal data under a key and never tracks a round outside the clock.
THEOREM TypeCorrect == Spec => []TypeOK
  BY InitTypeOK, NextTypeOK, PTL DEF Spec

-----------------------------------------------------------------------------
(* The inductive invariant behind the commit / reveal promise.  It holds    *)
(* for a client that waits for its answers.                                 *)

\* The client waits for every request in progress, ...
AllHeard == \A c \in Calls : IsActive(c) => call[c].heard

\* ... so it has at most one for a key.
OneCallPerKey ==
    \A c, d \in Calls : IsActive(c) /\ IsActive(d) /\ call[c].key = call[d].key => c = d

\* A submit1 about to be answered holds what the cache has, unless evicted.
CommitCallMatches ==
    \A c \in Calls : IsActive(c) /\ call[c].pc = "commit" =>
        /\ call[c].data # NoData
        /\ votingRoundData[call[c].key] \in {NoData, call[c].data}

\* A submit2 about to be answered holds the data of the commit received.
RevealCallMatches ==
    \A c \in Calls : IsActive(c) /\ call[c].pc = "reveal" =>
        /\ call[c].data # NoData
        /\ call[c].data = commit[call[c].key]
        /\ Round(call[c].key) < now

\* Cached data has been received as a commit, or is about to be.
CacheMatches ==
    \A k \in Keys : Cached(k) =>
        \/ commit[k] = votingRoundData[k]
        \/ \E c \in Calls : IsActive(c) /\ call[c].key = k /\ call[c].pc = "commit"

\* What is revealed stays revealed: no commit for the key is under way.
RevealedSettled ==
    \A k \in Keys : reveal[k] # NoData =>
        reveal[k] = commit[k] /\ Round(k) < now /\ ~Committing(k)

IInv == /\ TypeOK /\ AllHeard /\ OneCallPerKey /\ CommitCallMatches
        /\ RevealCallMatches /\ CacheMatches /\ RevealedSettled

LEMMA InitIInv == Init => IInv
  BY InitTypeOK DEF Init, IInv, AllHeard, OneCallPerKey, CommitCallMatches,
     RevealCallMatches, CacheMatches, RevealedSettled, IsActive, Idle, Cached, Committing

\* A client that waits for nobody on k has no request for k in progress.
LEMMA NotWaiting ==
    ASSUME AllHeard, NEW k \in Keys, ~Waiting(k)
    PROVE  \A c \in Calls : IsActive(c) => call[c].key # k
  BY DEF AllHeard, Waiting

\* What the suspension of a request changes.
LEMMA SuspendEffect ==
    ASSUME TypeOK, NEW c \in Calls, NEW k, NEW pc, NEW x, Suspend(c, pc, k, x)
    PROVE  /\ call'[c].pc = pc /\ call'[c].key = k
           /\ call'[c].data = x /\ call'[c].heard
           /\ \A d \in Calls : d # c => call'[d] = call[d]
  BY DEF TypeOK, Suspend

\* What the next await of a request changes.
LEMMA ResumeEffect ==
    ASSUME TypeOK, NEW c \in Calls, IsActive(c), NEW pc, NEW x, Resume(c, pc, x)
    PROVE  /\ call'[c].pc = pc /\ call'[c].key = call[c].key
           /\ call'[c].data = x /\ call'[c].heard = call[c].heard
           /\ \A d \in Calls : d # c => call'[d] = call[d]
  BY ActiveCall DEF TypeOK, Resume, Active

\* What the end of a request changes.
LEMMA DoneEffect ==
    ASSUME TypeOK, NEW c \in Calls, Done(c)
    PROVE  call'[c].pc = "idle" /\ \A d \in Calls : d # c => call'[d] = call[d]
  BY DEF TypeOK, Done, Idle

LEMMA NextIInv ==
    ASSUME ~ClientTimeouts, IInv, [Next]_vars
    PROVE  IInv'
  <1> USE DEF IInv
  <1>0. TypeOK'
    BY NextTypeOK
  <1>1. ASSUME NEW c \in Calls, NEW k \in Keys, Submit1(c, k)
        PROVE  IInv'
    <2>1. /\ call'[c].pc = "epoch" /\ call'[c].key = k /\ call'[c].heard
          /\ \A d \in Calls : d # c => call'[d] = call[d]
      BY <1>1, SuspendEffect DEF Submit1
    <2>2. \A d \in Calls : IsActive(d) => call[d].key # k
      BY <1>1, NotWaiting DEF Submit1
    <2>3. /\ Round(k) = now /\ ~IsActive(c) /\ now' = now
          /\ UNCHANGED <<votingRoundData, commit, reveal>>
      BY <1>1 DEF Submit1, cache, client
    <2>4. AllHeard' /\ OneCallPerKey'
      BY <2>1, <2>2, <2>3 DEF AllHeard, OneCallPerKey, IsActive
    <2>5. CommitCallMatches' /\ RevealCallMatches'
      BY <2>1, <2>3 DEF CommitCallMatches, RevealCallMatches, IsActive
    <2>6. CacheMatches'
      BY <2>1, <2>3 DEF CacheMatches, IsActive, Cached
    <2>7. reveal[k] = NoData
      BY <2>3, RoundType DEF RevealedSettled, TypeOK
    <2>8. RevealedSettled'
      BY <2>1, <2>3, <2>7 DEF RevealedSettled, Committing, IsActive
    <2> QED BY <1>0, <2>4, <2>5, <2>6, <2>8
  <1>2. ASSUME NEW c \in Calls, NEW k \in Keys, Submit2(c, k)
        PROVE  IInv'
    <2>1. /\ call'[c].pc = "reveal" /\ call'[c].key = k /\ call'[c].heard
          /\ call'[c].data = votingRoundData[k]
          /\ \A d \in Calls : d # c => call'[d] = call[d]
      BY <1>2, SuspendEffect DEF Submit2
    <2>2. \A d \in Calls : IsActive(d) => call[d].key # k
      BY <1>2, NotWaiting DEF Submit2
    <2>3. /\ Round(k) + 1 = now /\ ~IsActive(c) /\ now' = now
          /\ UNCHANGED <<votingRoundData, commit, reveal>>
      BY <1>2 DEF Submit2, CacheGet, client
    <2>4. AllHeard' /\ OneCallPerKey'
      BY <2>1, <2>2, <2>3 DEF AllHeard, OneCallPerKey, IsActive
    <2>5. votingRoundData[k] = commit[k] /\ votingRoundData[k] # NoData
      BY <1>2, <2>2 DEF Submit2, CacheMatches, Cached
    <2>6. Round(k) < now
      BY <2>3, RoundType DEF TypeOK
    <2>7. CommitCallMatches' /\ RevealCallMatches'
      BY <2>1, <2>3, <2>5, <2>6 DEF CommitCallMatches, RevealCallMatches, IsActive
    <2>8. CacheMatches'
      BY <2>1, <2>3 DEF CacheMatches, IsActive, Cached
    <2>9. RevealedSettled'
      BY <2>1, <2>3 DEF RevealedSettled, Committing, IsActive
    <2> QED BY <1>0, <2>4, <2>7, <2>8, <2>9
  <1>3. ASSUME NEW c \in Calls, CommitFromCache(c)
        PROVE  IInv'
    <2>1. /\ call'[c].pc = "commit" /\ call'[c].key = call[c].key
          /\ call'[c].heard = call[c].heard
          /\ call'[c].data = votingRoundData[call[c].key]
          /\ \A d \in Calls : d # c => call'[d] = call[d]
      BY <1>3, ResumeEffect DEF CommitFromCache
    <2>2. /\ IsActive(c) /\ call[c].pc = "epoch" /\ call[c].key \in Keys
          /\ votingRoundData[call[c].key] # NoData /\ now' = now
          /\ UNCHANGED <<votingRoundData, commit, reveal>>
      BY <1>3, ActiveCall DEF CommitFromCache, CacheGet, client, Cached
    <2>3. AllHeard' /\ OneCallPerKey'
      BY <2>1, <2>2 DEF AllHeard, OneCallPerKey, IsActive
    <2>4. CommitCallMatches' /\ RevealCallMatches'
      BY <2>1, <2>2 DEF CommitCallMatches, RevealCallMatches, IsActive
    <2>5. CacheMatches'
      BY <2>1, <2>2 DEF CacheMatches, IsActive, Cached
    <2>6. RevealedSettled'
      BY <2>1, <2>2 DEF RevealedSettled, Committing, IsActive
    <2> QED BY <1>0, <2>3, <2>4, <2>5, <2>6
  <1>4. ASSUME NEW c \in Calls, RequestFeeds(c)
        PROVE  IInv'
    <2>1. /\ call'[c].pc = "feeds" /\ call'[c].key = call[c].key
          /\ call'[c].heard = call[c].heard
          /\ \A d \in Calls : d # c => call'[d] = call[d]
      BY <1>4, ResumeEffect DEF RequestFeeds
    <2>2. /\ IsActive(c) /\ call[c].pc = "epoch" /\ now' = now
          /\ UNCHANGED <<votingRoundData, commit, reveal>>
      BY <1>4 DEF RequestFeeds, cache, client
    <2>3. AllHeard' /\ OneCallPerKey'
      BY <2>1, <2>2 DEF AllHeard, OneCallPerKey, IsActive
    <2>4. CommitCallMatches' /\ RevealCallMatches'
      BY <2>1, <2>2 DEF CommitCallMatches, RevealCallMatches, IsActive
    <2>5. CacheMatches'
      BY <2>1, <2>2 DEF CacheMatches, IsActive, Cached
    <2>6. RevealedSettled'
      BY <2>1, <2>2 DEF RevealedSettled, Committing, IsActive
    <2> QED BY <1>0, <2>3, <2>4, <2>5, <2>6
  <1>5. ASSUME NEW c \in Calls, FeedsArrive(c)
        PROVE  IInv'
    <2>1. /\ call'[c].pc = "commit" /\ call'[c].key = call[c].key
          /\ call'[c].heard = call[c].heard /\ call'[c].data = drawn + 1
          /\ \A d \in Calls : d # c => call'[d] = call[d]
      BY <1>5, ResumeEffect DEF FeedsArrive
    <2>2. /\ IsActive(c) /\ call[c].pc = "feeds" /\ call[c].key \in Keys
          /\ now' = now /\ UNCHANGED <<commit, reveal>>
      BY <1>5, ActiveCall DEF FeedsArrive, client
    <2>3. /\ votingRoundData'[call[c].key] = drawn + 1
          /\ drawn + 1 # NoData
          /\ \A j \in Keys : j # call[c].key =>
                 votingRoundData'[j] \in {NoData, votingRoundData[j]}
      BY <1>5, <2>2 DEF FeedsArrive, CacheSet, TypeOK
    <2>4. AllHeard' /\ OneCallPerKey'
      BY <2>1, <2>2 DEF AllHeard, OneCallPerKey, IsActive
    <2>5. ASSUME NEW d \in Calls, IsActive(d)', call'[d].pc = "commit"
          PROVE  /\ call'[d].data # NoData
                 /\ votingRoundData'[call'[d].key] \in {NoData, call'[d].data}
      <3>1. CASE d = c
        BY <3>1, <2>1, <2>3
      <3>2. CASE d # c
        <4>1. IsActive(d) /\ call[d] = call'[d] /\ call[d].key \in Keys
          BY <3>2, <2>1, <2>5, ActiveCall DEF IsActive
        <4>2. call[d].key # call[c].key
          BY <3>2, <4>1, <2>2 DEF OneCallPerKey
        <4> QED BY <4>1, <4>2, <2>3, <2>5 DEF CommitCallMatches
      <3> QED BY <3>1, <3>2
    <2>6. CommitCallMatches'
      BY <2>5 DEF CommitCallMatches
    <2>7. RevealCallMatches'
      BY <2>1, <2>2 DEF RevealCallMatches, IsActive
    <2>8. CacheMatches'
      BY <2>1, <2>2, <2>3 DEF CacheMatches, IsActive, Cached
    <2>9. RevealedSettled'
      BY <2>1, <2>2 DEF RevealedSettled, Committing, IsActive
    <2> QED BY <1>0, <2>4, <2>6, <2>7, <2>8, <2>9
  <1>6. ASSUME NEW c \in Calls, CommitReply(c)
        PROVE  IInv'
    <2> DEFINE k == call[c].key
    <2>1. call'[c].pc = "idle" /\ \A d \in Calls : d # c => call'[d] = call[d]
      BY <1>6, DoneEffect DEF CommitReply
    <2>2. /\ IsActive(c) /\ call[c].pc = "commit" /\ k \in Keys /\ call[c].heard
          /\ now' = now /\ UNCHANGED <<votingRoundData, reveal>>
      BY <1>6, ActiveCall DEF CommitReply, AllHeard, cache
    <2>3. /\ commit'[k] = call[c].data
          /\ \A j \in Keys : j # k => commit'[j] = commit[j]
      BY <1>6, <2>2 DEF CommitReply, TypeOK
    <2>4. reveal[k] = NoData
      BY <2>2 DEF RevealedSettled, Committing
    <2>5. \A d \in Calls : IsActive(d) /\ d # c => call[d].key # k /\ call[d].key \in Keys
      BY <2>2, ActiveCall DEF OneCallPerKey
    <2>6. AllHeard' /\ OneCallPerKey'
      BY <2>1, <2>2 DEF AllHeard, OneCallPerKey, IsActive
    <2>7. CommitCallMatches' /\ RevealCallMatches'
      BY <2>1, <2>2, <2>3, <2>5 DEF CommitCallMatches, RevealCallMatches, IsActive
    <2>8. CacheMatches'
      <3> SUFFICES ASSUME NEW j \in Keys, Cached(j)'
                   PROVE  \/ commit'[j] = votingRoundData'[j]
                          \/ \E d \in Calls : /\ IsActive(d)' /\ call'[d].key = j
                                              /\ call'[d].pc = "commit"
        BY DEF CacheMatches
      <3>1. CASE j = k
        BY <3>1, <2>2, <2>3 DEF CommitCallMatches, Cached
      <3>2. CASE j # k
        BY <3>2, <2>1, <2>2, <2>3 DEF CacheMatches, Cached, IsActive
      <3> QED BY <3>1, <3>2
    <2>9. RevealedSettled'
      BY <2>1, <2>2, <2>3, <2>4 DEF RevealedSettled, Committing, IsActive
    <2> QED BY <1>0, <2>6, <2>7, <2>8, <2>9
  <1>7. ASSUME NEW c \in Calls, RevealReply(c)
        PROVE  IInv'
    <2> DEFINE k == call[c].key
    <2>1. call'[c].pc = "idle" /\ \A d \in Calls : d # c => call'[d] = call[d]
      BY <1>7, DoneEffect DEF RevealReply
    <2>2. /\ IsActive(c) /\ call[c].pc = "reveal" /\ k \in Keys /\ call[c].heard
          /\ now' = now /\ UNCHANGED <<votingRoundData, commit>>
      BY <1>7, ActiveCall DEF RevealReply, AllHeard, cache
    <2>3. /\ reveal'[k] = commit[k]
          /\ \A j \in Keys : j # k => reveal'[j] = reveal[j]
      BY <1>7, <2>2 DEF RevealReply, TypeOK, RevealCallMatches
    <2>4. Round(k) < now /\ ~Committing(k)
      BY <2>2 DEF RevealCallMatches, OneCallPerKey, Committing
    <2>5. AllHeard' /\ OneCallPerKey'
      BY <2>1, <2>2 DEF AllHeard, OneCallPerKey, IsActive
    <2>6. CommitCallMatches' /\ RevealCallMatches'
      BY <2>1, <2>2 DEF CommitCallMatches, RevealCallMatches, IsActive
    <2>7. CacheMatches'
      BY <2>1, <2>2 DEF CacheMatches, IsActive, Cached
    <2>8. RevealedSettled'
      BY <2>1, <2>2, <2>3, <2>4 DEF RevealedSettled, Committing, IsActive
    <2> QED BY <1>0, <2>5, <2>6, <2>7, <2>8
  <1>8. ASSUME NEW c \in Calls, Submit1Fails(c)
        PROVE  IInv'
    <2>1. call'[c].pc = "idle" /\ \A d \in Calls : d # c => call'[d] = call[d]
      BY <1>8, DoneEffect DEF Submit1Fails
    <2>2. /\ call[c].pc # "commit" /\ now' = now
          /\ UNCHANGED <<votingRoundData, commit, reveal>>
      BY <1>8 DEF Submit1Fails, cache, client
    <2>3. AllHeard' /\ OneCallPerKey'
      BY <2>1 DEF AllHeard, OneCallPerKey, IsActive
    <2>4. CommitCallMatches' /\ RevealCallMatches'
      BY <2>1, <2>2 DEF CommitCallMatches, RevealCallMatches, IsActive
    <2>5. CacheMatches'
      BY <2>1, <2>2 DEF CacheMatches, IsActive, Cached
    <2>6. RevealedSettled'
      BY <2>1, <2>2 DEF RevealedSettled, Committing, IsActive
    <2> QED BY <1>0, <2>3, <2>4, <2>5, <2>6
  <1>9. ASSUME NEW c \in Calls, ClientTimeout(c)
        PROVE  IInv'
    BY <1>9 DEF ClientTimeout
  <1>10. CASE UNCHANGED <<now, votingRoundData, call, commit, reveal>>
    BY <1>0, <1>10 DEF AllHeard, OneCallPerKey, CommitCallMatches, RevealCallMatches,
       CacheMatches, RevealedSettled, Committing, IsActive, Cached
  <1>11. CASE Restart
    <2>1. /\ \A c \in Calls : call'[c].pc = "idle"
          /\ \A k \in Keys : votingRoundData'[k] = NoData
          /\ UNCHANGED <<now, commit, reveal>>
      BY <1>11 DEF Restart, Idle
    <2> QED
      BY <1>0, <2>1 DEF AllHeard, OneCallPerKey, CommitCallMatches, RevealCallMatches,
         CacheMatches, RevealedSettled, Committing, IsActive, Cached
  <1>12. CASE NewRound
    <2>1. now' = now + 1 /\ UNCHANGED <<votingRoundData, call, commit, reveal>>
      BY <1>12 DEF NewRound, cache, client
    <2>2. \A k \in Keys : Round(k) < now => Round(k) < now'
      BY <2>1, RoundType DEF TypeOK
    <2>3. RevealCallMatches'
      BY <2>1, <2>2, ActiveCall DEF RevealCallMatches, IsActive
    <2>4. RevealedSettled'
      BY <2>1, <2>2 DEF RevealedSettled, Committing, IsActive
    <2> QED
      BY <1>0, <2>1, <2>3, <2>4 DEF AllHeard, OneCallPerKey, CommitCallMatches,
         CacheMatches, IsActive, Cached
  <1>13. BeginShutdown \/ Drained \/ UNCHANGED vars
            => UNCHANGED <<now, votingRoundData, call, commit, reveal>>
    BY DEF BeginShutdown, Drained, vars, cache, client
  <1> QED
    BY <1>1, <1>2, <1>3, <1>4, <1>5, <1>6, <1>7, <1>8, <1>9, <1>10, <1>11, <1>12,
       <1>13 DEF Next, Handler

\* For a client that waits for its answers, a reveal opens the commit: it shows
\* the random that the last commit received for the round and address hides.
THEOREM RevealOpens ==
    ASSUME ~ClientTimeouts
    PROVE  Spec => []RevealOpensCommit
  <1>1. Init => IInv
    BY InitIInv
  <1>2. IInv /\ [Next]_vars => IInv'
    BY NextIInv
  <1>3. IInv => RevealOpensCommit
    BY DEF IInv, RevealedSettled, RevealOpensCommit
  <1> QED
    BY <1>1, <1>2, <1>3, PTL DEF Spec

-----------------------------------------------------------------------------
(* Refinement: every step of the server is a step of CommitReveal.tla, or   *)
(* leaves what the client has obtained unchanged.                           *)

LEMMA InitScheme == Init => Scheme!SchemeInit
  BY DEF Init, Scheme!SchemeInit

LEMMA NextScheme ==
    ASSUME ~ClientTimeouts, IInv, [Next]_vars
    PROVE  [Scheme!SchemeNext]_(Scheme!schemeVars)
  <1> USE DEF IInv
  <1>1. ASSUME NEW c \in Calls, CommitReply(c)
        PROVE  \E k \in Keys : Scheme!ObtainCommit(k)
    <2>1. /\ IsActive(c) /\ call[c].pc = "commit" /\ call[c].heard
          /\ call[c].key \in Keys /\ call[c].data \in Randoms
      BY <1>1, ActiveCall DEF CommitReply, AllHeard, CommitCallMatches
    <2>2. reveal[call[c].key] = NoData
      BY <2>1 DEF RevealedSettled, Committing
    <2>3. /\ commit' = [commit EXCEPT ![call[c].key] = call[c].data]
          /\ UNCHANGED reveal
      BY <1>1, <2>1 DEF CommitReply
    <2> QED BY <2>1, <2>2, <2>3 DEF Scheme!ObtainCommit
  <1>2. ASSUME NEW c \in Calls, RevealReply(c)
        PROVE  \E k \in Keys : Scheme!ObtainReveal(k)
    <2>1. /\ IsActive(c) /\ call[c].pc = "reveal" /\ call[c].heard
          /\ call[c].key \in Keys /\ call[c].data # NoData
          /\ call[c].data = commit[call[c].key]
      BY <1>2, ActiveCall DEF RevealReply, AllHeard, RevealCallMatches
    <2>2. /\ reveal' = [reveal EXCEPT ![call[c].key] = commit[call[c].key]]
          /\ UNCHANGED commit
      BY <1>2, <2>1 DEF RevealReply
    <2> QED BY <2>1, <2>2 DEF Scheme!ObtainReveal
  <1>3. \/ \E c \in Calls : CommitReply(c) \/ RevealReply(c)
        \/ UNCHANGED <<commit, reveal>>
    BY DEF Next, Handler, Submit1, Submit2, CommitFromCache, RequestFeeds, FeedsArrive,
       Submit1Fails, ClientTimeout, BeginShutdown, Drained, Restart, NewRound, vars, client
  <1> QED
    BY <1>1, <1>2, <1>3 DEF Scheme!SchemeNext, Scheme!schemeVars

\* For a client that waits for its answers the server implements the abstract
\* commit / reveal scheme: commits precede reveals, a reveal shows the last
\* commit, and no commit follows a reveal.
THEOREM ProviderImplementsScheme ==
    ASSUME ~ClientTimeouts
    PROVE  Spec => ImplementsCommitReveal
  <1>1. Init => IInv /\ Scheme!SchemeInit
    BY InitIInv, InitScheme
  <1>2. IInv /\ [Next]_vars => IInv'
    BY NextIInv
  <1>3. IInv /\ [Next]_vars => [Scheme!SchemeNext]_(Scheme!schemeVars)
    BY NextScheme
  <1> QED
    BY <1>1, <1>2, <1>3, PTL DEF Spec, ImplementsCommitReveal, Scheme!SchemeSpec

-----------------------------------------------------------------------------
(* The shutdown loop waits for the rounds it has to wait for. *)

LEMMA NextAnsweredRoundsTracked ==
    ASSUME ~ClientTimeouts, IInv, AnsweredRoundsTracked, [Next]_vars
    PROVE  AnsweredRoundsTracked'
  <1> USE DEF IInv
  <1>1. ASSUME NEW c \in Calls, CommitReply(c)
        PROVE  AnsweredRoundsTracked'
    <2>1. /\ pendingReveals' = pendingReveals \cup {Round(call[c].key)}
          /\ answered' \subseteq answered \cup {call[c].key}
          /\ UNCHANGED reveal
      BY <1>1 DEF CommitReply
    <2> QED BY <2>1 DEF AnsweredRoundsTracked
  <1>2. ASSUME NEW c \in Calls, RevealReply(c)
        PROVE  AnsweredRoundsTracked'
    <2> DEFINE k == call[c].key
    <2>1. /\ k \in Keys /\ call[c].data # NoData /\ call[c].heard
          /\ k[2] \in Addresses /\ k = <<Round(k), k[2]>>
      BY <1>2, ActiveCall, RoundType DEF RevealReply, AllHeard, RevealCallMatches
    <2>2. /\ pendingReveals' = pendingReveals \ {Round(k)}
          /\ UNCHANGED answered
          /\ reveal'[k] = call[c].data
          /\ \A j \in Keys : j # k => reveal'[j] = reveal[j]
      BY <1>2, <2>1 DEF RevealReply, TypeOK
    <2> SUFFICES ASSUME NEW j \in answered,
                        Round(j) \notin pendingReveals'
                 PROVE  \E a \in Addresses : reveal'[<<Round(j), a>>] # NoData
      BY <2>2 DEF AnsweredRoundsTracked
    <2>3. CASE Round(j) = Round(k)
      BY <2>1, <2>2, <2>3
    <2>4. CASE Round(j) # Round(k)
      <3>1. PICK a \in Addresses : reveal[<<Round(j), a>>] # NoData
        BY <2>2, <2>4 DEF AnsweredRoundsTracked
      <3>2. <<Round(j), a>> \in Keys
        BY RoundType DEF TypeOK, Keys
      <3>3. reveal'[<<Round(j), a>>] # NoData
        BY <3>1, <3>2, <2>1, <2>2
      <3> QED BY <3>3
    <2> QED BY <2>3, <2>4
  <1>3. CASE Restart
    BY <1>3 DEF Restart, AnsweredRoundsTracked
  <1>4. CASE UNCHANGED <<pendingReveals, answered, reveal>>
    BY <1>4 DEF AnsweredRoundsTracked
  <1>5. \/ \E c \in Calls : CommitReply(c) \/ RevealReply(c)
        \/ Restart
        \/ UNCHANGED <<pendingReveals, answered, reveal>>
    BY DEF Next, Handler, Submit1, Submit2, CommitFromCache, RequestFeeds, FeedsArrive,
       Submit1Fails, ClientTimeout, BeginShutdown, Drained, NewRound, vars, client, server
  <1> QED
    BY <1>1, <1>2, <1>3, <1>4, <1>5

\* For a client that waits for its answers, a round with an answered commit is
\* in pendingReveals until a reveal of the round is answered: the loop of
\* beforeApplicationShutdown cannot end before.
THEOREM RoundsTracked ==
    ASSUME ~ClientTimeouts
    PROVE  Spec => []AnsweredRoundsTracked
  <1>1. Init => IInv /\ AnsweredRoundsTracked
    BY InitIInv DEF Init, AnsweredRoundsTracked
  <1>2. IInv /\ AnsweredRoundsTracked /\ [Next]_vars => IInv' /\ AnsweredRoundsTracked'
    BY NextIInv, NextAnsweredRoundsTracked
  <1> QED
    BY <1>1, <1>2, PTL DEF Spec

-----------------------------------------------------------------------------
(* The cache is large enough for the rounds that can still be revealed.     *)
(* Between the first use of a key and the end of the round after its own,   *)
(* the keys used are those of three rounds, and late ones: of requests that *)
(* were in progress at that first use.  Those take up other slots than the  *)
(* request that made it.                                                    *)

\* What the configuration has to provide for.
RoomForOpenRounds ==
    /\ IsFiniteSet(Addresses) /\ IsFiniteSet(Calls)
    /\ CacheSize >= 3 * Cardinality(Addresses) + Cardinality(Calls) - 1

\* The reveal of k can still be asked for.
Open(k) == now <= Round(k) + 1

Young(k) == age[k] < CacheSize
Younger(k) == {j \in Keys : age[j] < age[k]}

\* A request for j that may still use the cache.
AtWork(j) == \E c \in Calls : /\ IsActive(c) /\ call[c].key = j
                              /\ call[c].pc \in {"epoch", "feeds"}

\* Keys of earlier rounds that were used after k, or may be yet.
LateKeys(k) == {j \in Keys : Round(j) + 1 < Round(k) /\ (age[j] < age[k] \/ AtWork(j))}

\* The ages are those of an LRU cache: what is cached has one of its own, and
\* not more than there are keys younger than it.
AgesRight ==
    /\ \A k \in Keys : Cached(k) <=> Young(k)
    /\ \A i, j \in Keys : age[i] = age[j] /\ Young(i) => i = j
    /\ \A k \in Keys : Young(k) => age[k] <= Cardinality(Younger(k))

\* Nothing is asked for before its round.
NotAhead ==
    /\ \A k \in Keys : Young(k) => Round(k) <= now
    /\ \A c \in Calls : IsActive(c) => Round(call[c].key) <= now

\* Late keys take up other slots than the request that used k.
FewLate == \A k \in Keys : Young(k) /\ Open(k) => Cardinality(LateKeys(k)) < Cardinality(Calls)

\* The data of open rounds stays: of commits that are about to be answered, and
\* of those that were.
OpenKept ==
    /\ \A c \in Calls : IsActive(c) /\ call[c].pc = "commit" /\ Open(call[c].key) =>
          votingRoundData[call[c].key] = call[c].data
    /\ \A k \in answered : commit[k] # NoData
    /\ \A k \in answered : Open(k) =>
          /\ votingRoundData[k] = commit[k]
          /\ \A c \in Calls : IsActive(c) /\ call[c].key = k => call[c].pc # "feeds"

CacheInv == IInv /\ AgesRight /\ NotAhead /\ FewLate /\ OpenKept

LEMMA KeysFinite ==
    ASSUME RoomForOpenRounds
    PROVE  IsFiniteSet(Keys)
  <1>1. IsFiniteSet(1..MaxRound)
    BY FS_Interval, DataProviderAssumption
  <1> QED BY <1>1, FS_Product DEF Keys, RoomForOpenRounds

\* Keys of three rounds without k itself, and fewer late ones than there are
\* slots: the cache has room for them and for k.
LEMMA RoomForYounger ==
    ASSUME RoomForOpenRounds, NEW k \in Keys, NEW younger, k \notin younger,
           NEW late \in SUBSET Keys, Cardinality(late) < Cardinality(Calls),
           \A j \in younger : /\ j \in Keys
                              /\ j \in late \/ Round(j) \in (Round(k) - 1)..(Round(k) + 1)
    PROVE  Cardinality(younger) < CacheSize
  <1> DEFINE rounds == (Round(k) - 1)..(Round(k) + 1)
             near == rounds \X Addresses
  <1>1. /\ Round(k) \in Nat /\ CacheSize \in Nat
        /\ k \in near
    BY RoundType, DataProviderAssumption
  <1>2. IsFiniteSet(rounds) /\ Cardinality(rounds) = 3
    BY <1>1, FS_Interval
  <1>3. IsFiniteSet(Addresses) /\ Cardinality(Addresses) \in Nat
    BY FS_CardinalityType DEF RoomForOpenRounds
  <1>4. IsFiniteSet(near) /\ Cardinality(near) = 3 * Cardinality(Addresses)
    <2> HIDE DEF rounds
    <2> QED BY <1>2, <1>3, FS_Product
  <1> HIDE DEF near
  <1>5. IsFiniteSet(near \ {k}) /\ Cardinality(near \ {k}) = 3 * Cardinality(Addresses) - 1
    BY <1>1, <1>4, FS_RemoveElement
  <1>6. IsFiniteSet(late) /\ Cardinality(late) \in Nat
    BY KeysFinite, FS_Subset, FS_CardinalityType
  <1> DEFINE others == (near \ {k}) \cup late
  <1>7. younger \in SUBSET others
    <2>1. \A j \in Keys : j \in rounds \X Addresses <=> Round(j) \in rounds
      BY RoundType
    <2> QED BY <2>1 DEF near
  <1>8. /\ IsFiniteSet(others)
        /\ Cardinality(others) <= Cardinality(near \ {k}) + Cardinality(late)
    <2>1. IsFiniteSet((near \ {k}) \cap late)
      BY <1>6, FS_Subset
    <2>2. Cardinality((near \ {k}) \cap late) \in Nat
      BY <2>1, FS_CardinalityType
    <2>3. Cardinality(near \ {k}) \in Nat
      BY <1>5, FS_CardinalityType
    <2>4. /\ IsFiniteSet(others)
          /\ Cardinality(others) = Cardinality(near \ {k}) + Cardinality(late)
                                     - Cardinality((near \ {k}) \cap late)
      BY <1>5, <1>6, FS_Union
    <2> QED BY <1>6, <2>2, <2>3, <2>4
  <1> HIDE DEF others
  <1>9. Cardinality(younger) <= Cardinality(others)
    BY <1>7, <1>8, FS_Subset
  <1>10. /\ Cardinality(younger) \in Nat /\ Cardinality(others) \in Nat /\ Cardinality(Calls) \in Nat
    BY <1>7, <1>8, FS_Subset, FS_CardinalityType DEF RoomForOpenRounds
  <1> QED BY <1>1, <1>3, <1>5, <1>6, <1>8, <1>9, <1>10 DEF RoomForOpenRounds

\* The keys of the other requests in progress are fewer than the slots.
LEMMA OtherRequests ==
    ASSUME RoomForOpenRounds, NEW c \in Calls, NEW S,
           \A j \in S : \E d \in Calls \ {c} : IsActive(d) /\ call[d].key = j
    PROVE  Cardinality(S) < Cardinality(Calls)
  <1> DEFINE D == {d \in Calls \ {c} : IsActive(d) /\ call[d].key \in S}
             f == [d \in D |-> call[d].key]
  <1>1. IsFiniteSet(Calls) /\ Cardinality(Calls) \in Nat
    BY FS_CardinalityType DEF RoomForOpenRounds
  <1>2. IsFiniteSet(Calls \ {c}) /\ Cardinality(Calls \ {c}) = Cardinality(Calls) - 1
    BY <1>1, FS_RemoveElement
  <1>3. IsFiniteSet(D) /\ Cardinality(D) <= Cardinality(Calls) - 1
    BY <1>2, FS_Subset
  <1>4. f \in Surjection(D, S)
    <2>1. f \in [D -> S]
      OBVIOUS
    <2>2. \A j \in S : \E d \in D : f[d] = j
      OBVIOUS
    <2> QED BY <2>1, <2>2 DEF Surjection
  <1> HIDE DEF D, f
  <1>5. IsFiniteSet(S) /\ Cardinality(S) <= Cardinality(D)
    BY <1>3, <1>4, FS_Surjection
  <1>6. Cardinality(S) \in Nat /\ Cardinality(D) \in Nat
    BY <1>3, <1>5, FS_CardinalityType
  <1> QED BY <1>1, <1>3, <1>5, <1>6

\* Using a key keeps the order of the others, and makes them at most one older.
LEMMA UseAges ==
    ASSUME TypeOK, AgesRight, RoomForOpenRounds, NEW k \in Keys, age' = Aged(k)
    PROVE  /\ age'[k] = 0 /\ Younger(k)' = {}
           /\ \A i, j \in Keys : age'[i] = age'[j] /\ Young(i)' => i = j
           /\ \A j \in Keys : Young(j)' /\ j # k => Young(j)
           /\ \A j \in Keys : j # k => Younger(j)' \subseteq Younger(j) \cup {k}
           /\ \A j \in Keys : j # k /\ Young(j) => age'[j] <= Cardinality(Younger(j)')
  <1>1. \A j \in Keys : age[j] \in Nat /\ age[j] <= CacheSize
    BY DataProviderAssumption DEF TypeOK
  <1>2. CacheSize \in Nat /\ CacheSize > 0
    BY DataProviderAssumption
  <1>3. /\ age'[k] = 0
        /\ \A j \in Keys : j # k => age'[j] = IF age[j] < age[k] THEN age[j] + 1 ELSE age[j]
    BY DEF Aged
  <1>4. \A j \in Keys : age'[j] \in Nat
    BY <1>1, <1>3
  <1>5. Younger(k)' = {}
    BY <1>3, <1>4 DEF Younger
  <1>6. \A i, j \in Keys : age'[i] = age'[j] /\ Young(i)' => i = j
    <2>1. ASSUME NEW i \in Keys, NEW j \in Keys, age'[i] = age'[j], Young(i)', i # k, j # k
          PROVE  i = j
      <3>1. age'[i] < CacheSize
        BY <2>1 DEF Young
      <3>2. CASE age[i] = age[j]
        BY <1>1, <1>2, <1>3, <2>1, <3>1, <3>2 DEF AgesRight, Young
      <3>3. CASE age[i] # age[j]
        <4>1. \/ age[i] < age[k] /\ ~(age[j] < age[k]) /\ age[j] = age[i] + 1
              \/ age[j] < age[k] /\ ~(age[i] < age[k]) /\ age[i] = age[j] + 1
          BY <1>1, <1>3, <2>1, <3>3
        <4>2. \/ age[k] = age[j] /\ age[j] < CacheSize
              \/ age[k] = age[i] /\ age[i] < CacheSize
          BY <1>1, <1>2, <1>3, <2>1, <3>1, <4>1
        <4> QED BY <2>1, <4>2 DEF AgesRight, Young
      <3> QED BY <3>2, <3>3
    <2>2. ASSUME NEW j \in Keys, j # k
          PROVE  age'[j] # 0
      <3>1. age[j] # age[k] \/ age[j] >= CacheSize
        BY <1>1, <1>2, <2>2 DEF AgesRight, Young
      <3> QED BY <1>1, <1>2, <1>3, <2>2, <3>1
    <2> QED BY <1>3, <2>1, <2>2
  <1>7. \A j \in Keys : Young(j)' /\ j # k => Young(j)
    BY <1>1, <1>2, <1>3 DEF Young
  <1>8. ASSUME NEW j \in Keys, j # k
        PROVE  Younger(j)' \subseteq Younger(j) \cup {k}
    <2>1. ASSUME NEW i \in Keys, i # k, age'[i] < age'[j]
          PROVE  age[i] < age[j]
      BY <1>1, <1>3, <1>8, <2>1
    <2> QED BY <2>1 DEF Younger
  <1>9. ASSUME NEW j \in Keys, j # k, Young(j)
        PROVE  age'[j] <= Cardinality(Younger(j)')
    <2>0. IsFiniteSet(Younger(j)) /\ IsFiniteSet(Younger(j)')
      BY KeysFinite, FS_Subset DEF Younger
    <2>1. age[j] <= Cardinality(Younger(j)) /\ Cardinality(Younger(j)) \in Nat
      BY <1>9, <2>0, FS_CardinalityType DEF AgesRight
    <2>2. age[j] # age[k] /\ age[j] < CacheSize
      BY <1>9 DEF AgesRight, Young
    <2>3. CASE age[j] < age[k]
      <3>1. k \notin Younger(j)
        BY <1>1, <2>3 DEF Younger
      <3>2. Younger(j) \cup {k} \subseteq Younger(j)'
        BY <1>1, <1>3, <1>9, <2>3 DEF Younger
      <3>3. Cardinality(Younger(j)) + 1 <= Cardinality(Younger(j)')
        <4>1. Cardinality(Younger(j) \cup {k}) = Cardinality(Younger(j)) + 1
          BY <2>0, <3>1, FS_AddElement
        <4>2. Cardinality(Younger(j) \cup {k}) <= Cardinality(Younger(j)')
          BY <2>0, <3>2, FS_Subset
        <4> QED BY <4>1, <4>2
      <3>4. Cardinality(Younger(j)') \in Nat
        BY <2>0, FS_CardinalityType
      <3> QED BY <1>1, <1>3, <1>9, <2>1, <2>3, <3>3, <3>4
    <2>4. CASE age[j] > age[k]
      <3>1. Younger(j) \subseteq Younger(j)'
        <4>1. ASSUME NEW i \in Keys, age[i] < age[j]
              PROVE  age'[i] < age'[j]
          <5>1. CASE i = k
            BY <1>1, <1>3, <1>9, <2>4, <5>1
          <5>2. CASE i # k
            BY <1>1, <1>3, <1>9, <2>4, <4>1, <5>2
          <5> QED BY <5>1, <5>2
        <4> QED BY <4>1 DEF Younger
      <3>2. Cardinality(Younger(j)) <= Cardinality(Younger(j)')
        BY <2>0, <3>1, FS_Subset
      <3>3. Cardinality(Younger(j)') \in Nat
        BY <2>0, FS_CardinalityType
      <3> QED BY <1>1, <1>3, <1>9, <2>1, <2>4, <3>2, <3>3
    <2> QED BY <1>1, <1>9, <2>2, <2>3, <2>4
  <1> QED BY <1>3, <1>5, <1>6, <1>7, <1>8, <1>9

\* A request uses a key it was at work for, or one of the round before: the ages stay
\* right, few late keys can still come, and no open round loses its data.
LEMMA UseKeepsOpenRounds ==
    ASSUME CacheInv, TypeOK', RoomForOpenRounds, NEW c \in Calls, NEW k \in Keys,
           age' = Aged(k), now' = now, Round(k) <= now, AtWork(k) \/ Round(k) + 1 = now,
           \A d \in Calls \ {c} : call'[d] = call[d], call'[c].pc \notin {"epoch", "feeds"}
    PROVE  /\ \A i, j \in Keys : age'[i] = age'[j] /\ Young(i)' => i = j
           /\ \A j \in Keys : Young(j)' => age'[j] <= Cardinality(Younger(j)')
           /\ \A j \in Keys : Young(j)' => Round(j) <= now
           /\ FewLate'
           /\ \A j \in Keys : Young(j) /\ Open(j) => Young(j)'
  <1>1. /\ age'[k] = 0 /\ Younger(k)' = {}
        /\ \A i, j \in Keys : age'[i] = age'[j] /\ Young(i)' => i = j
        /\ \A j \in Keys : Young(j)' /\ j # k => Young(j)
        /\ \A j \in Keys : j # k => Younger(j)' \subseteq Younger(j) \cup {k}
        /\ \A j \in Keys : j # k /\ Young(j) => age'[j] <= Cardinality(Younger(j)')
    BY UseAges DEF CacheInv, IInv
  <1>2. \A j \in Keys : age'[j] \in Nat /\ age'[j] <= CacheSize /\ CacheSize \in Nat \ {0}
    BY DataProviderAssumption DEF TypeOK
  <1>3. \A j \in Keys : Round(j) \in Nat /\ now \in Nat
    BY RoundType DEF CacheInv, IInv, TypeOK
  <1>4. \A j \in Keys : Young(j)' => Round(j) <= now
    BY <1>1 DEF CacheInv, NotAhead
  <1>5. \A j \in Keys : AtWork(j)' => \E d \in Calls \ {c} : /\ IsActive(d) /\ call[d].key = j
                                                             /\ call[d].pc \in {"epoch", "feeds"}
    BY DEF AtWork, IsActive
  <1>6. Cardinality(LateKeys(k)') < Cardinality(Calls)
    <2>1. \A j \in LateKeys(k)' : AtWork(j)'
      BY <1>1, <1>2 DEF LateKeys
    <2>2. \A j \in LateKeys(k)' : j \in Keys
      BY DEF LateKeys
    <2> QED BY <1>5, <2>1, <2>2, OtherRequests
  <1>7. ASSUME NEW j \in Keys, j # k, Young(j), Open(j)
        PROVE  Cardinality(LateKeys(j)') < Cardinality(Calls)
    <2>1. LateKeys(j)' \subseteq LateKeys(j)
      <3>1. ASSUME NEW i \in Keys, Round(i) + 1 < Round(j), age'[i] < age'[j] \/ AtWork(i)'
            PROVE  age[i] < age[j] \/ AtWork(i)
        <4>1. CASE AtWork(i)'
          BY <1>5, <4>1 DEF AtWork
        <4>2. CASE age'[i] < age'[j]
          <5>1. i = k \/ age[i] < age[j]
            BY <1>1, <1>7, <4>2 DEF Younger
          <5>2. ~(Round(k) + 1 = now) \/ i # k
            <6>1. Round(j) <= now
              BY <1>7 DEF CacheInv, NotAhead
            <6> QED BY <1>3, <3>1, <6>1
          <5> QED BY <5>1, <5>2
        <4> QED BY <3>1, <4>1, <4>2
      <3> QED BY <3>1 DEF LateKeys
    <2>2. Cardinality(LateKeys(j)) < Cardinality(Calls)
      BY <1>7 DEF CacheInv, FewLate
    <2>3. IsFiniteSet(LateKeys(j))
      BY KeysFinite, FS_Subset DEF LateKeys
    <2>4. /\ Cardinality(LateKeys(j)') <= Cardinality(LateKeys(j)) /\ IsFiniteSet(LateKeys(j)')
      BY <2>1, <2>3, FS_Subset
    <2>5. /\ Cardinality(LateKeys(j)') \in Nat /\ Cardinality(LateKeys(j)) \in Nat
          /\ Cardinality(Calls) \in Nat
      BY <2>3, <2>4, FS_CardinalityType DEF RoomForOpenRounds
    <2> QED BY <2>2, <2>4, <2>5
  <1>8. ASSUME NEW j \in Keys, Young(j), Open(j)
        PROVE  Young(j)'
    <2>1. CASE j = k
      BY <1>1, <1>2, <2>1 DEF Young
    <2>2. CASE j # k
      <3>1. \A i \in Younger(j)' : /\ i \in Keys
                                   /\ \/ i \in LateKeys(j)'
                                      \/ Round(i) \in (Round(j) - 1)..(Round(j) + 1)
        <4>1. ASSUME NEW i \in Keys, age'[i] < age'[j]
              PROVE  i \in LateKeys(j)' \/ Round(i) \in (Round(j) - 1)..(Round(j) + 1)
          <5>1. Young(i)'
            BY <1>2, <4>1 DEF Young
          <5>2. Round(i) <= now /\ now <= Round(j) + 1
            BY <1>4, <1>8, <5>1 DEF Open
          <5>3. CASE Round(i) + 1 < Round(j)
            BY <4>1, <5>3 DEF LateKeys
          <5>4. CASE ~(Round(i) + 1 < Round(j))
            BY <1>3, <5>2, <5>4
          <5> QED BY <5>3, <5>4
        <4> QED BY <4>1 DEF Younger
      <3>2. Cardinality(LateKeys(j)') < Cardinality(Calls) /\ LateKeys(j)' \in SUBSET Keys
        BY <1>7, <1>8, <2>2 DEF LateKeys
      <3>3. j \notin Younger(j)'
        BY <1>2 DEF Younger
      <3>4. Cardinality(Younger(j)') < CacheSize
        BY <3>1, <3>2, <3>3, RoomForYounger
      <3>5. Cardinality(Younger(j)') \in Nat
        BY KeysFinite, FS_Subset, FS_CardinalityType DEF Younger
      <3>6. age'[j] <= Cardinality(Younger(j)')
        BY <1>1, <1>8, <2>2
      <3> QED BY <1>2, <3>4, <3>5, <3>6 DEF Young
    <2> QED BY <2>1, <2>2
  <1>9. FewLate'
    <2>1. ASSUME NEW j \in Keys, Young(j)', Open(j)'
          PROVE  Cardinality(LateKeys(j)') < Cardinality(Calls)
      <3>1. j # k => Young(j) /\ Open(j)
        BY <1>1, <2>1 DEF Open
      <3> QED BY <1>6, <1>7, <3>1
    <2> QED BY <2>1 DEF FewLate
  <1>10. ASSUME NEW j \in Keys, Young(j)'
         PROVE  age'[j] <= Cardinality(Younger(j)')
    <2>1. CASE j = k
      <3>1. Cardinality(Younger(k)') = 0
        BY <1>1, FS_EmptySet
      <3> QED BY <1>1, <2>1, <3>1
    <2>2. CASE j # k
      BY <1>1, <1>10, <2>2
    <2> QED BY <2>1, <2>2
  <1> QED BY <1>1, <1>4, <1>8, <1>9, <1>10

\* Requests that leave the cache alone: nothing gets older, and no new work is for a round
\* that is late for a cached key.
LEMMA CacheUntouched ==
    ASSUME CacheInv, RoomForOpenRounds, UNCHANGED cache, now' \in {now, now + 1},
           \A j \in Keys : AtWork(j)' => AtWork(j) \/ Round(j) = now
    PROVE  AgesRight' /\ FewLate'
  <1>1. AgesRight'
    BY DEF CacheInv, AgesRight, cache, Cached, Young, Younger
  <1>2. \A j \in Keys : Round(j) \in Nat /\ now \in Nat
    BY RoundType DEF CacheInv, IInv, TypeOK
  <1>3. ASSUME NEW k \in Keys, Young(k)', Open(k)'
        PROVE  Cardinality(LateKeys(k)') < Cardinality(Calls)
    <2>1. Young(k) /\ Open(k) /\ Round(k) <= now
      BY <1>2, <1>3 DEF cache, Young, Open, CacheInv, NotAhead
    <2>2. LateKeys(k)' \subseteq LateKeys(k)
      <3>1. ASSUME NEW j \in Keys, Round(j) + 1 < Round(k), AtWork(j)'
            PROVE  AtWork(j)
        BY <1>2, <2>1, <3>1
      <3> QED BY <3>1 DEF LateKeys, cache
    <2>3. Cardinality(LateKeys(k)) < Cardinality(Calls)
      BY <2>1 DEF CacheInv, FewLate
    <2>4. IsFiniteSet(LateKeys(k))
      BY KeysFinite, FS_Subset DEF LateKeys
    <2>5. Cardinality(LateKeys(k)') <= Cardinality(LateKeys(k)) /\ IsFiniteSet(LateKeys(k)')
      BY <2>2, <2>4, FS_Subset
    <2>6. /\ Cardinality(LateKeys(k)') \in Nat /\ Cardinality(LateKeys(k)) \in Nat
          /\ Cardinality(Calls) \in Nat
      BY <2>4, <2>5, FS_CardinalityType DEF RoomForOpenRounds
    <2> QED BY <2>3, <2>5, <2>6
  <1> QED BY <1>1, <1>3 DEF FewLate

\* A get drops nothing.
LEMMA GetCaches ==
    ASSUME CacheInv, TypeOK', NEW k \in Keys, Cached(k), CacheGet(k)
    PROVE  \A j \in Keys : Cached(j)' <=> Young(j)'
  <1>1. \A j \in Keys : age[j] \in Nat /\ age[j] <= CacheSize /\ CacheSize \in Nat \ {0}
    BY DataProviderAssumption DEF CacheInv, IInv, TypeOK
  <1>2. \A j \in Keys : age'[j] = IF j = k THEN 0
                                  ELSE IF age[j] < age[k] THEN age[j] + 1 ELSE age[j]
    BY DEF CacheGet, Aged
  <1>3. age[k] < CacheSize
    BY DEF CacheInv, AgesRight, Young
  <1>4. \A j \in Keys : Young(j)' <=> Young(j)
    BY <1>1, <1>2, <1>3 DEF Young
  <1>5. \A j \in Keys : Cached(j)' <=> Cached(j)
    BY DEF CacheGet, Cached
  <1> QED BY <1>4, <1>5 DEF CacheInv, AgesRight

\* A set drops what has become too old, and nothing else.
LEMMA SetCaches ==
    ASSUME CacheInv, TypeOK', NEW k \in Keys, NEW x \in Randoms, CacheSet(k, x)
    PROVE  /\ votingRoundData'[k] = x
           /\ \A j \in Keys : Cached(j)' <=> Young(j)'
           /\ \A j \in Keys : j # k /\ Young(j)' => votingRoundData'[j] = votingRoundData[j]
  <1>1. \A j \in Keys : age[j] \in Nat /\ age[j] <= CacheSize /\ CacheSize \in Nat \ {0}
    BY DataProviderAssumption DEF CacheInv, IInv, TypeOK
  <1>2. /\ \A j \in Keys : age'[j] = IF j = k THEN 0
                                     ELSE IF age[j] < age[k] THEN age[j] + 1 ELSE age[j]
        /\ votingRoundData'[k] = x
        /\ \A j \in Keys : j # k => votingRoundData'[j] = IF age'[j] = CacheSize THEN NoData
                                                          ELSE votingRoundData[j]
    BY DEF CacheSet, Aged
  <1>3. x # NoData
    BY DEF Randoms
  <1>4. Cached(k)' /\ Young(k)'
    BY <1>1, <1>2, <1>3 DEF Cached, Young
  <1>5. ASSUME NEW j \in Keys, j # k
        PROVE  Cached(j)' <=> Young(j)'
    <2>1. age'[j] \in Nat /\ age'[j] <= CacheSize
      BY DEF TypeOK
    <2>2. CASE age'[j] = CacheSize
      BY <1>1, <1>2, <1>5, <2>2 DEF Cached, Young
    <2>3. CASE age'[j] # CacheSize
      <3>1. age'[j] < CacheSize /\ Young(j)'
        BY <1>1, <2>1, <2>3 DEF Young
      <3>2. Young(j)
        BY <1>1, <1>2, <1>5, <3>1 DEF Young
      <3>3. Cached(j)
        BY <3>2 DEF CacheInv, AgesRight
      <3> QED BY <1>2, <1>5, <2>3, <3>1, <3>3 DEF Cached
    <2> QED BY <2>2, <2>3
  <1>6. \A j \in Keys : j # k /\ Young(j)' => votingRoundData'[j] = votingRoundData[j]
    BY <1>1, <1>2 DEF Young, TypeOK
  <1> QED BY <1>2, <1>4, <1>5, <1>6

\* Every action keeps what is open.
LEMMA NextCacheInv ==
    ASSUME ~ClientTimeouts, RoomForOpenRounds, CacheInv, [Next]_vars
    PROVE  CacheInv'
  <1>0. IInv' /\ TypeOK' /\ IInv /\ TypeOK
    BY NextIInv DEF CacheInv, IInv
  <1>a. now \in Nat /\ \A j \in Keys : Round(j) \in Nat
    BY <1>0, RoundType DEF TypeOK
  <1>1. ASSUME NEW c \in Calls, NEW k \in Keys, Submit1(c, k)
        PROVE  CacheInv'
    <2>1. /\ call'[c].pc = "epoch" /\ call'[c].key = k /\ Round(k) = now /\ ~IsActive(c)
          /\ \A d \in Calls : d # c => call'[d] = call[d]
          /\ UNCHANGED cache /\ UNCHANGED <<now, commit, answered>>
      BY <1>0, <1>1, SuspendEffect DEF Submit1, client
    <2>2. AgesRight' /\ FewLate'
      <3>1. \A j \in Keys : AtWork(j)' => AtWork(j) \/ Round(j) = now
        BY <2>1 DEF AtWork, IsActive
      <3> QED BY <2>1, <3>1, CacheUntouched
    <2>3. NotAhead'
      BY <1>a, <2>1 DEF CacheInv, NotAhead, IsActive, cache, Young
    <2>4. OpenKept'
      BY <2>1 DEF CacheInv, OpenKept, IsActive, cache, Open
    <2> QED BY <1>0, <2>2, <2>3, <2>4 DEF CacheInv
  <1>2. ASSUME NEW c \in Calls, NEW k \in Keys, Submit2(c, k)
        PROVE  CacheInv'
    <2>1. /\ call'[c].pc = "reveal" /\ call'[c].key = k /\ Round(k) + 1 = now /\ ~IsActive(c)
          /\ \A d \in Calls : d # c => call'[d] = call[d]
          /\ Cached(k) /\ CacheGet(k)
          /\ UNCHANGED <<now, commit, answered, votingRoundData>>
      BY <1>0, <1>2, SuspendEffect DEF Submit2, CacheGet, client
    <2>2. /\ age' = Aged(k) /\ Round(k) <= now /\ call'[c].pc \notin {"epoch", "feeds"}
          /\ \A d \in Calls \ {c} : call'[d] = call[d]
      BY <1>a, <2>1 DEF CacheGet
    <2>3. AgesRight' /\ FewLate'
      BY <1>0, <2>1, <2>2, UseKeepsOpenRounds, GetCaches DEF AgesRight
    <2>4. \A j \in Keys : Young(j)' => Round(j) <= now
      BY <1>0, <2>1, <2>2, UseKeepsOpenRounds
    <2>5. NotAhead'
      BY <2>1, <2>2, <2>4 DEF CacheInv, NotAhead, IsActive
    <2>6. OpenKept'
      BY <2>1 DEF CacheInv, OpenKept, IsActive, Open
    <2> QED BY <1>0, <2>3, <2>5, <2>6 DEF CacheInv
  <1>3. ASSUME NEW c \in Calls, CommitFromCache(c)
        PROVE  CacheInv'
    <2>0. PICK k \in Keys : k = call[c].key
      BY <1>0, <1>3, ActiveCall DEF CommitFromCache
    <2>1. /\ call'[c].pc = "commit" /\ call'[c].key = k /\ call'[c].data = votingRoundData[k]
          /\ call[c].pc = "epoch" /\ IsActive(c)
          /\ \A d \in Calls : d # c => call'[d] = call[d]
          /\ Cached(k) /\ CacheGet(k)
          /\ UNCHANGED <<now, commit, answered, votingRoundData>>
      BY <1>0, <1>3, <2>0, ResumeEffect DEF CommitFromCache, CacheGet, client
    <2>2. /\ age' = Aged(k) /\ Round(k) <= now /\ call'[c].pc \notin {"epoch", "feeds"}
          /\ \A d \in Calls \ {c} : call'[d] = call[d] /\ AtWork(k)
      BY <2>0, <2>1 DEF CacheGet, AtWork, CacheInv, NotAhead
    <2>3. AtWork(k)
      BY <2>0, <2>1 DEF AtWork
    <2>4. AgesRight' /\ FewLate'
      BY <1>0, <2>1, <2>2, <2>3, UseKeepsOpenRounds, GetCaches DEF AgesRight
    <2>5. \A j \in Keys : Young(j)' => Round(j) <= now
      BY <1>0, <2>1, <2>2, <2>3, UseKeepsOpenRounds
    <2>6. NotAhead'
      BY <2>1, <2>2, <2>5 DEF CacheInv, NotAhead, IsActive
    <2>7. OpenKept'
      BY <2>1 DEF CacheInv, OpenKept, IsActive, Open
    <2> QED BY <1>0, <2>4, <2>6, <2>7 DEF CacheInv
  <1>4. ASSUME NEW c \in Calls, RequestFeeds(c)
        PROVE  CacheInv'
    <2>0. PICK k \in Keys : k = call[c].key
      BY <1>0, <1>4, ActiveCall DEF RequestFeeds
    <2>1. /\ call'[c].pc = "feeds" /\ call'[c].key = k /\ call[c].pc = "epoch" /\ IsActive(c)
          /\ \A d \in Calls : d # c => call'[d] = call[d]
          /\ ~Cached(k) /\ UNCHANGED cache /\ UNCHANGED <<now, commit, answered>>
      BY <1>0, <1>4, <2>0, ResumeEffect DEF RequestFeeds, client
    <2>2. AgesRight' /\ FewLate'
      <3>1. \A j \in Keys : AtWork(j)' => AtWork(j)
        BY <2>0, <2>1 DEF AtWork, IsActive
      <3> QED BY <2>1, <3>1, CacheUntouched
    <2>3. NotAhead'
      BY <2>0, <2>1 DEF CacheInv, NotAhead, IsActive, cache, Young
    <2>4. Open(k) => k \notin answered
      BY <2>1 DEF CacheInv, OpenKept, Cached
    <2>5. OpenKept'
      BY <2>1, <2>4 DEF CacheInv, OpenKept, IsActive, cache, Open
    <2> QED BY <1>0, <2>2, <2>3, <2>5 DEF CacheInv
  <1>5. ASSUME NEW c \in Calls, FeedsArrive(c)
        PROVE  CacheInv'
    <2>0. PICK k \in Keys : k = call[c].key
      BY <1>0, <1>5, ActiveCall DEF FeedsArrive
    <2>1. /\ call'[c].pc = "commit" /\ call'[c].key = k /\ call'[c].data = drawn + 1
          /\ call[c].pc = "feeds" /\ IsActive(c)
          /\ \A d \in Calls : d # c => call'[d] = call[d]
          /\ CacheSet(k, drawn + 1) /\ UNCHANGED <<now, commit, answered>>
      BY <1>0, <1>5, <2>0, ResumeEffect DEF FeedsArrive, client
    <2>2. drawn + 1 \in Randoms
      BY <1>0, <1>5, DataProviderAssumption DEF FeedsArrive, TypeOK, Randoms
    <2>3. /\ age' = Aged(k) /\ Round(k) <= now /\ call'[c].pc \notin {"epoch", "feeds"}
          /\ \A d \in Calls \ {c} : call'[d] = call[d]
          /\ AtWork(k)
      BY <2>0, <2>1 DEF CacheSet, AtWork, CacheInv, NotAhead
    <2>4. /\ votingRoundData'[k] = drawn + 1
          /\ \A j \in Keys : Cached(j)' <=> Young(j)'
          /\ \A j \in Keys : j # k /\ Young(j)' => votingRoundData'[j] = votingRoundData[j]
      BY <1>0, <2>1, <2>2, SetCaches
    <2>5. /\ FewLate' /\ \A j \in Keys : Young(j)' => Round(j) <= now
          /\ \A j \in Keys : Young(j) /\ Open(j) => Young(j)'
          /\ \A i, j \in Keys : age'[i] = age'[j] /\ Young(i)' => i = j
          /\ \A j \in Keys : Young(j)' => age'[j] <= Cardinality(Younger(j)')
      BY <1>0, <2>1, <2>3, UseKeepsOpenRounds
    <2>6. AgesRight'
      BY <2>4, <2>5 DEF AgesRight
    <2>7. NotAhead'
      BY <2>1, <2>3, <2>5 DEF CacheInv, NotAhead, IsActive
    <2>8. \A j \in Keys : j # k /\ Open(j) /\ Cached(j) => votingRoundData'[j] = votingRoundData[j]
      BY <2>4, <2>5 DEF CacheInv, AgesRight
    <2>9. OpenKept'
      <3>1. ASSUME NEW d \in Calls, IsActive(d)', call'[d].pc = "commit", Open(call[d].key)', d # c
            PROVE  votingRoundData'[call[d].key] = call[d].data
        <4>1. /\ call'[d] = call[d] /\ IsActive(d) /\ Open(call[d].key) /\ call[d].pc = "commit"
          BY <2>1, <3>1 DEF IsActive, Open
        <4>2. /\ call[d].key \in Keys /\ call[d].key # k /\ call[d].data # NoData
          BY <1>0, <2>0, <2>1, <3>1, <4>1, ActiveCall DEF IInv, OneCallPerKey, CommitCallMatches
        <4>3. votingRoundData[call[d].key] = call[d].data
          BY <4>1 DEF CacheInv, OpenKept
        <4> QED BY <2>8, <4>1, <4>2, <4>3 DEF Cached
      <3>2. ASSUME NEW j \in answered, Open(j)
            PROVE  votingRoundData'[j] = commit[j]
        <4>1. j # k /\ votingRoundData[j] = commit[j] /\ commit[j] # NoData /\ j \in Keys
          BY <1>0, <2>0, <2>1, <3>2 DEF CacheInv, OpenKept, TypeOK
        <4> QED BY <2>8, <3>2, <4>1 DEF Cached
      <3>3. \A j : Open(j)' <=> Open(j)
        BY <2>1 DEF Open
      <3>4. ASSUME NEW d \in Calls, IsActive(d)', call'[d].pc = "commit", Open(call[d].key)'
            PROVE  votingRoundData'[call'[d].key] = call'[d].data
        <4>1. CASE d = c
          BY <2>1, <2>4, <4>1
        <4>2. CASE d # c
          BY <2>1, <3>1, <3>4, <4>2
        <4> QED BY <4>1, <4>2
      <3>5. ASSUME NEW j \in answered, Open(j), NEW d \in Calls, IsActive(d)', call'[d].key = j
            PROVE  call'[d].pc # "feeds"
        BY <2>1, <3>5 DEF CacheInv, OpenKept, IsActive
      <3>6. \A j \in answered' : commit'[j] # NoData
        BY <2>1 DEF CacheInv, OpenKept
      <3>7. \A j \in answered' : Open(j)' =>
                /\ votingRoundData'[j] = commit'[j]
                /\ \A d \in Calls : IsActive(d)' /\ call'[d].key = j => call'[d].pc # "feeds"
        BY <2>1, <3>2, <3>3, <3>5
      <3> QED BY <3>4, <3>6, <3>7 DEF OpenKept
    <2> QED BY <1>0, <2>5, <2>6, <2>7, <2>9 DEF CacheInv
  <1>6. ASSUME NEW c \in Calls, CommitReply(c)
        PROVE  CacheInv'
    <2>0. PICK k \in Keys : k = call[c].key
      BY <1>0, <1>6, ActiveCall DEF CommitReply
    <2>1. /\ call[c].pc = "commit" /\ IsActive(c) /\ call[c].heard
          /\ call'[c].pc = "idle" /\ \A d \in Calls : d # c => call'[d] = call[d]
          /\ answered' = answered \cup {k} /\ commit' = [commit EXCEPT ![k] = call[c].data]
          /\ UNCHANGED cache /\ UNCHANGED now
      BY <1>0, <1>6, <2>0, DoneEffect DEF CommitReply, IInv, AllHeard
    <2>2. /\ commit'[k] = call[c].data /\ call[c].data # NoData
          /\ \A j \in Keys : j # k => commit'[j] = commit[j]
          /\ \A d \in Calls : IsActive(d) /\ d # c => call[d].key # k
          /\ answered \subseteq Keys
      BY <1>0, <2>0, <2>1 DEF TypeOK, IInv, CommitCallMatches, OneCallPerKey
    <2>3. AgesRight' /\ FewLate'
      <3>1. \A j \in Keys : AtWork(j)' => AtWork(j)
        BY <2>1 DEF AtWork, IsActive
      <3> QED BY <2>1, <3>1, CacheUntouched
    <2>4. NotAhead'
      BY <2>1 DEF CacheInv, NotAhead, IsActive, cache, Young
    <2>5. OpenKept'
      <3>1. \A d \in Calls : IsActive(d)' => IsActive(d) /\ d # c /\ call'[d] = call[d]
        BY <2>1 DEF IsActive
      <3>2. \A j : Open(j)' <=> Open(j)
        BY <2>1 DEF Open
      <3>3. votingRoundData' = votingRoundData
        BY <2>1 DEF cache
      <3>4. Open(k) => votingRoundData[k] = commit'[k]
        BY <2>0, <2>1, <2>2 DEF CacheInv, OpenKept
      <3> QED BY <2>1, <2>2, <3>1, <3>2, <3>3, <3>4 DEF CacheInv, OpenKept
    <2> QED BY <1>0, <2>3, <2>4, <2>5 DEF CacheInv
  <1>7. ASSUME NEW c \in Calls, RevealReply(c) \/ Submit1Fails(c)
        PROVE  CacheInv'
    <2>1. /\ call'[c].pc = "idle" /\ \A d \in Calls : d # c => call'[d] = call[d]
          /\ UNCHANGED cache /\ UNCHANGED <<now, commit, answered>>
      BY <1>0, <1>7, DoneEffect DEF RevealReply, Submit1Fails, client
    <2>2. AgesRight' /\ FewLate'
      <3>1. \A j \in Keys : AtWork(j)' => AtWork(j)
        BY <2>1 DEF AtWork, IsActive
      <3> QED BY <2>1, <3>1, CacheUntouched
    <2>3. NotAhead'
      BY <2>1 DEF CacheInv, NotAhead, IsActive, cache, Young
    <2>4. OpenKept'
      BY <2>1 DEF CacheInv, OpenKept, IsActive, cache, Open
    <2> QED BY <1>0, <2>2, <2>3, <2>4 DEF CacheInv
  <1>8. ASSUME NEW c \in Calls, ClientTimeout(c)
        PROVE  CacheInv'
    BY <1>8 DEF ClientTimeout
  <1>9. CASE Restart
    <2>1. /\ \A c \in Calls : ~IsActive(c)'
          /\ \A k \in Keys : age'[k] = CacheSize /\ ~Cached(k)'
          /\ answered' = {}
      BY <1>9 DEF Restart, Idle, IsActive, Cached
    <2>2. \A k \in Keys : ~Young(k)'
      BY <2>1, DataProviderAssumption DEF Young
    <2> QED BY <1>0, <2>1, <2>2 DEF CacheInv, AgesRight, NotAhead, FewLate, OpenKept
  <1>10. CASE NewRound \/ UNCHANGED <<now, cache, call, commit, answered>>
    <2>1. now' \in {now, now + 1} /\ UNCHANGED <<call, commit, answered>> /\ UNCHANGED cache
      BY <1>10 DEF NewRound, cache, client
    <2>2. AgesRight' /\ FewLate'
      <3>1. \A j \in Keys : AtWork(j)' => AtWork(j)
        BY <2>1 DEF AtWork, IsActive
      <3> QED BY <2>1, <3>1, CacheUntouched
    <2>3. NotAhead'
      <3>1. \A c \in Calls : IsActive(c) => call[c].key \in Keys
        BY <1>0, ActiveCall
      <3> QED BY <1>a, <2>1, <3>1 DEF CacheInv, NotAhead, IsActive, cache, Young
    <2>4. OpenKept'
      <3>1. \A j \in Keys : Open(j)' => Open(j)
        BY <1>a, <2>1 DEF Open
      <3>2. /\ \A c \in Calls : IsActive(c) => call[c].key \in Keys
            /\ answered \subseteq Keys
        BY <1>0, ActiveCall DEF TypeOK
      <3> QED BY <2>1, <3>1, <3>2 DEF CacheInv, OpenKept, IsActive, cache
    <2> QED BY <1>0, <2>2, <2>3, <2>4 DEF CacheInv
  <1>11. BeginShutdown \/ Drained \/ UNCHANGED vars
            => UNCHANGED <<now, cache, call, commit, answered>>
    BY DEF BeginShutdown, Drained, vars, client
  <1> QED BY <1>1, <1>2, <1>3, <1>4, <1>5, <1>6, <1>7, <1>8, <1>9, <1>10, <1>11 DEF Next, Handler

\* Nothing is cached and nobody asks.
LEMMA InitCacheInv ==
    ASSUME Init
    PROVE  CacheInv
  <1>1. /\ \A c \in Calls : ~IsActive(c)
        /\ \A k \in Keys : age[k] = CacheSize /\ ~Cached(k)
        /\ answered = {}
    BY DEF Init, Idle, IsActive, Cached
  <1>2. \A k \in Keys : ~Young(k)
    BY <1>1, DataProviderAssumption DEF Young
  <1> QED BY InitIInv, <1>1, <1>2 DEF CacheInv, AgesRight, NotAhead, FewLate, OpenKept

\* With room for three rounds of every address, and for the requests in progress, the LRU
\* cache holds the data of every commit that can still be revealed, whatever requests were
\* delayed for however long.
THEOREM OpenCommitsStayCached ==
    ASSUME ~ClientTimeouts, RoomForOpenRounds
    PROVE  Spec => []OpenCommitsCached
  <1>1. Init => CacheInv
    BY InitCacheInv
  <1>2. CacheInv /\ [Next]_vars => CacheInv'
    BY NextCacheInv
  <1>3. CacheInv => OpenCommitsCached
    BY DEF CacheInv, OpenKept, OpenCommitsCached, Open
  <1> QED BY <1>1, <1>2, <1>3, PTL DEF Spec

\* Under the same conditions a repeated submit1 is answered with the commit already given, as
\* long as that can be revealed.
THEOREM RepeatedCommitsEqual ==
    ASSUME ~ClientTimeouts, RoomForOpenRounds
    PROVE  Spec => RepeatedCommitUnchanged
  <1> DEFINE Same == \A k \in answered \cap answered' :
                        now <= Round(k) + 1 => commit'[k] = commit[k]
  <1>1. Init => CacheInv
    BY InitCacheInv
  <1>2. CacheInv /\ [Next]_vars => CacheInv'
    BY NextCacheInv
  <1>3. CacheInv /\ [Next]_vars => [Same]_vars
    <2> SUFFICES ASSUME CacheInv, [Next]_vars PROVE Same \/ UNCHANGED vars
      OBVIOUS
    <2>1. ASSUME NEW c \in Calls, CommitReply(c)
          PROVE  Same
      <3>1. /\ IsActive(c) /\ call[c].pc = "commit" /\ call[c].key \in Keys
            /\ commit' = [commit EXCEPT ![call[c].key] = call[c].data] \/ UNCHANGED commit
        BY <2>1, ActiveCall DEF CommitReply, CacheInv, IInv
      <3>2. /\ commit \in [Keys -> Randoms \cup {NoData}] /\ answered \subseteq Keys
        BY DEF CacheInv, IInv, TypeOK
      <3>3. call[c].key \in answered /\ Open(call[c].key) => call[c].data = commit[call[c].key]
        BY <3>1 DEF CacheInv, OpenKept
      <3> QED BY <3>1, <3>2, <3>3 DEF Open
    <2>2. \/ \E c \in Calls : CommitReply(c)
          \/ UNCHANGED commit
      BY DEF Next, Handler, Submit1, Submit2, CommitFromCache, RequestFeeds, FeedsArrive,
         RevealReply, Submit1Fails, ClientTimeout, BeginShutdown, Drained, Restart, NewRound,
         vars, client
    <2> QED BY <2>1, <2>2
  <1> QED BY <1>1, <1>2, <1>3, PTL DEF Spec, RepeatedCommitUnchanged

-----------------------------------------------------------------------------
(* Randoms are not shared *)

\* A random once known was drawn, ...
KnownDrawn == \A k \in Keys : KnownFor(k) \subseteq 1..drawn

RInv == TypeOK /\ RandomsApart /\ KnownDrawn

\* ... so a step in which every key only keeps what it knows, but for a new
\* random that one of them gets, keeps them apart.
LEMMA StayApart ==
    ASSUME RInv, TypeOK', NEW k, drawn' \in {drawn, drawn + 1},
           \A j \in Keys : KnownFor(j)' \subseteq KnownFor(j)
                              \cup (IF j = k /\ drawn' = drawn + 1 THEN {drawn + 1} ELSE {})
    PROVE  RInv'
  <1>1. drawn \in Nat /\ Keys' = Keys
    BY DEF RInv, TypeOK
  <1>2. \A j \in Keys : drawn + 1 \notin KnownFor(j)
    BY <1>1 DEF RInv, KnownDrawn
  <1>3. RandomsApart'
    <2> SUFFICES ASSUME NEW i \in Keys, NEW j \in Keys, NEW x \in KnownFor(i)' \cap KnownFor(j)'
                 PROVE  i = j
      BY DEF RandomsApart
    <2>1. CASE x = drawn + 1
      BY <2>1, <1>2
    <2>2. CASE x # drawn + 1
      <3>1. x \in KnownFor(i) \cap KnownFor(j)
        BY <2>2
      <3> QED BY <3>1 DEF RInv, RandomsApart
    <2> QED BY <2>1, <2>2
  <1>4. KnownDrawn'
    <2> SUFFICES ASSUME NEW j \in Keys, NEW x \in KnownFor(j)' PROVE x \in 1..(drawn')
      BY DEF KnownDrawn
    <2>1. KnownFor(j) \subseteq 1..drawn
      BY DEF RInv, KnownDrawn
    <2>2. x \in KnownFor(j) \/ (x = drawn + 1 /\ drawn' = drawn + 1)
      OBVIOUS
    <2>3. 1..drawn \subseteq 1..(drawn')
      BY <1>1
    <2>4. x = drawn + 1 /\ drawn' = drawn + 1 => x \in 1..(drawn')
      BY <1>1
    <2> QED BY <2>1, <2>2, <2>3, <2>4
  <1> QED BY <1>3, <1>4 DEF RInv

\* What a key knows after a step, from what changed of it.
LEMMA KnownKept ==
    ASSUME NEW k \in Keys, NEW new,
           /\ votingRoundData'[k] \in KnownFor(k) \cup {NoData} \cup new
           /\ commit'[k] \in KnownFor(k) \cup {NoData} \cup new
           /\ reveal'[k] \in KnownFor(k) \cup {NoData} \cup new,
           \A c \in Calls : IsActive(c)' /\ call'[c].key = k =>
               call'[c].data \in KnownFor(k) \cup {NoData} \cup new
    PROVE  KnownFor(k)' \subseteq KnownFor(k) \cup new
  <1> SUFFICES ASSUME NEW x \in KnownFor(k)' PROVE x \in KnownFor(k) \cup new
    OBVIOUS
  <1>1. x # NoData
    BY DEF KnownFor
  <1>2. \/ x \in {votingRoundData'[k], commit'[k], reveal'[k]}
        \/ \E c \in Calls : IsActive(c)' /\ call'[c].key = k /\ x = call'[c].data
    BY DEF KnownFor
  <1> HIDE DEF NoData
  <1> QED BY <1>1, <1>2

\* Every key knows what it has in these places.
LEMMA KnownIn ==
    ASSUME NEW k \in Keys
    PROVE  /\ votingRoundData[k] \in KnownFor(k) \cup {NoData}
           /\ commit[k] \in KnownFor(k) \cup {NoData}
           /\ reveal[k] \in KnownFor(k) \cup {NoData}
           /\ \A c \in Calls : IsActive(c) /\ call[c].key = k =>
                 call[c].data \in KnownFor(k) \cup {NoData}
  BY DEF KnownFor

\* A step that draws nothing and lets no key know more keeps them apart.
LEMMA NothingLearnt ==
    ASSUME RInv, TypeOK', UNCHANGED drawn, NEW c \in Calls,
           \A d \in Calls : d # c => call'[d] = call[d] \/ ~IsActive(d)',
           IsActive(c)' => call'[c].data \in KnownFor(call'[c].key) \cup {NoData},
           \A k \in Keys : /\ votingRoundData'[k] \in KnownFor(k) \cup {NoData}
                           /\ commit'[k] \in KnownFor(k) \cup {NoData}
                           /\ reveal'[k] \in KnownFor(k) \cup {NoData}
    PROVE  RInv'
  <1>1. ASSUME NEW k \in Keys PROVE KnownFor(k)' \subseteq KnownFor(k)
    <2>1. ASSUME NEW d \in Calls, IsActive(d)', call'[d].key = k
          PROVE  call'[d].data \in KnownFor(k) \cup {NoData}
      <3>1. CASE d = c
        BY <3>1, <2>1
      <3>2. CASE d # c
        BY <3>2, <2>1, KnownIn DEF IsActive
      <3> QED BY <3>1, <3>2
    <2>2. KnownFor(k)' \subseteq KnownFor(k) \cup {}
      BY <2>1, KnownKept
    <2> QED BY <2>2
  <1> QED BY <1>1, StayApart

LEMMA NextRInv == RInv /\ [Next]_vars => RInv'
  <1> SUFFICES ASSUME RInv, [Next]_vars PROVE RInv'
    OBVIOUS
  <1>0. TypeOK /\ TypeOK'
    BY NextTypeOK DEF RInv
  <1>a. \A k \in Keys : /\ votingRoundData[k] \in KnownFor(k) \cup {NoData}
                        /\ commit[k] \in KnownFor(k) \cup {NoData}
                        /\ reveal[k] \in KnownFor(k) \cup {NoData}
    BY KnownIn
  <1>b. \A c \in Calls : IsActive(c) => call[c].key \in Keys
                           /\ call[c].data \in KnownFor(call[c].key) \cup {NoData}
    BY <1>0, ActiveCall, KnownIn
  <1>1. ASSUME NEW c \in Calls, NEW k \in Keys, Submit1(c, k)
        PROVE  RInv'
    <2>1. /\ call'[c].key = k /\ call'[c].data = NoData
          /\ \A d \in Calls : d # c => call'[d] = call[d]
      BY <1>0, <1>1, SuspendEffect DEF Submit1
    <2>2. UNCHANGED <<votingRoundData, commit, reveal, drawn>>
      BY <1>1 DEF Submit1, cache, client
    <2> QED BY <1>0, <1>a, <2>1, <2>2, NothingLearnt
  <1>2. ASSUME NEW c \in Calls, NEW k \in Keys, Submit2(c, k)
        PROVE  RInv'
    <2>1. /\ call'[c].key = k /\ call'[c].data = votingRoundData[k]
          /\ \A d \in Calls : d # c => call'[d] = call[d]
      BY <1>0, <1>2, SuspendEffect DEF Submit2
    <2>2. UNCHANGED <<votingRoundData, commit, reveal, drawn>>
      BY <1>2 DEF Submit2, CacheGet, client
    <2> QED BY <1>0, <1>a, <2>1, <2>2, NothingLearnt
  <1>3. ASSUME NEW c \in Calls, CommitFromCache(c)
        PROVE  RInv'
    <2>1. IsActive(c) /\ call[c].key \in Keys
      BY <1>0, <1>3, ActiveCall DEF CommitFromCache
    <2>2. /\ call'[c].key = call[c].key /\ call'[c].data = votingRoundData[call[c].key]
          /\ \A d \in Calls : d # c => call'[d] = call[d]
      BY <1>0, <1>3, <2>1, ResumeEffect DEF CommitFromCache
    <2>3. UNCHANGED <<votingRoundData, commit, reveal, drawn>>
      BY <1>3 DEF CommitFromCache, CacheGet, client
    <2> QED BY <1>0, <1>a, <2>1, <2>2, <2>3, NothingLearnt
  <1>4. ASSUME NEW c \in Calls, RequestFeeds(c)
        PROVE  RInv'
    <2>1. IsActive(c)
      BY <1>4 DEF RequestFeeds
    <2>2. /\ call'[c].key = call[c].key /\ call'[c].data = NoData
          /\ \A d \in Calls : d # c => call'[d] = call[d]
      BY <1>0, <1>4, <2>1, ResumeEffect DEF RequestFeeds
    <2>3. UNCHANGED <<votingRoundData, commit, reveal, drawn>>
      BY <1>4 DEF RequestFeeds, cache, client
    <2> QED BY <1>0, <1>a, <2>2, <2>3, NothingLearnt
  <1>5. ASSUME NEW c \in Calls, FeedsArrive(c)
        PROVE  RInv'
    <2>1. IsActive(c) /\ call[c].key \in Keys
      BY <1>0, <1>5, ActiveCall DEF FeedsArrive
    <2>2. /\ call'[c].key = call[c].key /\ call'[c].data = drawn + 1
          /\ \A d \in Calls : d # c => call'[d] = call[d]
      BY <1>0, <1>5, <2>1, ResumeEffect DEF FeedsArrive
    <2>3. /\ UNCHANGED <<commit, reveal>> /\ drawn' = drawn + 1
          /\ \A j \in Keys : votingRoundData'[j] =
                IF j = call[c].key THEN drawn + 1
                ELSE IF Aged(call[c].key)[j] = CacheSize THEN NoData ELSE votingRoundData[j]
      BY <1>5 DEF FeedsArrive, CacheSet, client
    <2>4. ASSUME NEW j \in Keys
          PROVE  KnownFor(j)' \subseteq KnownFor(j) \cup (IF j = call[c].key THEN {drawn + 1} ELSE {})
      <3> DEFINE new == IF j = call[c].key THEN {drawn + 1} ELSE {}
      <3>1. /\ votingRoundData'[j] \in KnownFor(j) \cup {NoData} \cup new
            /\ commit'[j] \in KnownFor(j) \cup {NoData} \cup new
            /\ reveal'[j] \in KnownFor(j) \cup {NoData} \cup new
        BY <1>a, <2>3
      <3>2. ASSUME NEW d \in Calls, IsActive(d)', call'[d].key = j
            PROVE  call'[d].data \in KnownFor(j) \cup {NoData} \cup new
        <4>1. CASE d = c
          BY <4>1, <2>2, <3>2
        <4>2. CASE d # c
          <5>1. call'[d] = call[d] /\ IsActive(d)
            BY <4>2, <2>2, <3>2 DEF IsActive
          <5> QED BY <1>b, <3>2, <5>1
        <4> QED BY <4>1, <4>2
      <3> HIDE DEF new
      <3>3. KnownFor(j)' \subseteq KnownFor(j) \cup new
        BY <3>1, <3>2, KnownKept
      <3> QED BY <3>3 DEF new
    <2> QED BY <1>0, <2>1, <2>3, <2>4, StayApart
  <1>6. ASSUME NEW c \in Calls, CommitReply(c)
        PROVE  RInv'
    <2>1. IsActive(c) /\ call[c].key \in Keys
      BY <1>0, <1>6, ActiveCall DEF CommitReply
    <2>2. ~IsActive(c)' /\ \A d \in Calls : d # c => call'[d] = call[d]
      BY <1>0, <1>6, DoneEffect DEF CommitReply, IsActive
    <2>3. /\ UNCHANGED <<votingRoundData, reveal, drawn>>
          /\ commit' = [commit EXCEPT ![call[c].key] = call[c].data] \/ UNCHANGED commit
      BY <1>6 DEF CommitReply, cache
    <2>4. \A j \in Keys : commit'[j] \in KnownFor(j) \cup {NoData}
      BY <1>0, <1>a, <1>b, <2>1, <2>3 DEF TypeOK
    <2> QED BY <1>0, <1>a, <2>2, <2>3, <2>4, NothingLearnt
  <1>7. ASSUME NEW c \in Calls, RevealReply(c)
        PROVE  RInv'
    <2>1. IsActive(c) /\ call[c].key \in Keys
      BY <1>0, <1>7, ActiveCall DEF RevealReply
    <2>2. ~IsActive(c)' /\ \A d \in Calls : d # c => call'[d] = call[d]
      BY <1>0, <1>7, DoneEffect DEF RevealReply, IsActive
    <2>3. /\ UNCHANGED <<votingRoundData, commit, drawn>>
          /\ reveal' = [reveal EXCEPT ![call[c].key] = call[c].data] \/ UNCHANGED reveal
      BY <1>7 DEF RevealReply, cache
    <2>4. \A j \in Keys : reveal'[j] \in KnownFor(j) \cup {NoData}
      BY <1>0, <1>a, <1>b, <2>1, <2>3 DEF TypeOK
    <2> QED BY <1>0, <1>a, <2>2, <2>3, <2>4, NothingLearnt
  <1>8. ASSUME NEW c \in Calls, Submit1Fails(c)
        PROVE  RInv'
    <2>1. ~IsActive(c)' /\ \A d \in Calls : d # c => call'[d] = call[d]
      BY <1>0, <1>8, DoneEffect DEF Submit1Fails, IsActive
    <2>2. UNCHANGED <<votingRoundData, commit, reveal, drawn>>
      BY <1>8 DEF Submit1Fails, cache, client
    <2> QED BY <1>0, <1>a, <2>1, <2>2, NothingLearnt
  <1>9. ASSUME NEW c \in Calls, ClientTimeout(c)
        PROVE  RInv'
    <2>1. /\ call[c] \in Active /\ IsActive(c)
      BY <1>0, <1>9, ActiveCall DEF ClientTimeout
    <2>2. /\ call'[c].key = call[c].key /\ call'[c].data = call[c].data
          /\ \A d \in Calls : d # c => call'[d] = call[d]
      BY <1>0, <1>9, <2>1 DEF ClientTimeout, TypeOK, Active
    <2>3. UNCHANGED <<votingRoundData, commit, reveal, drawn>>
      BY <1>9 DEF ClientTimeout, cache, client
    <2> QED BY <1>0, <1>a, <1>b, <2>1, <2>2, <2>3, NothingLearnt
  <1>10. CASE Restart
    <2>1. /\ \A c \in Calls : ~IsActive(c)'
          /\ \A k \in Keys : votingRoundData'[k] = NoData
          /\ UNCHANGED <<commit, reveal, drawn>>
      BY <1>10 DEF Restart, IsActive, Idle
    <2>2. ASSUME NEW k \in Keys PROVE KnownFor(k)' \subseteq KnownFor(k)
      <3>1. KnownFor(k)' \subseteq KnownFor(k) \cup {}
        BY <1>a, <2>1, KnownKept
      <3> QED BY <3>1
    <2> QED BY <1>0, <2>1, <2>2, StayApart
  <1>11. CASE UNCHANGED <<votingRoundData, call, commit, reveal, drawn>>
    BY <1>0, <1>11 DEF RInv, RandomsApart, KnownDrawn, KnownFor, IsActive
  <1>12. BeginShutdown \/ Drained \/ NewRound \/ UNCHANGED vars
            => UNCHANGED <<votingRoundData, call, commit, reveal, drawn>>
    BY DEF BeginShutdown, Drained, NewRound, vars, cache, client
  <1> QED BY <1>1, <1>2, <1>3, <1>4, <1>5, <1>6, <1>7, <1>8, <1>9, <1>10, <1>11, <1>12
         DEF Next, Handler

\* No two rounds or addresses ever have a random in common, whatever requests overlap, time
\* out or are repeated, and with a cache of any size.
THEOREM RandomsStayApart == Spec => []OwnRandoms
  <1>1. Init => RInv
    <2> SUFFICES ASSUME Init PROVE RInv
      OBVIOUS
    <2>1. \A k \in Keys : KnownFor(k) = {}
      BY DEF Init, KnownFor, IsActive, Idle
    <2>2. RandomsApart /\ KnownDrawn
      BY <2>1 DEF RandomsApart, KnownDrawn
    <2> QED BY <2>2, InitTypeOK DEF RInv
  <1>2. RInv => OwnRandoms
    BY DEF RInv, OwnRandoms
  <1> QED BY <1>1, <1>2, NextRInv, PTL DEF Spec
=============================================================================
