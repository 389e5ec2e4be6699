---------------------- MODULE IncrementalRewardsProofs ----------------------
(***************************************************************************)
(* Proofs about IncrementalRewards.tla, for every length of the epoch and  *)
(* every end it may turn out to have, all randoms and any number of starts.*)
(***************************************************************************)
EXTENDS IncrementalRewards, NumberFacts

-----------------------------------------------------------------------------
(* The operators the actions are built from *)

\* What the assumption says of rounds and offers.
LEMMA Constants ==
    /\ StartRound \in Nat \ {0} /\ ExpectedEnd \in Nat \ {0} /\ FutureRounds \in Nat \ {0}
    /\ ExtraRounds \in Nat \ {0} /\ BatchOffset \in Nat \ {0}
    /\ MaxRound \in Nat /\ MaxStarts \in Nat
    /\ StartRound <= ExpectedEnd
    /\ \A end \in RealEnds : end \in Nat /\ ExpectedEnd <= end /\ end <= MaxRound
    /\ \A r : r \in Rounds <=> r \in Nat /\ StartRound <= r /\ r <= MaxRound + ExtraRounds
    /\ 0 \notin Rounds /\ NoOffer \notin Offers
  BY IncrementalRewardsAssumption DEF Rounds, Offers, NoOffer

\* The template offers: of every round up to the end, for all feeds.
LEMMA TemplateOffersMade ==
    ASSUME offers \in [Rounds -> Offers \cup {NoOffer}], NEW end \in Rounds
    PROVE  /\ TemplateOffers(end) \in [Rounds -> Offers \cup {NoOffer}]
           /\ \A r \in Rounds : r <= end =>
                 /\ TemplateOffers(end)[r] \in Offers
                 /\ TemplateOffers(end)[r].end = end /\ TemplateOffers(end)[r].feed = AllFeeds
           /\ \A r \in Rounds : r > end => TemplateOffers(end)[r] = offers[r]
  <1>1. [end |-> end, feed |-> AllFeeds] \in Offers
    BY DEF Offers
  <1>2. \A r \in Rounds : r \in Nat
    BY Constants
  <1> QED BY <1>1, <1>2, Constants DEF TemplateOffers

\* Fixing an offer chooses its feed and leaves its share.
LEMMA OffersFixed ==
    ASSUME NEW off \in [Rounds -> Offers \cup {NoOffer}],
           NEW random \in [Rounds -> Rounds \cup {Unfixed}], NEW from \in Int, NEW to \in Int,
           \A r \in Rounds : r \in from..to => off[r] \in Offers /\ random[r] \in Rounds
    PROVE  /\ FixOffers(off, random, from, to) \in [Rounds -> Offers \cup {NoOffer}]
           /\ \A r \in Rounds :
                 IF r \in from..to
                 THEN /\ FixOffers(off, random, from, to)[r] \in Offers
                      /\ FixOffers(off, random, from, to)[r].end = off[r].end
                      /\ FixOffers(off, random, from, to)[r].feed = random[r]
                 ELSE FixOffers(off, random, from, to)[r] = off[r]
  <1> DEFINE new == FixOffers(off, random, from, to)
  <1>1. ASSUME NEW r \in Rounds, r \in from..to
        PROVE  /\ new[r] \in Offers /\ new[r].end = off[r].end /\ new[r].feed = random[r]
    <2>1. new[r] = [off[r] EXCEPT !.feed = random[r]]
      BY <1>1 DEF FixOffers
    <2>2. off[r] \in [end : Rounds, feed : Rounds \cup {AllFeeds}] /\ random[r] \in Rounds
      BY <1>1 DEF Offers
    <2> HIDE DEF new
    <2> QED BY <2>1, <2>2 DEF Offers
  <1>2. ASSUME NEW r \in Rounds, r \notin from..to
        PROVE  new[r] = off[r]
    BY <1>2 DEF FixOffers
  <1>3. new = [r \in Rounds |-> new[r]]
    BY DEF FixOffers
  <1> HIDE DEF new
  <1>4. new \in [Rounds -> Offers \cup {NoOffer}]
    BY <1>1, <1>2, <1>3
  <1> QED BY <1>1, <1>2, <1>4 DEF new

\* The secure rounds found: the last of them, and the first one after a round.
LEMMA SecuredRounds ==
    ASSUME secure \subseteq Randomized, nextNoSecure \in Rounds, votingRoundId \in Int,
           NEW secured, secured = SecureRounds(nextNoSecure, votingRoundId), secured # {}
    PROVE  /\ Max(secured) \in Rounds /\ Max(secured) > nextNoSecure
           /\ Max(secured) <= votingRoundId
           /\ \A r \in Rounds : nextNoSecure <= r /\ r < Max(secured) =>
                 /\ Min({v \in secured : v > r}) \in Rounds
                 /\ FirstSecureAfter(r, Min({v \in secured : v > r}))
  <1>1. \A v \in secured : /\ v \in Rounds /\ v \in Nat /\ v > nextNoSecure /\ v <= votingRoundId
                           /\ v \in secure
    BY Constants DEF SecureRounds, Randomized
  <1>2. Max(secured) \in secured /\ \A v \in secured : v <= Max(secured)
    <2>1. secured \in SUBSET Nat
      BY <1>1
    <2>2. MaxRound + ExtraRounds \in Nat /\ \A v \in secured : v <= MaxRound + ExtraRounds
      BY <1>1, Constants
    <2> HIDE DEF SecureRounds
    <2> QED BY <2>1, <2>2, MaxOfNaturals
  <1>3. ASSUME NEW r \in Rounds, nextNoSecure <= r, r < Max(secured)
        PROVE  /\ Min({v \in secured : v > r}) \in Rounds
               /\ FirstSecureAfter(r, Min({v \in secured : v > r}))
    <2> DEFINE after == {v \in secured : v > r}
               first == Min(after)
    <2>1. after \in SUBSET Nat /\ after # {}
      BY <1>1, <1>2, <1>3
    <2>2. first \in after /\ \A v \in after : first <= v
      <3> HIDE DEF after
      <3> QED BY <2>1, MinOfNaturals
    <2> HIDE DEF first
    <2>3. /\ first \in Rounds /\ first \in Nat /\ first > r
          /\ first \in secure /\ first <= votingRoundId
      BY <1>1, <2>2
    <2>4. ASSUME NEW w \in (r + 1)..(first - 1), w \in secure
          PROVE  FALSE
      <3>1. w \in secured
        BY <1>3, <2>3, <2>4, Constants DEF SecureRounds
      <3>2. w \in after
        BY <1>3, <2>3, <2>4, <3>1, Constants
      <3> QED BY <2>2, <2>3, <2>4, <3>2
    <2>5. FirstSecureAfter(r, first)
      BY <2>3, <2>4 DEF FirstSecureAfter
    <2> QED BY <2>3, <2>5 DEF first
  <1> QED BY <1>1, <1>2, <1>3

-----------------------------------------------------------------------------
(* The inductive invariant *)

\* The calculation is in its main loop, or catching up.
Active == pc \in {"data", "fix", "claims", "loop", "find"}

\* Begin has destroyed everything.
NothingOnFile ==
    pc = "init" =>
        /\ data = {}
        /\ \A r \in Rounds : offers[r] = NoOffer /\ claims[r] = NoOffer /\ aggregated[r] = NoClaims

\* Catch-up ends before the epoch does and with no random fixed yet; the main
\* loop is at rounds behind the last random.
Position ==
    /\ Active /\ catchingUp =>
          /\ pc \in {"data", "fix", "claims"}
          /\ votingRoundId < endVotingRoundId /\ votingRoundId < MaxRound /\ votingRoundId < realEnd
          /\ endVotingRoundId <= maxVotingRoundIdFolder /\ ~nextRewardEpochIdentified
          /\ pc # "claims" => nextNoSecure = StartRound
          /\ nextNoSecure = StartRound \/ nextNoSecure <= votingRoundId
    /\ Active /\ ~catchingUp =>
          /\ nextNoSecure <= votingRoundId
          /\ pc # "claims" => nextNoSecure < votingRoundId
          /\ votingRoundId <= MaxRound
          /\ pc \in {"fix", "claims"} => votingRoundId < MaxRound

\* The end is the real one once the next epoch is identified, and before that the
\* search for randoms is not over.  Whoever is behind the real end has seen the policy.
EndKnown ==
    /\ nextRewardEpochIdentified => policyIndexed /\ endVotingRoundId = realEnd
    /\ pc = "cleanup" => nextRewardEpochIdentified
    /\ pc = "finish" => endVotingRoundId = realEnd
    /\ Active =>
          /\ ExpectedEnd <= endVotingRoundId
          /\ finalProcessedVotingRoundId = endVotingRoundId + FutureRounds
    /\ Active /\ ~nextRewardEpochIdentified =>
          /\ votingRoundId <= finalProcessedVotingRoundId
          /\ pc \in {"data", "fix", "claims"} => votingRoundId < finalProcessedVotingRoundId
          /\ pc \in {"data", "loop"} => votingRoundId <= realEnd
          /\ pc \in {"fix", "claims"} /\ votingRoundId >= realEnd => policyIndexed
          /\ pc = "find" /\ votingRoundId > realEnd => policyIndexed

\* Every folder is counted.
Folders ==
    /\ \A r \in Rounds : r > maxVotingRoundIdFolder =>
          /\ r \notin data /\ offers[r] = NoOffer
          /\ claims[r] = NoOffer /\ aggregated[r] = NoClaims
    /\ Active /\ ~nextRewardEpochIdentified =>
          maxVotingRoundIdFolder <= finalProcessedVotingRoundId

\* The rounds behind nextVotingRoundIdWithNoSecureRandom have the right random,
\* and offers for the feed it selects.
Fixing ==
    Active => \A r \in Rounds : r < nextNoSecure =>
        /\ FirstSecureAfter(r, fixed[r])
        /\ offers[r] # NoOffer /\ offers[r].feed = fixed[r]

\* The rounds behind nextVotingRoundForClaimCalculation, and no others, have claims.
ClaimsSoFar ==
    Active \/ pc = "cleanup" =>
        /\ nextClaim <= nextNoSecure
        /\ \A r \in Rounds : /\ r < nextClaim <=> aggregated[r] # NoClaims
                             /\ r < nextClaim <=> claims[r] # NoOffer

\* The claims up to a round.
ClaimsUpTo(r) == [i \in 1..(r - StartRound + 1) |-> claims[StartRound + i - 1]]

\* Aggregates are of claims that are on file.
AggregatesSound ==
    \A r \in Rounds : aggregated[r] # NoClaims =>
        /\ aggregated[r] = ClaimsUpTo(r)
        /\ \A q \in StartRound..r : claims[q] # NoOffer

\* All shares are for one length of the epoch.
SharesOfOneLength ==
    realEnd < ExpectedEnd + FutureRounds =>
        \E end \in {ExpectedEnd, realEnd} : \A r \in Rounds :
            /\ offers[r] # NoOffer => r <= end /\ offers[r].end = end
            /\ claims[r] # NoOffer => r <= end /\ claims[r].end = end

\* The status is the last to be set.
NotDone == Active \/ pc \in {"init", "cleanup"} => status # "DONE"

\* What holds in every state and is preserved by every step.
IncInv ==
    /\ TypeOK /\ NothingOnFile /\ Position /\ EndKnown /\ Folders /\ Fixing
    /\ ClaimsSoFar /\ AggregatesSound /\ SharesOfOneLength /\ NotDone
    /\ EndsAgree /\ NoRoundsLeftOver /\ ClaimsForSelectedFeed /\ FinalClaimsShareOffers

\* What the parts about the files are about.
files == <<data, fixed, offers, claims, aggregated, status, finalClaims>>

\* The numbers of a state.
LEMMA Numbers ==
    ASSUME IncInv
    PROVE  /\ now \in Nat /\ StartRound <= now /\ now <= MaxRound
           /\ realEnd \in Nat /\ ExpectedEnd <= realEnd /\ realEnd <= MaxRound
           /\ realEnd \in Rounds /\ ExpectedEnd \in Rounds
           /\ votingRoundId \in Int /\ endVotingRoundId \in Nat
           /\ finalProcessedVotingRoundId \in Nat /\ maxVotingRoundIdFolder \in Nat
           /\ nextNoSecure \in Rounds /\ nextNoSecure \in Nat /\ StartRound <= nextNoSecure
           /\ nextClaim \in Rounds /\ nextClaim \in Nat /\ StartRound <= nextClaim
  <1>1. /\ now \in StartRound..MaxRound /\ realEnd \in RealEnds /\ votingRoundId \in Int
        /\ endVotingRoundId \in Nat /\ finalProcessedVotingRoundId \in Nat
        /\ maxVotingRoundIdFolder \in Nat /\ nextNoSecure \in Rounds /\ nextClaim \in Rounds
    BY DEF IncInv, TypeOK
  <1>2. realEnd \in Nat /\ ExpectedEnd <= realEnd /\ realEnd <= MaxRound
    BY <1>1, Constants
  <1> QED BY <1>1, <1>2, Constants

\* The parts that are about the files alone.
LEMMA FilesAlone ==
    ASSUME IncInv, UNCHANGED <<secure, realEnd>>, UNCHANGED files
    PROVE  /\ AggregatesSound' /\ SharesOfOneLength' /\ NoRoundsLeftOver'
           /\ ClaimsForSelectedFeed' /\ FinalClaimsShareOffers'
  BY DEF IncInv, AggregatesSound, ClaimsUpTo, SharesOfOneLength, NoRoundsLeftOver,
         ClaimsForSelectedFeed, FirstSecureAfter, FinalClaimsShareOffers, files

-----------------------------------------------------------------------------
(* The environment, kills and starts *)

\* Time and the indexer only add to what is known.
LEMMA EnvironmentStep ==
    ASSUME IncInv, Environment
    PROVE  IncInv'
  <1>1. /\ UNCHANGED <<secure, realEnd>>
        /\ UNCHANGED <<pc, failure, starts, catchingUp, votingRoundId, endVotingRoundId,
                       finalProcessedVotingRoundId, nextRewardEpochIdentified,
                       maxVotingRoundIdFolder, nextVotingRoundIdWithNoSecureRandom,
                       nextVotingRoundForClaimCalculation>>
        /\ UNCHANGED files
        /\ policyIndexed => policyIndexed'
        /\ policyIndexed' \in BOOLEAN /\ nextStarted' \in BOOLEAN
        /\ now' \in StartRound..MaxRound
    <2>1. CASE NewRound
      <3>1. now' \in StartRound..MaxRound
        BY <2>1, Numbers, Constants DEF NewRound
      <3>2. UNCHANGED <<secure, realEnd, policyIndexed, nextStarted>>
        BY <2>1 DEF NewRound
      <3> QED BY <3>1, <3>2 DEF Environment, IncInv, TypeOK, ends, next, results, outcome, files
    <2>2. CASE IndexPolicy
      BY <2>2, Constants
      DEF Environment, IndexPolicy, IncInv, TypeOK, ends, next, results, outcome, files
    <2>3. CASE IndexNextStart
      BY <2>3, Constants
      DEF Environment, IndexNextStart, IncInv, TypeOK, ends, next, results, outcome, files
    <2> QED BY <2>1, <2>2, <2>3 DEF Environment
  <1>2. TypeOK'
    BY <1>1 DEF IncInv, TypeOK, nextNoSecure, nextClaim, files
  <1>3. NothingOnFile' /\ Position' /\ EndKnown'
    BY <1>1 DEF IncInv, NothingOnFile, Position, EndKnown, Active, nextNoSecure, files
  <1>4. Folders' /\ Fixing'
    BY <1>1 DEF IncInv, Folders, Fixing, FirstSecureAfter, Active, nextNoSecure, files
  <1>5. ClaimsSoFar' /\ AggregatesSound' /\ SharesOfOneLength' /\ NotDone'
    BY <1>1 DEF IncInv, ClaimsSoFar, AggregatesSound, ClaimsUpTo, SharesOfOneLength, NotDone,
                Active, nextNoSecure, nextClaim, files
  <1>6. EndsAgree' /\ NoRoundsLeftOver' /\ ClaimsForSelectedFeed' /\ FinalClaimsShareOffers'
    BY <1>1 DEF IncInv, EndsAgree, NoRoundsLeftOver, ClaimsForSelectedFeed, FirstSecureAfter,
                FinalClaimsShareOffers, files
  <1> QED BY <1>2, <1>3, <1>4, <1>5, <1>6 DEF IncInv

\* A kill leaves the files.
LEMMA KillStep ==
    ASSUME IncInv, Kill
    PROVE  IncInv'
  <1>1. /\ pc \notin {"off", "failed", "next"} /\ pc' = "off"
        /\ UNCHANGED <<now, secure, realEnd, policyIndexed, nextStarted>>
        /\ UNCHANGED <<failure, starts, catchingUp, votingRoundId, endVotingRoundId,
                       finalProcessedVotingRoundId, nextRewardEpochIdentified,
                       maxVotingRoundIdFolder, nextVotingRoundIdWithNoSecureRandom,
                       nextVotingRoundForClaimCalculation>>
        /\ UNCHANGED files
    BY DEF Kill, chain, ends, next, results, outcome, files
  <1>2. TypeOK'
    BY <1>1 DEF IncInv, TypeOK, nextNoSecure, nextClaim, files
  <1>3. NothingOnFile' /\ Position' /\ EndKnown' /\ Fixing' /\ ClaimsSoFar' /\ NotDone'
    BY <1>1 DEF IncInv, NothingOnFile, Position, EndKnown, Fixing, ClaimsSoFar, NotDone, Active
  <1>4. Folders' /\ EndsAgree'
    BY <1>1 DEF IncInv, Folders, Active, EndsAgree, files
  <1> QED BY <1>1, <1>2, <1>3, <1>4, FilesAlone DEF IncInv

\* The epoch is left as it is when the next one is turned to.
LEMMA TurnToNextEpochStep ==
    ASSUME IncInv, TurnToNextEpoch
    PROVE  IncInv'
  <1>1. /\ pc \notin {"init"} /\ pc' = "next"
        /\ UNCHANGED <<now, secure, realEnd, policyIndexed, nextStarted>>
        /\ UNCHANGED <<failure, starts, catchingUp, votingRoundId, endVotingRoundId,
                       finalProcessedVotingRoundId, nextRewardEpochIdentified,
                       maxVotingRoundIdFolder, nextVotingRoundIdWithNoSecureRandom,
                       nextVotingRoundForClaimCalculation>>
        /\ UNCHANGED files
    BY DEF TurnToNextEpoch, chain, ends, next, results, outcome, files
  <1>2. TypeOK'
    BY <1>1 DEF IncInv, TypeOK, nextNoSecure, nextClaim, files
  <1>3. NothingOnFile' /\ Position' /\ EndKnown' /\ Fixing' /\ ClaimsSoFar' /\ NotDone'
    BY <1>1 DEF IncInv, NothingOnFile, Position, EndKnown, Fixing, ClaimsSoFar, NotDone, Active
  <1>4. Folders' /\ EndsAgree'
    BY <1>1 DEF IncInv, Folders, Active, EndsAgree, files
  <1> QED BY <1>1, <1>2, <1>3, <1>4, FilesAlone DEF IncInv

\* Everything is destroyed when the calculation begins.
LEMMA BeginStep ==
    ASSUME IncInv, Begin
    PROVE  IncInv'
  <1>1. /\ pc' = "init" /\ failure' = "none" /\ starts' = starts + 1 /\ starts < MaxStarts
        /\ data' = {} /\ fixed' = [r \in Rounds |-> Unfixed]
        /\ offers' = [r \in Rounds |-> NoOffer] /\ claims' = [r \in Rounds |-> NoOffer]
        /\ aggregated' = [r \in Rounds |-> NoClaims]
        /\ status' = "none" /\ finalClaims' = NoClaims
        /\ UNCHANGED <<now, secure, realEnd, policyIndexed, nextStarted>>
        /\ UNCHANGED <<catchingUp, votingRoundId, endVotingRoundId,
                       finalProcessedVotingRoundId, nextRewardEpochIdentified,
                       maxVotingRoundIdFolder, nextVotingRoundIdWithNoSecureRandom,
                       nextVotingRoundForClaimCalculation>>
    BY DEF Begin, chain, ends, next
  <1>2. TypeOK'
    <2>1. starts' \in 0..MaxStarts
      <3>1. starts \in 0..MaxStarts
        BY DEF IncInv, TypeOK
      <3> QED BY <1>1, <3>1, Constants
    <2>2. /\ data' \subseteq Rounds /\ fixed' \in [Rounds -> Rounds \cup {Unfixed}]
          /\ offers' \in [Rounds -> Offers \cup {NoOffer}]
          /\ claims' \in [Rounds -> Offers \cup {NoOffer}]
          /\ aggregated' \in [Rounds -> Seq(Offers)] /\ finalClaims' \in Seq(Offers)
      BY <1>1 DEF NoClaims
    <2> QED BY <1>1, <2>1, <2>2 DEF IncInv, TypeOK, nextNoSecure, nextClaim
  <1>3. NothingOnFile' /\ Position' /\ Fixing' /\ ClaimsSoFar' /\ NotDone'
    BY <1>1 DEF NothingOnFile, Position, Fixing, ClaimsSoFar, NotDone, Active
  <1>4. EndKnown' /\ Folders'
    BY <1>1 DEF IncInv, EndKnown, Folders, Active
  <1>5. AggregatesSound' /\ SharesOfOneLength' /\ EndsAgree' /\ NoRoundsLeftOver'
    BY <1>1 DEF AggregatesSound, SharesOfOneLength, EndsAgree, NoRoundsLeftOver
  <1>6. ClaimsForSelectedFeed' /\ FinalClaimsShareOffers'
    BY <1>1 DEF ClaimsForSelectedFeed, FinalClaimsShareOffers
  <1> QED BY <1>2, <1>3, <1>4, <1>5, <1>6 DEF IncInv

\* Template offers are made for the duration as far as it is known, and catch-up
\* is for rounds before its end.
LEMMA InitializeStep ==
    ASSUME IncInv, Initialize
    PROVE  IncInv'
  <1> DEFINE end == DurationEnd
  <1>1. /\ pc = "init" /\ pc' = "data" /\ catchingUp' = TRUE /\ status' = "IN_PROGRESS"
        /\ offers' = TemplateOffers(end)
        /\ votingRoundId' = Earlier(now, end) - BatchOffset
        /\ endVotingRoundId' = end /\ finalProcessedVotingRoundId' = end + FutureRounds
        /\ nextRewardEpochIdentified' = FALSE /\ maxVotingRoundIdFolder' = end
        /\ nextVotingRoundIdWithNoSecureRandom' = StartRound
        /\ nextVotingRoundForClaimCalculation' = StartRound
        /\ UNCHANGED <<now, secure, realEnd, policyIndexed, nextStarted>>
        /\ UNCHANGED <<failure, starts, data, fixed, claims, aggregated, finalClaims>>
    BY DEF Initialize, chain, results
  <1>2. /\ end \in {ExpectedEnd, realEnd}
        /\ end \in Rounds /\ end \in Nat /\ ExpectedEnd <= end /\ end <= realEnd
    BY Numbers, Constants DEF DurationEnd
  <1> HIDE DEF end
  <1>3. /\ votingRoundId' \in Int /\ votingRoundId' < end /\ votingRoundId' < MaxRound
        /\ votingRoundId' < realEnd
    BY <1>1, <1>2, Numbers, Constants DEF Earlier
  <1>4. /\ data = {}
        /\ \A r \in Rounds : offers[r] = NoOffer /\ claims[r] = NoOffer /\ aggregated[r] = NoClaims
    BY <1>1 DEF IncInv, NothingOnFile
  <1>5. /\ offers' \in [Rounds -> Offers \cup {NoOffer}]
        /\ \A r \in Rounds : r <= end => offers'[r] \in Offers /\ offers'[r].end = end
        /\ \A r \in Rounds : r > end => offers'[r] = NoOffer
    BY <1>1, <1>2, <1>4, TemplateOffersMade DEF IncInv, TypeOK
  <1>6. TypeOK'
    <2>1. catchingUp' \in BOOLEAN /\ nextRewardEpochIdentified' \in BOOLEAN
      BY <1>1
    <2>2. nextNoSecure' \in Rounds /\ nextClaim' \in Rounds
      BY <1>1, Numbers, Constants DEF nextNoSecure, nextClaim
    <2>3. /\ endVotingRoundId' \in Nat /\ finalProcessedVotingRoundId' \in Nat
          /\ maxVotingRoundIdFolder' \in Nat
      BY <1>1, <1>2, Constants
    <2> QED BY <1>1, <1>3, <1>5, <2>1, <2>2, <2>3 DEF IncInv, TypeOK
  <1>7. NothingOnFile' /\ NotDone'
    BY <1>1 DEF NothingOnFile, NotDone
  <1>8. Position'
    BY <1>1, <1>2, <1>3 DEF Position, nextNoSecure
  <1>9. EndKnown'
    BY <1>1, <1>2, <1>3, Numbers, Constants DEF EndKnown
  <1>10. Folders'
    BY <1>1, <1>2, <1>4, <1>5, Constants DEF Folders
  <1>11. Fixing' /\ ClaimsSoFar'
    BY <1>1, <1>4, Constants DEF Fixing, ClaimsSoFar, nextNoSecure, nextClaim
  <1>12. SharesOfOneLength'
    <2>1. \A r \in Rounds : /\ offers'[r] # NoOffer => r <= end /\ offers'[r].end = end
                            /\ claims'[r] = NoOffer
      BY <1>1, <1>2, <1>4, <1>5, Constants
    <2> QED BY <1>1, <1>2, <2>1 DEF SharesOfOneLength
  <1>13. AggregatesSound' /\ EndsAgree' /\ NoRoundsLeftOver'
    BY <1>1, <1>4 DEF IncInv, AggregatesSound, EndsAgree, NoRoundsLeftOver
  <1>14. ClaimsForSelectedFeed' /\ FinalClaimsShareOffers'
    BY <1>1, <1>4 DEF IncInv, ClaimsForSelectedFeed, FinalClaimsShareOffers
  <1> QED BY <1>6, <1>7, <1>8, <1>9, <1>10, <1>11, <1>12, <1>13, <1>14 DEF IncInv

-----------------------------------------------------------------------------
(* The main loop *)

\* Catch-up data are of rounds before the end.
LEMMA CatchUpDataStep ==
    ASSUME IncInv, CatchUpData
    PROVE  IncInv'
  <1>1. /\ pc = "data" /\ catchingUp /\ pc' = "fix" /\ data' = StartRound..votingRoundId
        /\ UNCHANGED <<now, secure, realEnd, policyIndexed, nextStarted>>
        /\ UNCHANGED <<failure, starts, catchingUp, votingRoundId, endVotingRoundId,
                       finalProcessedVotingRoundId, nextRewardEpochIdentified,
                       maxVotingRoundIdFolder, nextVotingRoundIdWithNoSecureRandom,
                       nextVotingRoundForClaimCalculation>>
        /\ UNCHANGED <<fixed, offers, claims, aggregated, status, finalClaims>>
    BY DEF CatchUpData, chain, ends, next, results, outcome
  <1>2. /\ votingRoundId < endVotingRoundId /\ votingRoundId < MaxRound /\ votingRoundId < realEnd
        /\ endVotingRoundId <= maxVotingRoundIdFolder /\ nextNoSecure = StartRound
    BY <1>1 DEF IncInv, Position, Active
  <1>3. data' \subseteq Rounds /\ \A r \in data' : r <= maxVotingRoundIdFolder
    BY <1>1, <1>2, Numbers, Constants
  <1>4. TypeOK'
    BY <1>1, <1>3 DEF IncInv, TypeOK, nextNoSecure, nextClaim
  <1>5. NothingOnFile' /\ Position' /\ ClaimsSoFar' /\ NotDone'
    BY <1>1, <1>2 DEF IncInv, NothingOnFile, Position, ClaimsSoFar, NotDone, Active,
                      nextNoSecure, nextClaim
  <1>6. Fixing'
    BY <1>1 DEF IncInv, Fixing, FirstSecureAfter, Active, nextNoSecure
  <1>7. EndKnown'
    BY <1>1, <1>2, Numbers DEF IncInv, EndKnown, Active
  <1>8. Folders'
    BY <1>1, <1>3, Numbers, Constants DEF IncInv, Folders, Active
  <1>9. EndsAgree' /\ NoRoundsLeftOver' /\ AggregatesSound'
    BY <1>1 DEF IncInv, EndsAgree, NoRoundsLeftOver, NotDone, Active, AggregatesSound, ClaimsUpTo
  <1>10. SharesOfOneLength' /\ ClaimsForSelectedFeed' /\ FinalClaimsShareOffers'
    BY <1>1 DEF IncInv, SharesOfOneLength, ClaimsForSelectedFeed, FirstSecureAfter,
                FinalClaimsShareOffers
  <1> QED BY <1>4, <1>5, <1>6, <1>7, <1>8, <1>9, <1>10 DEF IncInv

\* The offers of an extension keep the feeds of the rounds that have a random; it
\* takes place behind every folder, and behind an end that was not expected.
LEMMA ExtendStep ==
    ASSUME IncInv, ExtendRewardEpochDuration
    PROVE  IncInv'
  <1> DEFINE newEnd == votingRoundId + ExtraRounds
             template == TemplateOffers(newEnd)
  <1>1. /\ pc = "loop" /\ pc' = "data"
        /\ votingRoundId = finalProcessedVotingRoundId /\ ~nextRewardEpochIdentified
        /\ endVotingRoundId' = newEnd /\ finalProcessedVotingRoundId' = newEnd + FutureRounds
        /\ maxVotingRoundIdFolder' = newEnd
        /\ offers' = FixOffers(template, fixed, StartRound, nextNoSecure - 1)
        /\ UNCHANGED <<now, secure, realEnd, policyIndexed, nextStarted>>
        /\ UNCHANGED <<failure, starts, catchingUp, votingRoundId, nextRewardEpochIdentified,
                       nextVotingRoundIdWithNoSecureRandom, nextVotingRoundForClaimCalculation>>
        /\ UNCHANGED <<data, fixed, claims, aggregated, status, finalClaims>>
    BY DEF ExtendRewardEpochDuration, SearchedInVain, chain, next, results, outcome
  <1>2. /\ ~catchingUp /\ nextNoSecure < votingRoundId /\ votingRoundId <= MaxRound
        /\ votingRoundId <= realEnd /\ maxVotingRoundIdFolder <= finalProcessedVotingRoundId
        /\ ExpectedEnd <= endVotingRoundId
        /\ finalProcessedVotingRoundId = endVotingRoundId + FutureRounds
    BY <1>1 DEF IncInv, Position, EndKnown, Folders, Active
  <1>3. /\ newEnd \in Rounds /\ newEnd \in Nat /\ newEnd > votingRoundId
        /\ newEnd > maxVotingRoundIdFolder /\ nextNoSecure < newEnd /\ ExpectedEnd <= newEnd
        /\ ~(realEnd < ExpectedEnd + FutureRounds)
    BY <1>1, <1>2, Numbers, Constants
  <1>4. /\ template \in [Rounds -> Offers \cup {NoOffer}]
        /\ \A r \in Rounds : r <= newEnd => template[r] \in Offers
        /\ \A r \in Rounds : r > newEnd => template[r] = NoOffer
    <2>1. \A r \in Rounds : r > newEnd => offers[r] = NoOffer
      BY <1>3, Numbers, Constants DEF IncInv, Folders
    <2> HIDE DEF newEnd
    <2> QED BY <1>3, <2>1, TemplateOffersMade DEF IncInv, TypeOK
  <1>5. \A r \in Rounds : r \in StartRound..(nextNoSecure - 1) <=> r < nextNoSecure
    BY Numbers, Constants
  <1>6. \A r \in Rounds : r < nextNoSecure =>
            r <= newEnd /\ fixed[r] \in Rounds /\ FirstSecureAfter(r, fixed[r])
    <2>1. ASSUME NEW r \in Rounds, r < nextNoSecure
          PROVE  r <= newEnd /\ fixed[r] \in Rounds /\ FirstSecureAfter(r, fixed[r])
      <3>1. FirstSecureAfter(r, fixed[r]) /\ fixed[r] \in Rounds \cup {Unfixed}
        BY <1>1, <2>1 DEF IncInv, TypeOK, Fixing, Active
      <3>2. fixed[r] # Unfixed
        BY <3>1, Constants DEF FirstSecureAfter, Unfixed
      <3> QED BY <1>3, <2>1, <3>1, <3>2, Numbers, Constants
    <2> QED BY <2>1
  <1>7. fixed \in [Rounds -> Rounds \cup {Unfixed}]
    BY DEF IncInv, TypeOK
  <1>8. /\ offers' \in [Rounds -> Offers \cup {NoOffer}]
        /\ \A r \in Rounds : r < nextNoSecure => offers'[r] \in Offers /\ offers'[r].feed = fixed[r]
        /\ \A r \in Rounds : r > newEnd => offers'[r] = NoOffer
    <2> HIDE DEF template, newEnd
    <2>1. \A r \in Rounds : r \in StartRound..(nextNoSecure - 1) =>
              template[r] \in Offers /\ fixed[r] \in Rounds
      BY <1>4, <1>5, <1>6
    <2>2. StartRound \in Int /\ nextNoSecure - 1 \in Int
      BY Numbers, Constants
    <2>3. /\ offers' \in [Rounds -> Offers \cup {NoOffer}]
          /\ \A r \in Rounds :
                IF r \in StartRound..(nextNoSecure - 1)
                THEN offers'[r] \in Offers /\ offers'[r].feed = fixed[r]
                ELSE offers'[r] = template[r]
      BY <1>1, <1>4, <1>7, <2>1, <2>2, OffersFixed
    <2>4. \A r \in Rounds : r > newEnd => ~(r < nextNoSecure)
      BY <1>3, Numbers, Constants
    <2> QED BY <1>4, <1>5, <2>3, <2>4
  <1> HIDE DEF newEnd, template
  <1>9. TypeOK'
    <2>1. /\ endVotingRoundId' \in Nat /\ finalProcessedVotingRoundId' \in Nat
          /\ maxVotingRoundIdFolder' \in Nat
      BY <1>1, <1>3, Constants
    <2> QED BY <1>1, <1>8, <2>1 DEF IncInv, TypeOK, nextNoSecure, nextClaim
  <1>10. NothingOnFile' /\ Position' /\ ClaimsSoFar' /\ NotDone'
    BY <1>1, <1>2 DEF IncInv, NothingOnFile, Position, ClaimsSoFar, NotDone, Active,
                      nextNoSecure, nextClaim
  <1>11. EndKnown'
    BY <1>1, <1>2, <1>3, Numbers, Constants DEF IncInv, EndKnown
  <1>12. Folders'
    BY <1>1, <1>3, <1>8, Numbers, Constants DEF IncInv, Folders
  <1>13. Fixing'
    BY <1>1, <1>6, <1>8, Constants DEF Fixing, FirstSecureAfter, nextNoSecure
  <1>14. EndsAgree' /\ NoRoundsLeftOver' /\ AggregatesSound'
    BY <1>1 DEF IncInv, EndsAgree, NoRoundsLeftOver, NotDone, Active, AggregatesSound, ClaimsUpTo
  <1>15. SharesOfOneLength' /\ ClaimsForSelectedFeed' /\ FinalClaimsShareOffers'
    BY <1>1, <1>3 DEF IncInv, SharesOfOneLength, ClaimsForSelectedFeed, FirstSecureAfter,
                      FinalClaimsShareOffers
  <1> QED BY <1>9, <1>10, <1>11, <1>12, <1>13, <1>14, <1>15 DEF IncInv

\* The next round is entered only within the search for randoms.
LEMMA EnterRoundStep ==
    ASSUME IncInv, EnterRound
    PROVE  IncInv'
  <1>1. /\ pc = "loop" /\ pc' = "data" /\ votingRoundId <= finalProcessedVotingRoundId
        /\ ~(votingRoundId = finalProcessedVotingRoundId /\ ~nextRewardEpochIdentified)
        /\ UNCHANGED <<now, secure, realEnd, policyIndexed, nextStarted>>
        /\ UNCHANGED <<failure, starts, catchingUp, votingRoundId, endVotingRoundId,
                       finalProcessedVotingRoundId, nextRewardEpochIdentified,
                       maxVotingRoundIdFolder, nextVotingRoundIdWithNoSecureRandom,
                       nextVotingRoundForClaimCalculation>>
        /\ UNCHANGED files
    BY DEF EnterRound, SearchedInVain, chain, ends, next, results, outcome, files
  <1>2. TypeOK'
    BY <1>1 DEF IncInv, TypeOK, nextNoSecure, nextClaim, files
  <1>3. NothingOnFile' /\ Position' /\ NotDone' /\ Fixing' /\ ClaimsSoFar'
    BY <1>1 DEF IncInv, NothingOnFile, Position, Fixing, FirstSecureAfter, ClaimsSoFar, NotDone,
                Active, nextNoSecure, nextClaim, files
  <1>4. EndKnown'
    BY <1>1, Numbers DEF IncInv, EndKnown, Active
  <1>5. Folders' /\ EndsAgree'
    BY <1>1 DEF IncInv, Folders, Active, EndsAgree, files
  <1> QED BY <1>1, <1>2, <1>3, <1>4, <1>5, FilesAlone DEF IncInv

\* The loop is left once the next epoch is known.
LEMMA LeaveLoopStep ==
    ASSUME IncInv, LeaveLoop
    PROVE  IncInv'
  <1>1. /\ pc = "loop" /\ pc' = "cleanup" /\ votingRoundId > finalProcessedVotingRoundId
        /\ UNCHANGED <<now, secure, realEnd, policyIndexed, nextStarted>>
        /\ UNCHANGED <<failure, starts, catchingUp, votingRoundId, endVotingRoundId,
                       finalProcessedVotingRoundId, nextRewardEpochIdentified,
                       maxVotingRoundIdFolder, nextVotingRoundIdWithNoSecureRandom,
                       nextVotingRoundForClaimCalculation>>
        /\ UNCHANGED files
    BY DEF LeaveLoop, chain, ends, next, results, outcome, files
  <1>2. nextRewardEpochIdentified
    BY <1>1, Numbers DEF IncInv, EndKnown, Active
  <1>3. TypeOK'
    BY <1>1 DEF IncInv, TypeOK, nextNoSecure, nextClaim, files
  <1>4. NothingOnFile' /\ Position' /\ NotDone' /\ Fixing' /\ ClaimsSoFar'
    BY <1>1 DEF IncInv, NothingOnFile, Position, Fixing, FirstSecureAfter, ClaimsSoFar, NotDone,
                Active, nextNoSecure, nextClaim, files
  <1>5. EndKnown'
    BY <1>1, <1>2 DEF IncInv, EndKnown, Active
  <1>6. Folders' /\ EndsAgree'
    BY <1>1 DEF IncInv, Folders, Active, EndsAgree, files
  <1> QED BY <1>1, <1>3, <1>4, <1>5, <1>6, FilesAlone DEF IncInv

\* The data of a round come after the round ended, and the policy is indexed by then
\* if it was the last one; a random of an earlier round is not overwritten.
LEMMA RoundDataStep ==
    ASSUME IncInv, RoundData
    PROVE  IncInv'
  <1>1. /\ pc = "data" /\ ~catchingUp /\ pc' = "fix" /\ DataReady(votingRoundId)
        /\ data' = data \cup {votingRoundId}
        /\ fixed' = [fixed EXCEPT ![votingRoundId] = Unfixed]
        /\ maxVotingRoundIdFolder' = FolderCounted
        /\ UNCHANGED <<now, secure, realEnd, policyIndexed, nextStarted>>
        /\ UNCHANGED <<failure, starts, catchingUp, votingRoundId, endVotingRoundId,
                       finalProcessedVotingRoundId, nextRewardEpochIdentified,
                       nextVotingRoundIdWithNoSecureRandom, nextVotingRoundForClaimCalculation>>
        /\ UNCHANGED <<offers, claims, aggregated, status, finalClaims>>
    BY DEF RoundData, chain, ends, next, results, outcome
  <1>2. /\ nextNoSecure < votingRoundId /\ now > votingRoundId + 1
        /\ votingRoundId >= realEnd => policyIndexed
    BY <1>1 DEF IncInv, Position, Active, DataReady
  <1>3. votingRoundId \in Rounds /\ votingRoundId \in Nat /\ votingRoundId < MaxRound
    BY <1>2, Numbers, Constants
  <1>4. /\ maxVotingRoundIdFolder' \in Nat
        /\ maxVotingRoundIdFolder <= maxVotingRoundIdFolder'
        /\ votingRoundId <= maxVotingRoundIdFolder'
        /\ maxVotingRoundIdFolder' \in {maxVotingRoundIdFolder, votingRoundId}
    BY <1>1, <1>3, Numbers DEF FolderCounted, Later
  <1>5. /\ fixed' \in [Rounds -> Rounds \cup {Unfixed}]
        /\ \A r \in Rounds : r # votingRoundId => fixed'[r] = fixed[r]
    BY <1>1, <1>3 DEF IncInv, TypeOK
  <1>6. TypeOK'
    BY <1>1, <1>3, <1>4, <1>5 DEF IncInv, TypeOK, nextNoSecure, nextClaim
  <1>7. NothingOnFile' /\ Position' /\ NotDone' /\ ClaimsSoFar'
    BY <1>1, <1>2, <1>3, Numbers DEF IncInv, NothingOnFile, Position, ClaimsSoFar, NotDone, Active,
                                     nextNoSecure, nextClaim
  <1>8. EndKnown'
    BY <1>1, <1>2, Numbers DEF IncInv, EndKnown, Active
  <1>9. Folders'
    <2>1. ASSUME NEW r \in Rounds, r > maxVotingRoundIdFolder'
          PROVE  r > maxVotingRoundIdFolder /\ r # votingRoundId
      BY <1>3, <1>4, <2>1, Numbers, Constants
    <2>2. ~nextRewardEpochIdentified => maxVotingRoundIdFolder' <= finalProcessedVotingRoundId
      BY <1>1, <1>4 DEF IncInv, Folders, EndKnown, Active
    <2> QED BY <1>1, <2>1, <2>2 DEF IncInv, Folders
  <1>10. Fixing'
    <2>1. \A r \in Rounds : r < nextNoSecure => fixed'[r] = fixed[r]
      BY <1>2, <1>3, <1>5, Numbers, Constants
    <2> QED BY <1>1, <2>1 DEF IncInv, Fixing, FirstSecureAfter, Active, nextNoSecure
  <1>11. EndsAgree' /\ NoRoundsLeftOver' /\ AggregatesSound'
    BY <1>1 DEF IncInv, EndsAgree, NoRoundsLeftOver, NotDone, Active, AggregatesSound, ClaimsUpTo
  <1>12. SharesOfOneLength' /\ ClaimsForSelectedFeed' /\ FinalClaimsShareOffers'
    BY <1>1 DEF IncInv, SharesOfOneLength, ClaimsForSelectedFeed, FirstSecureAfter,
                FinalClaimsShareOffers
  <1> QED BY <1>6, <1>7, <1>8, <1>9, <1>10, <1>11, <1>12 DEF IncInv

\* What fixing leaves: the right random for every round up to the last secure one.
LEMMA RandomsFixed ==
    ASSUME IncInv, pc = "fix",
           NEW secured, secured = SecureRounds(nextNoSecure, votingRoundId), secured # {},
           NEW random, random = FixRandomNumbers(secured)
    PROVE  /\ Max(secured) \in Rounds /\ Max(secured) \in Nat
           /\ nextNoSecure < Max(secured) /\ Max(secured) <= votingRoundId
           /\ random \in [Rounds -> Rounds \cup {Unfixed}]
           /\ \A r \in Rounds : r < nextNoSecure => random[r] = fixed[r]
           /\ \A r \in Rounds : r < Max(secured) =>
                 FirstSecureAfter(r, random[r]) /\ random[r] \in Rounds
  <1> DEFINE last == Max(secured)
             first(r) == Min({v \in secured : v > r})
  <1>1. secure \subseteq Randomized /\ fixed \in [Rounds -> Rounds \cup {Unfixed}]
    BY DEF IncInv, TypeOK
  <1>2. /\ last \in Rounds /\ last > nextNoSecure /\ last <= votingRoundId
        /\ \A r \in Rounds : nextNoSecure <= r /\ r < last =>
              first(r) \in Rounds /\ FirstSecureAfter(r, first(r))
    BY <1>1, Numbers, SecuredRounds
  <1>3. random = [r \in Rounds |-> IF nextNoSecure <= r /\ r < last THEN first(r) ELSE fixed[r]]
    BY DEF FixRandomNumbers
  <1> HIDE DEF last, first
  <1>4. random \in [Rounds -> Rounds \cup {Unfixed}]
    BY <1>1, <1>2, <1>3
  <1>5. \A r \in Rounds : r < nextNoSecure => random[r] = fixed[r]
    BY <1>3, Numbers, Constants
  <1>6. ASSUME NEW r \in Rounds, r < last
        PROVE  FirstSecureAfter(r, random[r]) /\ random[r] \in Rounds
    <2>1. CASE nextNoSecure <= r
      BY <1>2, <1>3, <1>6, <2>1
    <2>2. CASE r < nextNoSecure
      <3>1. FirstSecureAfter(r, fixed[r]) /\ random[r] = fixed[r]
        BY <1>5, <2>2 DEF IncInv, Fixing, Active
      <3>2. fixed[r] # Unfixed
        BY <3>1, Constants DEF FirstSecureAfter, Unfixed
      <3> QED BY <1>1, <3>1, <3>2
    <2> QED BY <2>1, <2>2, Numbers, Constants
  <1> QED BY <1>2, <1>4, <1>5, <1>6, Constants DEF last

\* The first secure random after a round is fixed, whether found alone or with others,
\* and with it the feed.
LEMMA FixStep ==
    ASSUME IncInv, FixRandomNumbersAndOffers
    PROVE  IncInv'
  <1> DEFINE secured == SecureRounds(nextNoSecure, votingRoundId)
             random == FixRandomNumbers(secured)
             last == Max(secured)
  <1>1. /\ pc = "fix"
        /\ UNCHANGED <<now, secure, realEnd, policyIndexed, nextStarted>>
        /\ UNCHANGED <<starts, catchingUp, votingRoundId, endVotingRoundId,
                       finalProcessedVotingRoundId, nextRewardEpochIdentified,
                       maxVotingRoundIdFolder, nextVotingRoundForClaimCalculation>>
        /\ UNCHANGED <<data, claims, aggregated, status, finalClaims>>
    BY DEF FixRandomNumbersAndOffers, chain, ends, next, results, outcome
  <1>2. /\ catchingUp => /\ votingRoundId < endVotingRoundId /\ votingRoundId < MaxRound
                         /\ votingRoundId < realEnd /\ endVotingRoundId <= maxVotingRoundIdFolder
                         /\ ~nextRewardEpochIdentified /\ nextNoSecure = StartRound
        /\ ~catchingUp => nextNoSecure < votingRoundId /\ votingRoundId < MaxRound
    BY <1>1 DEF IncInv, Position, Active
  <1>3. ASSUME pc' \in {"claims", "failed"}
        PROVE  /\ NothingOnFile' /\ EndKnown' /\ NotDone'
               /\ NoRoundsLeftOver' /\ AggregatesSound'
               /\ ClaimsForSelectedFeed' /\ FinalClaimsShareOffers'
    <2>1. NothingOnFile' /\ NotDone'
      BY <1>1, <1>3 DEF IncInv, NothingOnFile, NotDone, Active
    <2>2. EndKnown'
      BY <1>1, <1>3 DEF IncInv, EndKnown, Active
    <2>3. NoRoundsLeftOver' /\ AggregatesSound'
      BY <1>1 DEF IncInv, NoRoundsLeftOver, NotDone, Active, AggregatesSound, ClaimsUpTo
    <2>4. ClaimsForSelectedFeed' /\ FinalClaimsShareOffers'
      BY <1>1 DEF IncInv, ClaimsForSelectedFeed, FirstSecureAfter, FinalClaimsShareOffers
    <2> QED BY <2>1, <2>2, <2>3, <2>4
  <1>4. CASE secured = {}
    <2>1. /\ pc' = "claims"
          /\ UNCHANGED <<failure, fixed, offers, nextVotingRoundIdWithNoSecureRandom>>
      BY <1>4 DEF FixRandomNumbersAndOffers, next
    <2>2. TypeOK'
      BY <1>1, <2>1 DEF IncInv, TypeOK, nextNoSecure, nextClaim
    <2>3. Position'
      BY <1>1, <1>2, <2>1, Numbers, Constants DEF Position, nextNoSecure
    <2>4. Folders' /\ Fixing'
      BY <1>1, <2>1 DEF IncInv, Folders, Fixing, FirstSecureAfter, Active, nextNoSecure
    <2>5. ClaimsSoFar' /\ SharesOfOneLength' /\ EndsAgree'
      BY <1>1, <2>1 DEF IncInv, ClaimsSoFar, SharesOfOneLength, EndsAgree, Active,
                        nextNoSecure, nextClaim
    <2> QED BY <1>3, <2>1, <2>2, <2>3, <2>4, <2>5 DEF IncInv
  <1>5. CASE secured # {}
    <2>1. /\ last \in Rounds /\ last \in Nat /\ nextNoSecure < last /\ last <= votingRoundId
          /\ random \in [Rounds -> Rounds \cup {Unfixed}]
          /\ \A r \in Rounds : r < nextNoSecure => random[r] = fixed[r]
          /\ \A r \in Rounds : r < last => FirstSecureAfter(r, random[r]) /\ random[r] \in Rounds
      <3> HIDE DEF random, secured
      <3>1. /\ secured = SecureRounds(nextNoSecure, votingRoundId)
            /\ random = FixRandomNumbers(secured)
        BY DEF secured, random
      <3> QED BY <1>1, <1>5, <3>1, RandomsFixed
    <2>2. /\ fixed' = random /\ nextVotingRoundIdWithNoSecureRandom' = last
      BY <1>5 DEF FixRandomNumbersAndOffers
    <2>3. CASE \A r \in nextNoSecure..(last - 1) : Selectable(r, random[r])
      <3>1. /\ offers' = FixOffers(offers, random, nextNoSecure, last - 1)
            /\ pc' = "claims" /\ UNCHANGED failure
        BY <1>5, <2>3 DEF FixRandomNumbersAndOffers
      <3> HIDE DEF random, secured, last
      <3>2. \A r \in Rounds : r \in nextNoSecure..(last - 1) <=> nextNoSecure <= r /\ r < last
        BY <2>1, Numbers, Constants
      <3>3. \A r \in Rounds : r \in nextNoSecure..(last - 1) =>
                offers[r] \in Offers /\ random[r] \in Rounds
        BY <2>1, <2>3, <3>2 DEF Selectable, IncInv, TypeOK
      <3>4. /\ offers \in [Rounds -> Offers \cup {NoOffer}]
            /\ nextNoSecure \in Int /\ last - 1 \in Int
        <4>1. nextNoSecure \in Int /\ last - 1 \in Int
          BY <2>1, Numbers
        <4> QED BY <4>1 DEF IncInv, TypeOK
      <3>5. /\ offers' \in [Rounds -> Offers \cup {NoOffer}]
            /\ \A r \in Rounds :
                  IF r \in nextNoSecure..(last - 1)
                  THEN /\ offers'[r] \in Offers /\ offers'[r].end = offers[r].end
                       /\ offers'[r].feed = random[r]
                  ELSE offers'[r] = offers[r]
        BY <2>1, <3>1, <3>3, <3>4, OffersFixed
      <3>6. \A r \in Rounds : offers'[r] # NoOffer =>
                offers[r] # NoOffer /\ offers'[r].end = offers[r].end
        BY <3>3, <3>5, Constants
      <3>7. TypeOK'
        BY <1>1, <2>1, <2>2, <3>1, <3>5 DEF IncInv, TypeOK, nextNoSecure, nextClaim
      <3>8. Position'
        BY <1>1, <1>2, <2>1, <2>2, <3>1, Numbers, Constants DEF Position, nextNoSecure
      <3>9. Folders'
        BY <1>1, <3>1, <3>6 DEF IncInv, Folders, Active
      <3>10. Fixing'
        <4>1. ASSUME NEW r \in Rounds, r < last
              PROVE  /\ FirstSecureAfter(r, random[r])
                     /\ offers'[r] # NoOffer /\ offers'[r].feed = random[r]
          <5>1. CASE nextNoSecure <= r
            BY <2>1, <3>2, <3>5, <4>1, <5>1, Constants
          <5>2. CASE r < nextNoSecure
            <6>1. offers[r] # NoOffer /\ offers[r].feed = fixed[r]
              BY <1>1, <5>2 DEF IncInv, Fixing, Active
            <6>2. offers'[r] = offers[r]
              BY <3>2, <3>5, <5>2, Numbers, Constants
            <6> QED BY <2>1, <4>1, <5>2, <6>1, <6>2
          <5> QED BY <5>1, <5>2, Numbers, Constants
        <4> QED BY <1>1, <2>2, <4>1 DEF Fixing, FirstSecureAfter, nextNoSecure
      <3>11. ClaimsSoFar' /\ EndsAgree'
        <4>1. nextClaim <= nextNoSecure
          BY <1>1 DEF IncInv, ClaimsSoFar, Active
        <4>2. nextClaim <= last
          BY <2>1, <4>1, Numbers
        <4> QED BY <1>1, <2>2, <3>1, <4>2 DEF IncInv, ClaimsSoFar, EndsAgree, Active,
                                              nextNoSecure, nextClaim
      <3>12. SharesOfOneLength'
        BY <1>1, <3>6 DEF IncInv, SharesOfOneLength
      <3> QED BY <1>3, <3>1, <3>7, <3>8, <3>9, <3>10, <3>11, <3>12 DEF IncInv
    <2>4. CASE ~\A r \in nextNoSecure..(last - 1) : Selectable(r, random[r])
      <3>1. pc' = "failed" /\ failure' = "no offer" /\ UNCHANGED offers
        BY <1>5, <2>4 DEF FixRandomNumbersAndOffers, Throw
      <3> HIDE DEF random, secured, last
      <3>2. TypeOK'
        BY <1>1, <2>1, <2>2, <3>1 DEF IncInv, TypeOK, nextNoSecure, nextClaim
      <3>3. Position' /\ Fixing' /\ ClaimsSoFar' /\ EndsAgree'
        BY <3>1 DEF Position, Fixing, ClaimsSoFar, EndsAgree, Active
      <3>4. Folders' /\ SharesOfOneLength'
        BY <1>1, <3>1 DEF IncInv, Folders, SharesOfOneLength, Active
      <3> QED BY <1>3, <3>1, <3>2, <3>3, <3>4 DEF IncInv
    <2> QED BY <2>3, <2>4
  <1> QED BY <1>4, <1>5

\* One more round's claims in the sum of those before it.
LEMMA OneMoreClaim ==
    ASSUME NEW n \in Nat, NEW f, NEW s, s = [i \in 1..n |-> f[i]],
           \A i \in 1..(n + 1) : f[i] \in Offers
    PROVE  /\ Append(s, f[n + 1]) = [i \in 1..(n + 1) |-> f[i]]
           /\ Append(s, f[n + 1]) \in Seq(Offers)
  <1>1. s \in Seq(Offers) /\ Len(s) = n
    OBVIOUS
  <1> DEFINE t == Append(s, f[n + 1])
  <1>2. t \in Seq(Offers) /\ Len(t) = n + 1
    BY <1>1
  <1>3. \A i \in 1..(n + 1) : t[i] = f[i]
    BY <1>1
  <1> HIDE DEF t
  <1>4. t = [i \in 1..(n + 1) |-> f[i]]
    BY <1>2, <1>3
  <1> QED BY <1>2, <1>4 DEF t

\* Claims are of fixed offers, and the sum of the rounds before is there and of claims
\* that have not changed since.
LEMMA CalculateClaimsStep ==
    ASSUME IncInv, CalculateClaims
    PROVE  IncInv'
  <1>0. PICK r \in Rounds : r = nextClaim
    BY Numbers
  <1> DEFINE v == offers[r]
             n == r - StartRound
             sum == IF r = StartRound THEN <<v>> ELSE Append(aggregated[r - 1], v)
  <1>1. /\ pc = "claims" /\ r < nextNoSecure
        /\ claims' = [claims EXCEPT ![r] = v]
        /\ aggregated' = [aggregated EXCEPT ![r] =
                            IF r = StartRound THEN <<v>>
                            ELSE IF aggregated[r] = NoClaims THEN Append(aggregated[r - 1], v)
                            ELSE aggregated[r]]
        /\ nextVotingRoundForClaimCalculation' = r + 1
        /\ UNCHANGED <<now, secure, realEnd, policyIndexed, nextStarted>>
        /\ UNCHANGED <<pc, failure, starts, catchingUp, votingRoundId, endVotingRoundId,
                       finalProcessedVotingRoundId, nextRewardEpochIdentified,
                       maxVotingRoundIdFolder, nextVotingRoundIdWithNoSecureRandom>>
        /\ UNCHANGED <<data, fixed, offers, status, finalClaims>>
    BY <1>0 DEF CalculateClaims, chain, ends, outcome
  <1>2. /\ r \in Rounds /\ r \in Nat /\ StartRound <= r /\ r + 1 \in Rounds
        /\ r + 1 <= nextNoSecure /\ n \in Nat
    <2>1. r \in Nat /\ StartRound <= r /\ r + 1 <= nextNoSecure
      BY <1>1, Numbers, Constants
    <2>2. nextNoSecure <= MaxRound + ExtraRounds
      BY Numbers, Constants
    <2>3. r + 1 \in Nat /\ StartRound <= r + 1 /\ r + 1 <= MaxRound + ExtraRounds
      BY <2>1, <2>2, Numbers, Constants
    <2> QED BY <2>1, <2>3, Constants
  <1>3. /\ claims \in [Rounds -> Offers \cup {NoOffer}]
        /\ aggregated \in [Rounds -> Seq(Offers)]
        /\ offers \in [Rounds -> Offers \cup {NoOffer}]
    BY DEF IncInv, TypeOK
  <1>4. /\ v \in Offers /\ FirstSecureAfter(r, v.feed)
    BY <1>1, <1>2, <1>3 DEF IncInv, Fixing, Active
  <1>5. \A q \in Rounds : /\ q < r <=> aggregated[q] # NoClaims
                          /\ q < r <=> claims[q] # NoOffer
    BY <1>0, <1>1 DEF IncInv, ClaimsSoFar, Active
  <1>6. aggregated[r] = NoClaims
    BY <1>2, <1>5
  <1>7. aggregated' = [aggregated EXCEPT ![r] = sum]
    BY <1>1, <1>6
  <1>8. /\ claims'[r] = v /\ \A q \in Rounds : q # r => claims'[q] = claims[q]
        /\ claims' \in [Rounds -> Offers \cup {NoOffer}]
    <2> HIDE DEF v
    <2> QED BY <1>1, <1>2, <1>3, <1>4
  <1>9. \A q \in Rounds : q < r => ClaimsUpTo(q)' = ClaimsUpTo(q)
    <2>1. ASSUME NEW q \in Rounds, q < r, NEW i \in 1..(q - StartRound + 1)
          PROVE  claims'[StartRound + i - 1] = claims[StartRound + i - 1]
      <3>1. StartRound + i - 1 \in Rounds /\ StartRound + i - 1 # r
        BY <1>2, <2>1, Constants
      <3> QED BY <1>8, <3>1
    <2> QED BY <2>1 DEF ClaimsUpTo
  <1>10. \A q \in StartRound..r : q \in Rounds /\ claims'[q] # NoOffer
    <2>1. ASSUME NEW q \in StartRound..r
          PROVE  q \in Rounds /\ claims'[q] # NoOffer
      <3>1. q \in Rounds /\ (q = r \/ (q # r /\ q < r))
        BY <1>2, Constants
      <3> QED BY <1>4, <1>5, <1>8, <3>1, Constants
    <2> QED BY <2>1
  <1>11. sum = ClaimsUpTo(r)' /\ sum \in Seq(Offers) /\ sum # NoClaims
    <2> DEFINE f == [i \in 1..(n + 1) |-> claims'[StartRound + i - 1]]
    <2>1. \A i \in 1..(n + 1) : f[i] \in Offers
      <3>1. ASSUME NEW i \in 1..(n + 1)
            PROVE  f[i] \in Offers
        <4>1. StartRound + i - 1 \in StartRound..r
          BY <1>2, Constants
        <4> QED BY <1>8, <1>10, <4>1
      <3> QED BY <3>1
    <2>2. f[n + 1] = v
      BY <1>2, <1>8, Constants
    <2>3. f = ClaimsUpTo(r)'
      BY DEF ClaimsUpTo
    <2>4. CASE r = StartRound
      <3>1. n = 0 /\ sum = <<v>>
        BY <2>4, Constants
      <3>2. <<f[1]>> = f /\ <<f[1]>> \in Seq(Offers) /\ <<f[1]>> # <<>>
        <4>1. f = [i \in 1..1 |-> f[i]] /\ f[1] \in Offers
          BY <2>1, <3>1
        <4> HIDE DEF f
        <4> QED BY <4>1
      <3>3. f[1] = v
        BY <2>2, <3>1
      <3> HIDE DEF f, sum
      <3> QED BY <2>3, <3>1, <3>2, <3>3 DEF NoClaims
    <2>5. CASE r # StartRound
      <3>1. /\ r - 1 \in Rounds /\ r - 1 < r /\ n \in Nat \ {0}
            /\ sum = Append(aggregated[r - 1], v)
        BY <1>2, <2>5, Constants
      <3>2. aggregated[r - 1] = ClaimsUpTo(r - 1)
        BY <1>5, <3>1 DEF IncInv, AggregatesSound
      <3>3. ClaimsUpTo(r - 1) = [i \in 1..n |-> f[i]]
        <4>1. (r - 1) - StartRound + 1 = n /\ \A i \in 1..n : i \in 1..(n + 1)
          BY <1>2, <3>1, Constants
        <4>2. ASSUME NEW i \in 1..n
              PROVE  claims[StartRound + i - 1] = f[i]
          <5>1. /\ StartRound + i - 1 \in Rounds /\ StartRound + i - 1 # r
            BY <1>2, <3>1, Constants
          <5> QED BY <1>8, <4>1, <5>1
        <4> HIDE DEF n, f
        <4> QED BY <4>1, <4>2 DEF ClaimsUpTo
      <3> HIDE DEF f, n
      <3>4. /\ Append(aggregated[r - 1], f[n + 1]) = [i \in 1..(n + 1) |-> f[i]]
            /\ Append(aggregated[r - 1], f[n + 1]) \in Seq(Offers)
        BY <1>2, <2>1, <3>2, <3>3, OneMoreClaim
      <3>5. f = [i \in 1..(n + 1) |-> f[i]]
        BY DEF f
      <3>6. sum = f /\ sum \in Seq(Offers)
        BY <2>2, <3>1, <3>4, <3>5
      <3>7. sum # NoClaims
        <4>1. 1 \in DOMAIN f
          BY <1>2 DEF f
        <4>2. sum # <<>>
          BY <3>6, <4>1
        <4> QED BY <4>2 DEF NoClaims
      <3> QED BY <2>3, <3>6, <3>7
    <2> QED BY <2>4, <2>5
  <1> HIDE DEF sum, v, n
  <1>12. /\ aggregated' \in [Rounds -> Seq(Offers)] /\ aggregated'[r] = sum
         /\ \A q \in Rounds : q # r => aggregated'[q] = aggregated[q]
    BY <1>2, <1>3, <1>7, <1>11
  <1>13. TypeOK'
    BY <1>1, <1>2, <1>8, <1>12 DEF IncInv, TypeOK, nextNoSecure, nextClaim
  <1>14. NothingOnFile' /\ Position' /\ NotDone' /\ EndKnown' /\ Fixing'
    BY <1>1 DEF IncInv, NothingOnFile, Position, NotDone, EndKnown, Fixing, FirstSecureAfter,
                Active, nextNoSecure
  <1>15. Folders'
    <2>1. r <= maxVotingRoundIdFolder
      <3>1. v # NoOffer
        BY <1>4, Constants
      <3> QED BY <1>2, <3>1, Numbers, Constants DEF IncInv, Folders, v
    <2>2. \A q \in Rounds : q > maxVotingRoundIdFolder => q # r
      BY <1>2, <2>1, Numbers, Constants
    <2> QED BY <1>1, <1>8, <1>12, <2>2 DEF IncInv, Folders, Active
  <1>16. ClaimsSoFar'
    <2>1. ASSUME NEW q \in Rounds
          PROVE  /\ q < r + 1 <=> aggregated'[q] # NoClaims
                 /\ q < r + 1 <=> claims'[q] # NoOffer
      <3>1. CASE q = r
        BY <1>2, <1>4, <1>8, <1>11, <1>12, <3>1, Constants
      <3>2. CASE q # r
        <4>1. q < r + 1 <=> q < r
          BY <1>2, <3>2, Constants
        <4> QED BY <1>5, <1>8, <1>12, <3>2, <4>1
      <3> QED BY <3>1, <3>2
    <2> QED BY <1>1, <1>2, <2>1 DEF ClaimsSoFar, nextNoSecure, nextClaim
  <1>17. AggregatesSound'
    <2>1. ASSUME NEW q \in Rounds, aggregated'[q] # NoClaims
          PROVE  /\ aggregated'[q] = ClaimsUpTo(q)'
                 /\ \A p \in StartRound..q : claims'[p] # NoOffer
      <3>1. CASE q = r
        BY <1>10, <1>11, <1>12, <3>1
      <3>2. CASE q # r
        <4>1. q < r /\ aggregated'[q] = aggregated[q] /\ aggregated[q] = ClaimsUpTo(q)
          BY <1>5, <1>12, <2>1, <3>2 DEF IncInv, AggregatesSound
        <4>2. \A p \in StartRound..q : p \in StartRound..r
          BY <1>2, <4>1, Constants
        <4> QED BY <1>9, <1>10, <4>1, <4>2
      <3> QED BY <3>1, <3>2
    <2> QED BY <2>1 DEF AggregatesSound
  <1>18. SharesOfOneLength'
    <2>1. \A q \in Rounds : claims'[q] = claims[q] \/ claims'[q] = offers[q]
      BY <1>8 DEF v
    <2> QED BY <1>1, <2>1 DEF IncInv, SharesOfOneLength
  <1>19. EndsAgree' /\ NoRoundsLeftOver' /\ FinalClaimsShareOffers'
    BY <1>1 DEF IncInv, EndsAgree, NoRoundsLeftOver, NotDone, Active, FinalClaimsShareOffers
  <1>20. ClaimsForSelectedFeed'
    <2>1. ASSUME NEW q \in Rounds, claims'[q] # NoOffer
          PROVE  FirstSecureAfter(q, claims'[q].feed)
      <3>1. CASE q = r
        BY <1>4, <1>8, <3>1
      <3>2. CASE q # r
        BY <1>8, <2>1, <3>2 DEF IncInv, ClaimsForSelectedFeed
      <3> QED BY <3>1, <3>2
    <2> QED BY <1>1, <2>1 DEF ClaimsForSelectedFeed, FirstSecureAfter
  <1> QED BY <1>13, <1>14, <1>15, <1>16, <1>17, <1>18, <1>19, <1>20 DEF IncInv

\* Without an aggregate the process ends; with one, a random has been found, so that the
\* next round is behind it.
LEMMA ReportRewardsStep ==
    ASSUME IncInv, ReportRewards
    PROVE  IncInv'
  <1>1. /\ pc = "claims" /\ nextClaim >= nextNoSecure
        /\ UNCHANGED <<now, secure, realEnd, policyIndexed, nextStarted>>
        /\ UNCHANGED <<starts, endVotingRoundId, finalProcessedVotingRoundId,
                       nextRewardEpochIdentified, maxVotingRoundIdFolder,
                       nextVotingRoundIdWithNoSecureRandom, nextVotingRoundForClaimCalculation>>
        /\ UNCHANGED files
    BY DEF ReportRewards, chain, ends, next, results, outcome, files
  <1>2. EndsAgree /\ nextClaim <= nextNoSecure
    BY <1>1 DEF IncInv, ClaimsSoFar, Active
  <1>3. CASE nextClaim = StartRound
    <2>1. /\ pc' = "failed" /\ failure' = "no aggregate to report"
          /\ UNCHANGED <<catchingUp, votingRoundId>>
      BY <1>3 DEF ReportRewards, Throw
    <2>2. TypeOK'
      BY <1>1, <2>1 DEF IncInv, TypeOK, nextNoSecure, nextClaim, files
    <2>3. NothingOnFile' /\ Position' /\ Fixing' /\ ClaimsSoFar' /\ NotDone' /\ EndsAgree'
      BY <2>1 DEF NothingOnFile, Position, Fixing, ClaimsSoFar, NotDone, EndsAgree, Active
    <2>4. EndKnown' /\ Folders'
      BY <1>1, <2>1 DEF IncInv, EndKnown, Folders, Active, files
    <2> QED BY <1>1, <2>2, <2>3, <2>4, FilesAlone DEF IncInv
  <1>4. CASE nextClaim # StartRound
    <2>1. /\ votingRoundId' = votingRoundId + 1 /\ catchingUp' = FALSE /\ UNCHANGED failure
          /\ pc' = IF catchingUp THEN "loop" ELSE "find"
      BY <1>4 DEF ReportRewards
    <2>2. votingRoundId' \in Int /\ catchingUp' \in BOOLEAN /\ pc' \in {"loop", "find"}
      <3>1. votingRoundId' \in Int
        BY <2>1, Numbers
      <3>2. catchingUp' \in BOOLEAN
        BY <2>1
      <3> QED BY <2>1, <3>1, <3>2
    <2>3. nextNoSecure <= votingRoundId /\ votingRoundId < MaxRound
      <3>1. nextNoSecure # StartRound
        BY <1>2, <1>4, Numbers
      <3> QED BY <1>1, <3>1 DEF IncInv, Position, Active
    <2>4. TypeOK'
      BY <1>1, <2>1, <2>2 DEF IncInv, TypeOK, nextNoSecure, nextClaim, files
    <2>5. Position'
      BY <1>1, <2>1, <2>2, <2>3, Numbers, Constants DEF Position, nextNoSecure
    <2>6. EndKnown'
      <3>1. catchingUp => votingRoundId < realEnd
        BY <1>1 DEF IncInv, Position, Active
      <3>2. /\ nextRewardEpochIdentified => policyIndexed /\ endVotingRoundId = realEnd
            /\ ExpectedEnd <= endVotingRoundId
            /\ finalProcessedVotingRoundId = endVotingRoundId + FutureRounds
            /\ ~nextRewardEpochIdentified =>
                  /\ votingRoundId < finalProcessedVotingRoundId
                  /\ votingRoundId >= realEnd => policyIndexed
        BY <1>1 DEF IncInv, EndKnown, Active
      <3>3. /\ pc' = "loop" => votingRoundId' <= realEnd
            /\ ~nextRewardEpochIdentified => votingRoundId' <= finalProcessedVotingRoundId
            /\ ~nextRewardEpochIdentified /\ votingRoundId' > realEnd => policyIndexed
        BY <2>1, <3>1, <3>2, Numbers
      <3> QED BY <1>1, <2>2, <3>2, <3>3 DEF EndKnown, Active
    <2>7. Folders' /\ Fixing' /\ ClaimsSoFar'
      BY <1>1, <2>2 DEF IncInv, Folders, Fixing, FirstSecureAfter, ClaimsSoFar, Active,
                        nextNoSecure, nextClaim, files
    <2>8. NothingOnFile' /\ NotDone' /\ EndsAgree'
      BY <1>1, <2>1, <2>2 DEF IncInv, NothingOnFile, NotDone, EndsAgree, Active, files
    <2> QED BY <1>1, <2>4, <2>5, <2>6, <2>7, <2>8, FilesAlone DEF IncInv
  <1> QED BY <1>3, <1>4

\* The end is set from the policy, to the end the epoch really has.
LEMMA TryFindStep ==
    ASSUME IncInv, TryFindNextRewardEpoch
    PROVE  IncInv'
  <1>1. /\ pc = "find" /\ pc' \in {"cleanup", "loop"}
        /\ UNCHANGED <<now, secure, realEnd, policyIndexed, nextStarted>>
        /\ UNCHANGED <<failure, starts, catchingUp, votingRoundId, maxVotingRoundIdFolder,
                       nextVotingRoundIdWithNoSecureRandom, nextVotingRoundForClaimCalculation>>
        /\ UNCHANGED files
        /\ pc' = "cleanup" => nextRewardEpochIdentified'
    BY DEF TryFindNextRewardEpoch, chain, next, results, outcome, files
  <1>2. /\ nextRewardEpochIdentified \in BOOLEAN /\ policyIndexed \in BOOLEAN
        /\ nextRewardEpochIdentified' = (nextRewardEpochIdentified \/ policyIndexed)
    BY DEF IncInv, TypeOK, TryFindNextRewardEpoch
  <1>3. nextRewardEpochIdentified' \in BOOLEAN
    BY <1>2
  <1>4. /\ nextRewardEpochIdentified => policyIndexed /\ endVotingRoundId = realEnd
        /\ ExpectedEnd <= endVotingRoundId
        /\ finalProcessedVotingRoundId = endVotingRoundId + FutureRounds
        /\ ~nextRewardEpochIdentified =>
              /\ votingRoundId <= finalProcessedVotingRoundId
              /\ votingRoundId > realEnd => policyIndexed
    BY <1>1 DEF IncInv, EndKnown, Active
  <1>5. /\ nextRewardEpochIdentified' => policyIndexed /\ endVotingRoundId' = realEnd
        /\ ~nextRewardEpochIdentified' => ~nextRewardEpochIdentified /\ ~policyIndexed
        /\ ExpectedEnd <= endVotingRoundId'
        /\ finalProcessedVotingRoundId' = endVotingRoundId' + FutureRounds
        /\ endVotingRoundId' \in Nat /\ finalProcessedVotingRoundId' \in Nat
        /\ ~nextRewardEpochIdentified' =>
              UNCHANGED <<endVotingRoundId, finalProcessedVotingRoundId>>
    <2>1. CASE ~nextRewardEpochIdentified /\ policyIndexed
      <3>1. /\ endVotingRoundId' = realEnd
            /\ finalProcessedVotingRoundId' = realEnd + FutureRounds
        BY <2>1 DEF TryFindNextRewardEpoch, PolicyEnd
      <3>2. nextRewardEpochIdentified' /\ policyIndexed
        BY <1>2, <2>1
      <3>3. /\ realEnd \in Nat /\ realEnd + FutureRounds \in Nat /\ ExpectedEnd <= realEnd
        BY Numbers, Constants
      <3> QED BY <3>1, <3>2, <3>3
    <2>2. CASE ~(~nextRewardEpochIdentified /\ policyIndexed)
      <3>1. UNCHANGED <<endVotingRoundId, finalProcessedVotingRoundId>>
        BY <2>2 DEF TryFindNextRewardEpoch
      <3> QED BY <1>2, <1>4, <2>2, <3>1, Numbers
    <2> QED BY <2>1, <2>2
  <1>6. TypeOK'
    BY <1>1, <1>3, <1>5 DEF IncInv, TypeOK, nextNoSecure, nextClaim, files
  <1>7. Position'
    <2>1. ~catchingUp /\ nextNoSecure < votingRoundId /\ votingRoundId <= MaxRound
      BY <1>1 DEF IncInv, Position, Active
    <2> QED BY <1>1, <2>1, Numbers DEF Position, nextNoSecure
  <1>8. EndKnown'
    <2>1. ~nextRewardEpochIdentified' =>
              votingRoundId <= finalProcessedVotingRoundId /\ votingRoundId <= realEnd
      BY <1>4, <1>5, Numbers
    <2> QED BY <1>1, <1>5, <2>1 DEF EndKnown, Active
  <1>9. Folders'
    BY <1>1, <1>5 DEF IncInv, Folders, Active, files
  <1>10. Fixing' /\ ClaimsSoFar'
    BY <1>1 DEF IncInv, Fixing, FirstSecureAfter, ClaimsSoFar, Active, nextNoSecure, nextClaim,
                files
  <1>11. NothingOnFile' /\ NotDone' /\ EndsAgree'
    BY <1>1 DEF IncInv, NothingOnFile, NotDone, EndsAgree, Active, files
  <1> QED BY <1>1, <1>6, <1>7, <1>8, <1>9, <1>10, <1>11, FilesAlone DEF IncInv

-----------------------------------------------------------------------------
(* The end of the calculation *)

\* The ends agree, and every folder of a later round is counted and so removed.
LEMMA CleanupStep ==
    ASSUME IncInv, Cleanup
    PROVE  IncInv'
  <1>1. pc = "cleanup" /\ policyIndexed /\ endVotingRoundId = realEnd
    BY DEF Cleanup, IncInv, EndKnown
  <1> DEFINE later == (realEnd + 1)..maxVotingRoundIdFolder
  <1>2. /\ pc' = "finish" /\ status' = "DONE" /\ UNCHANGED failure
        /\ data' = data \ later
        /\ fixed' = [r \in Rounds |-> IF r \in later THEN Unfixed ELSE fixed[r]]
        /\ offers' = [r \in Rounds |-> IF r \in later THEN NoOffer ELSE offers[r]]
        /\ claims' = [r \in Rounds |-> IF r \in later THEN NoOffer ELSE claims[r]]
        /\ aggregated' = [r \in Rounds |-> IF r \in later THEN NoClaims ELSE aggregated[r]]
        /\ UNCHANGED <<now, secure, realEnd, policyIndexed, nextStarted>>
        /\ UNCHANGED <<starts, catchingUp, votingRoundId, endVotingRoundId,
                       finalProcessedVotingRoundId, nextRewardEpochIdentified,
                       maxVotingRoundIdFolder, nextVotingRoundIdWithNoSecureRandom,
                       nextVotingRoundForClaimCalculation, finalClaims>>
    BY <1>1 DEF Cleanup, chain, ends, next
  <1>3. ASSUME NEW r \in Rounds
        PROVE  r \in later <=> r > realEnd /\ r <= maxVotingRoundIdFolder
    BY Numbers, Constants
  <1> HIDE DEF later
  <1>4. ASSUME NEW r \in Rounds
        PROVE  /\ r > realEnd => /\ r \notin data' /\ offers'[r] = NoOffer
                                 /\ claims'[r] = NoOffer /\ aggregated'[r] = NoClaims
               /\ r <= realEnd => /\ offers'[r] = offers[r] /\ claims'[r] = claims[r]
                                  /\ aggregated'[r] = aggregated[r]
               /\ offers'[r] \in {offers[r], NoOffer} /\ claims'[r] \in {claims[r], NoOffer}
               /\ aggregated'[r] \in {aggregated[r], NoClaims}
    <2>1. r > maxVotingRoundIdFolder => /\ r \notin data /\ offers[r] = NoOffer
                                        /\ claims[r] = NoOffer /\ aggregated[r] = NoClaims
      BY DEF IncInv, Folders
    <2> QED BY <1>2, <1>3, <2>1, Numbers, Constants
  <1>5. TypeOK'
    <2>1. /\ data \subseteq Rounds
          /\ fixed \in [Rounds -> Rounds \cup {Unfixed}]
          /\ offers \in [Rounds -> Offers \cup {NoOffer}]
          /\ claims \in [Rounds -> Offers \cup {NoOffer}]
          /\ aggregated \in [Rounds -> Seq(Offers)]
      BY DEF IncInv, TypeOK
    <2>2. /\ data' \subseteq Rounds
          /\ fixed' \in [Rounds -> Rounds \cup {Unfixed}]
          /\ offers' \in [Rounds -> Offers \cup {NoOffer}]
          /\ claims' \in [Rounds -> Offers \cup {NoOffer}]
      BY <1>2, <2>1
    <2>3. aggregated' \in [Rounds -> Seq(Offers)]
      <3>1. NoClaims \in Seq(Offers)
        BY DEF NoClaims
      <3> QED BY <1>2, <2>1, <3>1
    <2> QED BY <1>2, <2>2, <2>3 DEF IncInv, TypeOK, nextNoSecure, nextClaim
  <1>6. NothingOnFile' /\ Position' /\ Fixing' /\ ClaimsSoFar' /\ NotDone' /\ EndsAgree'
    BY <1>2 DEF IncInv, NothingOnFile, Position, Fixing, ClaimsSoFar, NotDone, EndsAgree, Active
  <1>7. EndKnown'
    BY <1>1, <1>2 DEF IncInv, EndKnown, Active
  <1>8. Folders'
    <2>1. ASSUME NEW r \in Rounds, r > maxVotingRoundIdFolder
          PROVE  /\ r \notin data' /\ offers'[r] = NoOffer
                 /\ claims'[r] = NoOffer /\ aggregated'[r] = NoClaims
      <3>1. /\ r \notin data /\ offers[r] = NoOffer
            /\ claims[r] = NoOffer /\ aggregated[r] = NoClaims
        BY <2>1 DEF IncInv, Folders
      <3> QED BY <1>2, <1>4, <3>1
    <2> QED BY <1>2, <2>1 DEF Folders, Active
  <1>9. AggregatesSound'
    <2>1. ASSUME NEW r \in Rounds, aggregated'[r] # NoClaims
          PROVE  /\ aggregated'[r] = ClaimsUpTo(r)'
                 /\ \A q \in StartRound..r : claims'[q] # NoOffer
      <3>1. /\ r <= realEnd /\ aggregated'[r] = aggregated[r]
        BY <1>4, <2>1, Numbers, Constants
      <3>2. /\ aggregated[r] = ClaimsUpTo(r) /\ \A q \in StartRound..r : claims[q] # NoOffer
        BY <2>1, <3>1 DEF IncInv, AggregatesSound
      <3>3. \A q \in StartRound..r : q \in Rounds /\ claims'[q] = claims[q]
        <4>1. \A q \in StartRound..r : q \in Rounds /\ q <= realEnd
          BY <3>1, Numbers, Constants
        <4> QED BY <1>4, <4>1
      <3>4. ClaimsUpTo(r)' = ClaimsUpTo(r)
        <4>1. \A i \in 1..(r - StartRound + 1) : StartRound + i - 1 \in StartRound..r
          BY Constants
        <4> QED BY <3>3, <4>1 DEF ClaimsUpTo
      <3> QED BY <3>1, <3>2, <3>3, <3>4
    <2> QED BY <2>1 DEF AggregatesSound
  <1>10. SharesOfOneLength'
    BY <1>2, <1>4 DEF IncInv, SharesOfOneLength
  <1>11. NoRoundsLeftOver'
    BY <1>2, <1>4 DEF NoRoundsLeftOver
  <1>12. ClaimsForSelectedFeed'
    <2>1. \A r \in Rounds : claims'[r] # NoOffer => claims'[r] = claims[r]
      BY <1>4
    <2> QED BY <1>2, <2>1 DEF IncInv, ClaimsForSelectedFeed, FirstSecureAfter
  <1>13. FinalClaimsShareOffers'
    BY <1>2 DEF IncInv, FinalClaimsShareOffers
  <1> QED BY <1>5, <1>6, <1>7, <1>8, <1>9, <1>10, <1>11, <1>12, <1>13 DEF IncInv

\* The final claims are the aggregate at the real end: every round has its claim in it, and
\* a claim of the round at the end has a share for that end.
LEMMA WriteFinalClaimsStep ==
    ASSUME IncInv, WriteFinalClaims
    PROVE  IncInv'
  <1>1. /\ pc = "finish" /\ endVotingRoundId = realEnd
        /\ UNCHANGED <<now, secure, realEnd, policyIndexed, nextStarted>>
        /\ UNCHANGED <<starts, catchingUp, votingRoundId, endVotingRoundId,
                       finalProcessedVotingRoundId, nextRewardEpochIdentified,
                       maxVotingRoundIdFolder, nextVotingRoundIdWithNoSecureRandom,
                       nextVotingRoundForClaimCalculation>>
        /\ UNCHANGED <<data, fixed, offers, claims, aggregated, status>>
    BY DEF WriteFinalClaims, chain, ends, next, results, IncInv, EndKnown
  <1>2. /\ pc' \in {"failed", "done"}
        /\ failure' \in {failure, "no aggregate at the end"}
        /\ finalClaims' = finalClaims \/ (aggregated[realEnd] # NoClaims
                                          /\ finalClaims' = aggregated[realEnd])
    BY <1>1 DEF WriteFinalClaims, Throw
  <1>3. TypeOK'
    <2>1. finalClaims \in Seq(Offers) /\ aggregated[realEnd] \in Seq(Offers)
      BY Numbers DEF IncInv, TypeOK
    <2>2. finalClaims' \in Seq(Offers)
      BY <1>2, <2>1
    <2> QED BY <1>1, <1>2, <2>2 DEF IncInv, TypeOK, nextNoSecure, nextClaim
  <1>4. NothingOnFile' /\ Position' /\ Fixing' /\ ClaimsSoFar' /\ NotDone'
    BY <1>2 DEF NothingOnFile, Position, Fixing, ClaimsSoFar, NotDone, Active
  <1>5. EndKnown' /\ Folders' /\ EndsAgree'
    BY <1>1, <1>2 DEF IncInv, EndKnown, Folders, EndsAgree, Active
  <1>6. AggregatesSound' /\ SharesOfOneLength'
    BY <1>1 DEF IncInv, AggregatesSound, ClaimsUpTo, SharesOfOneLength
  <1>7. NoRoundsLeftOver' /\ ClaimsForSelectedFeed'
    BY <1>1 DEF IncInv, NoRoundsLeftOver, ClaimsForSelectedFeed, FirstSecureAfter
  <1>8. ASSUME realEnd < ExpectedEnd + FutureRounds, aggregated[realEnd] # NoClaims
        PROVE  /\ Len(aggregated[realEnd]) = realEnd - StartRound + 1
               /\ \A i \in DOMAIN aggregated[realEnd] : aggregated[realEnd][i].end = realEnd
    <2>1. /\ aggregated[realEnd] = ClaimsUpTo(realEnd)
          /\ \A q \in StartRound..realEnd : claims[q] # NoOffer
      BY <1>8, Numbers DEF IncInv, AggregatesSound
    <2>2. PICK end \in {ExpectedEnd, realEnd} : \A r \in Rounds :
              claims[r] # NoOffer => r <= end /\ claims[r].end = end
      BY <1>8 DEF IncInv, SharesOfOneLength
    <2>3. end = realEnd
      <3>1. claims[realEnd] # NoOffer
        BY <2>1, Numbers, Constants
      <3>2. realEnd <= end
        BY <2>2, <3>1, Numbers
      <3> QED BY <3>2, Numbers, Constants
    <2>4. realEnd - StartRound + 1 \in Nat
      BY Numbers, Constants
    <2>5. ASSUME NEW i \in 1..(realEnd - StartRound + 1)
          PROVE  claims[StartRound + i - 1].end = realEnd
      <3>1. /\ StartRound + i - 1 \in StartRound..realEnd
            /\ StartRound + i - 1 \in Rounds
        BY Numbers, Constants
      <3> QED BY <2>1, <2>2, <2>3, <3>1
    <2>6. /\ Len(aggregated[realEnd]) = realEnd - StartRound + 1
          /\ DOMAIN aggregated[realEnd] = 1..(realEnd - StartRound + 1)
          /\ \A i \in 1..(realEnd - StartRound + 1) :
                aggregated[realEnd][i] = claims[StartRound + i - 1]
      BY <2>1, <2>4 DEF ClaimsUpTo
    <2> QED BY <2>5, <2>6
  <1>9. FinalClaimsShareOffers'
    BY <1>1, <1>2, <1>8 DEF IncInv, FinalClaimsShareOffers
  <1> QED BY <1>3, <1>4, <1>5, <1>6, <1>7, <1>9 DEF IncInv

-----------------------------------------------------------------------------
(* The theorems *)

\* Nothing is on file and nothing runs.
LEMMA InitiallyIncInv == Init => IncInv
  <1> SUFFICES ASSUME Init PROVE IncInv
    OBVIOUS
  <1>1. /\ \A r \in Rounds : /\ offers[r] = NoOffer /\ claims[r] = NoOffer
                             /\ aggregated[r] = NoClaims
        /\ data = {} /\ pc = "off" /\ failure = "none" /\ status = "none"
        /\ finalClaims = NoClaims /\ nextRewardEpochIdentified = FALSE
    BY DEF Init
  <1>2. TypeOK
    <2>1. /\ StartRound \in Rounds /\ StartRound \in StartRound..MaxRound
          /\ 0 \in 0..MaxStarts
      <3>1. StartRound <= MaxRound
        <4>1. PICK end \in RealEnds : end = realEnd
          BY DEF Init
        <4> QED BY <4>1, Constants
      <3> QED BY <3>1, Constants
    <2>2. NoClaims \in Seq(Offers)
      BY DEF NoClaims
    <2>3. /\ fixed \in [Rounds -> Rounds \cup {Unfixed}]
          /\ offers \in [Rounds -> Offers \cup {NoOffer}]
          /\ claims \in [Rounds -> Offers \cup {NoOffer}]
          /\ aggregated \in [Rounds -> Seq(Offers)]
      BY <2>2 DEF Init
    <2>4. /\ policyIndexed \in BOOLEAN /\ nextStarted \in BOOLEAN
          /\ catchingUp \in BOOLEAN /\ nextRewardEpochIdentified \in BOOLEAN
      BY DEF Init
    <2> QED BY <2>1, <2>2, <2>3, <2>4 DEF Init, TypeOK, nextNoSecure, nextClaim
  <1>3. NothingOnFile /\ Position /\ EndKnown /\ Folders /\ Fixing /\ ClaimsSoFar /\ NotDone
    BY <1>1 DEF NothingOnFile, Position, EndKnown, Folders, Fixing, ClaimsSoFar, NotDone, Active
  <1>4. AggregatesSound /\ SharesOfOneLength /\ EndsAgree /\ NoRoundsLeftOver
    BY <1>1 DEF AggregatesSound, SharesOfOneLength, EndsAgree, NoRoundsLeftOver
  <1>5. ClaimsForSelectedFeed /\ FinalClaimsShareOffers
    BY <1>1 DEF ClaimsForSelectedFeed, FinalClaimsShareOffers
  <1> QED BY <1>2, <1>3, <1>4, <1>5 DEF IncInv

\* A step of nobody.
LEMMA StutteringStep ==
    ASSUME IncInv, UNCHANGED vars
    PROVE  IncInv'
  <1>1. /\ UNCHANGED <<now, secure, realEnd, policyIndexed, nextStarted>>
        /\ UNCHANGED <<pc, failure, starts, catchingUp, votingRoundId, endVotingRoundId,
                       finalProcessedVotingRoundId, nextRewardEpochIdentified,
                       maxVotingRoundIdFolder, nextVotingRoundIdWithNoSecureRandom,
                       nextVotingRoundForClaimCalculation>>
        /\ UNCHANGED files
    BY DEF vars, chain, ends, next, results, outcome, files
  <1>2. TypeOK'
    <2>1. pc' \in {"off", "init", "data", "fix", "claims", "loop", "find", "cleanup",
                  "finish", "done", "failed", "next"}
      BY <1>1 DEF IncInv, TypeOK
    <2> QED BY <1>1, <2>1 DEF IncInv, TypeOK, nextNoSecure, nextClaim, files
  <1>3. NothingOnFile' /\ Position' /\ EndKnown'
    BY <1>1 DEF IncInv, NothingOnFile, Position, EndKnown, Active, nextNoSecure, files
  <1>4. Folders' /\ Fixing'
    BY <1>1 DEF IncInv, Folders, Fixing, FirstSecureAfter, Active, nextNoSecure, files
  <1>5. ClaimsSoFar' /\ NotDone' /\ EndsAgree'
    BY <1>1 DEF IncInv, ClaimsSoFar, NotDone, EndsAgree, Active, nextNoSecure, nextClaim, files
  <1> QED BY <1>1, <1>2, <1>3, <1>4, <1>5, FilesAlone DEF IncInv

\* Every action preserves the invariant, by the lemma about it.
LEMMA NextPreservesIncInv ==
    ASSUME IncInv, [Next]_vars
    PROVE  IncInv'
  <1>1. CASE Environment
    BY <1>1, EnvironmentStep
  <1>2. CASE Begin
    BY <1>2, BeginStep
  <1>3. CASE Calculation
    <2>1. CASE Initialize
      BY <2>1, InitializeStep
    <2>2. CASE CatchUpData
      BY <2>2, CatchUpDataStep
    <2>3. CASE ExtendRewardEpochDuration
      BY <2>3, ExtendStep
    <2>4. CASE EnterRound
      BY <2>4, EnterRoundStep
    <2>5. CASE LeaveLoop
      BY <2>5, LeaveLoopStep
    <2>6. CASE RoundData
      BY <2>6, RoundDataStep
    <2>7. CASE FixRandomNumbersAndOffers
      BY <2>7, FixStep
    <2>8. CASE CalculateClaims
      BY <2>8, CalculateClaimsStep
    <2>9. CASE ReportRewards
      BY <2>9, ReportRewardsStep
    <2>10. CASE TryFindNextRewardEpoch
      BY <2>10, TryFindStep
    <2>11. CASE Cleanup
      BY <2>11, CleanupStep
    <2>12. CASE WriteFinalClaims
      BY <2>12, WriteFinalClaimsStep
    <2> QED BY <1>3, <2>1, <2>2, <2>3, <2>4, <2>5, <2>6, <2>7, <2>8, <2>9, <2>10, <2>11, <2>12
            DEF Calculation
  <1>4. CASE TurnToNextEpoch
    BY <1>4, TurnToNextEpochStep
  <1>5. CASE Kill
    BY <1>5, KillStep
  <1>6. CASE UNCHANGED vars
    BY <1>6, StutteringStep
  <1> QED BY <1>1, <1>2, <1>3, <1>4, <1>5, <1>6 DEF Next

\* The inductive invariant holds in every reachable state.
THEOREM IncrementalInvariant == Spec => []IncInv
  <1>1. Init => IncInv
    BY InitiallyIncInv
  <1>2. IncInv /\ [Next]_vars => IncInv'
    BY NextPreservesIncInv
  <1> QED BY <1>1, <1>2, PTL DEF Spec

\* The state of runRewardCalculationIncremental is of its type, the sanity check of
\* cleanupAndReturnFinalEpochDuration never fails, and a calculation with status DONE has
\* left no data and no offers of rounds after the epoch, whatever the start of the next epoch,
\* a kill or an extension did to the folders.
THEOREM StaysConsistent == Spec => []StateConsistent
  <1>1. IncInv => StateConsistent
    BY DEF IncInv, StateConsistent
  <1> QED BY <1>1, IncrementalInvariant, PTL

\* calculateAndAggregateRemainingClaims builds every aggregate on that of the round before and
\* skips one that exists: no aggregate is ever out of step with the claims on file.
THEOREM AggregatesStayFresh == Spec => []AggregatesFresh
  <1>1. IncInv => AggregatesFresh
    BY DEF IncInv, AggregatesSound, AggregatesFresh, ClaimsUpTo
  <1> QED BY <1>1, IncrementalInvariant, PTL

\* The claims of a round are for the feed that the first secure random after the round
\* selects, however late and in whatever batch fixRandomNumbersOffersAndCalculateClaims fixed
\* it, and however often the offers were made anew by an extension.
THEOREM ClaimsAreForSelectedFeed == Spec => []ClaimsForSelectedFeed
  <1>1. IncInv => ClaimsForSelectedFeed
    BY DEF IncInv
  <1> QED BY <1>1, IncrementalInvariant, PTL

\* For an epoch that ends before its expected end is extended, the final claims are one for
\* each round, all with the share of a round in an epoch of the real length.  The process
\* calculates with an expected length, and when that is wrong it never writes final claims.
THEOREM FinalClaimsAreShares == Spec => []FinalClaimsShareOffers
  <1>1. IncInv => FinalClaimsShareOffers
    BY DEF IncInv
  <1> QED BY <1>1, IncrementalInvariant, PTL
=============================================================================
