------------------------- MODULE CalculationsProofs -------------------------
(***************************************************************************)
(* Theorems about the calculations of the reward code: rounds of every     *)
(* well-formed scenario pay what is offered, burn what is taken as a       *)
(* penalty, stop only without a right signature, and take no harm from     *)
(* what comes later; claims are merged in any pieces, and those of         *)
(* ineligible providers burnt, with nothing lost; the search of an epoch   *)
(* finds it; amounts and draws go by weight; minimal conditions are kept   *)
(* by who does its part, and passes never invented; and the offers of an   *)
(* epoch are those of its rounds, with nothing lost.                       *)
(***************************************************************************)
EXTENDS Calculations, RewardRoundFacts

-----------------------------------------------------------------------------
(* Rounds *)

\* Candidates of messages are numbers.
CandidatesCount ==
    \A tx \in ToSet(sent) : tx.candidate \notin {Empty, Short, NoBits} => AsNumber(tx.candidate) \in Nat

\* A calculation's scenario is one of a well-formed chain, or of no round at
\* all; what was sent is a list.
RoundInv == WellFormed(scenario) /\ sent \in Seq(ToSet(sent)) /\ CandidatesCount

\* A round at rest is well formed.
LEMMA QuietIsWellFormed == WellFormed(QuietRound)
<1> DEFINE s == QuietRound
<1>1. /\ s.policy = <<>> /\ s.ftsoOffers = <<>> /\ s.updateOffers = <<>> /\ s.fdcOffers = <<>>
      /\ s.finalizers = {} /\ s.updates = Empty /\ s.kinds = {}
  BY DEF QuietRound
<1>2. <<>> \in Seq(Voters) /\ ToSet(<<>>) = {} /\ <<>> \in Seq({})
  BY DEF ToSet
<1> HIDE DEF s
<1>3. WellFormed(s)
  BY <1>1, <1>2 DEF WellFormed
<1> QED BY <1>3 DEF s

\* It holds at first.
LEMMA RoundInvInit == CalcInit => RoundInv
<1> SUFFICES ASSUME CalcInit PROVE RoundInv
  OBVIOUS
<1>1. WellFormed(scenario) /\ sent = <<>>
  BY ScenariosAssumption, QuietIsWellFormed DEF CalcInit, RoundInit, RoundRests
<1>2. ToSet(<<>>) = {} /\ <<>> \in Seq({})
  BY DEF ToSet
<1> QED BY <1>1, <1>2 DEF RoundInv, CandidatesCount

\* A list with one more element is a list.
LEMMA LongerList ==
    ASSUME NEW list, list \in Seq(ToSet(list)), NEW x
    PROVE  Append(list, x) \in Seq(ToSet(Append(list, x)))
<1> DEFINE R == ToSet(list) \cup {x}
           new == Append(list, x)
<1>1. list \in Seq(R) /\ x \in R
  <2>1. ToSet(list) \subseteq R /\ x \in R
    OBVIOUS
  <2> HIDE DEF R
  <2> QED BY <2>1
<1> HIDE DEF R
<1>2. new \in Seq(R)
  BY <1>1
<1> HIDE DEF new
<1>3. new \in Seq(ToSet(new))
  BY <1>2, OwnList
<1> QED BY <1>3 DEF new

\* A step leaves the scenario alone, and at most one transaction is sent.
LEMMA RoundSteps ==
    ASSUME [CalcNext]_calcVars
    PROVE  /\ scenario' = scenario
           /\ \/ sent' = sent
              \/ \E kind \in scenario.kinds : sent' = Append(sent, [kind EXCEPT !.time = clock])
BY DEF CalcNext, calcVars, roundVars, RoundNext, RoundTick, Send

\* Every step keeps it.
LEMMA RoundInvNext == RoundInv /\ [CalcNext]_calcVars => RoundInv'
<1> SUFFICES ASSUME RoundInv, [CalcNext]_calcVars PROVE RoundInv'
  OBVIOUS
<1>1. scenario' = scenario
  BY RoundSteps
<1>2. WellFormed(scenario)'
  BY <1>1 DEF RoundInv, WellFormed
<1>3. sent' \in Seq(ToSet(sent'))
  <2>1. CASE sent' = sent
    BY <2>1 DEF RoundInv
  <2>2. CASE \E kind \in scenario.kinds : sent' = Append(sent, [kind EXCEPT !.time = clock])
    <3>1. PICK tx : sent' = Append(sent, tx)
      BY <2>2
    <3>2. sent \in Seq(ToSet(sent))
      BY DEF RoundInv
    <3>3. Append(sent, tx) \in Seq(ToSet(Append(sent, tx)))
      BY <3>2, LongerList
    <3> QED BY <3>1, <3>3
  <2> QED BY <2>1, <2>2, RoundSteps
<1>4. CandidatesCount'
  <2>1. CASE sent' = sent
    BY <2>1 DEF RoundInv, CandidatesCount
  <2>2. CASE \E kind \in scenario.kinds : sent' = Append(sent, [kind EXCEPT !.time = clock])
    <3>1. PICK kind \in scenario.kinds : sent' = Append(sent, [kind EXCEPT !.time = clock])
      BY <2>2
    <3>2. /\ {"time", "candidate"} \subseteq DOMAIN kind
          /\ kind.candidate \notin {Empty, Short, NoBits} => AsNumber(kind.candidate) \in Nat
      BY DEF RoundInv, WellFormed
    <3> DEFINE tx == [kind EXCEPT !.time = clock]
    <3>3. tx.candidate = kind.candidate
      BY <3>2
    <3> HIDE DEF tx
    <3>4. ASSUME NEW t \in ToSet(sent') PROVE t \in ToSet(sent) \/ t = tx
      <4>1. sent \in Seq(ToSet(sent)) /\ sent' = Append(sent, tx)
        BY <3>1 DEF RoundInv, tx
      <4>2. PICK i \in DOMAIN sent' : t = sent'[i]
        BY DEF ToSet
      <4>3. (i \in DOMAIN sent /\ t = sent[i]) \/ t = tx
        BY <4>1, <4>2
      <4> QED BY <4>3 DEF ToSet
    <3>5. \A t \in ToSet(sent) : t.candidate \notin {Empty, Short, NoBits} => AsNumber(t.candidate) \in Nat
      BY DEF RoundInv, CandidatesCount
    <3>6. tx.candidate \notin {Empty, Short, NoBits} => AsNumber(tx.candidate) \in Nat
      BY <3>2, <3>3
    <3> QED BY <3>4, <3>5, <3>6 DEF CandidatesCount
  <2> QED BY <2>1, <2>2, RoundSteps
<1> QED BY <1>2, <1>3, <1>4 DEF RoundInv

\* So it holds always.
LEMMA RoundInvariant == CalcSpec => []RoundInv
BY RoundInvInit, RoundInvNext, PTL DEF CalcSpec

\* Every wei offered for a round is claimed by somebody, and no more.
THEOREM OffersArePaid == CalcSpec => []OffersPaidOut
<1>1. RoundInv => OffersPaidOut
  BY PaidOut DEF RoundInv
<1> QED BY <1>1, RoundInvariant, PTL

\* What is taken as a penalty is burnt, and no wei lost or made up with it.
THEOREM PenaltiesAreKept == CalcSpec => []PenaltiesBurnt
<1>1. RoundInv => PenaltiesBurnt
  BY PenaltiesAreBurnt DEF RoundInv
<1> QED BY <1>1, RoundInvariant, PTL

-----------------------------------------------------------------------------
\* The clock shows seconds.
ClockInv == clock \in Nat

\* The clock counts seconds.
LEMMA ClockInvariant == CalcSpec => []ClockInv
<1>1. CalcInit => ClockInv
  BY ClockAssumption DEF CalcInit, RoundInit, RoundRests, ClockInv
<1>2. ClockInv /\ [CalcNext]_calcVars => ClockInv'
  <2> SUFFICES ASSUME ClockInv, [CalcNext]_calcVars PROVE ClockInv'
    OBVIOUS
  <2>1. clock' = clock \/ clock' = clock + 1
    BY DEF CalcNext, calcVars, roundVars, RoundNext, RoundTick, Send
  <2> QED BY <2>1 DEF ClockInv
<1> QED BY <1>1, <1>2, PTL DEF CalcSpec

\* What is sent is sent now.
LEMMA SentNow ==
    ASSUME RoundInv, [CalcNext]_calcVars, sent' # sent
    PROVE  \E x : x.time = clock /\ sent' = Append(sent, x)
<1>1. PICK kind \in scenario.kinds : sent' = Append(sent, [kind EXCEPT !.time = clock])
  BY RoundSteps
<1> DEFINE x == [kind EXCEPT !.time = clock]
<1>2. "time" \in DOMAIN kind
  BY DEF RoundInv, WellFormed
<1>3. x.time = clock
  BY <1>2
<1> HIDE DEF x
<1> QED BY <1>1, <1>3 DEF x

\* What is sent late changes no claim.
LEMMA LateStep ==
    ASSUME RewardedWindows = 0, RoundInv, ClockInv, [CalcNext]_calcVars, sent' # sent,
           clock > EpochEnd(1)
    PROVE  /\ RoundThrows(sent') <=> RoundThrows(sent)
           /\ RoundClaims(sent') = RoundClaims(sent)
<1>1. PICK x : x.time = clock /\ sent' = Append(sent, x)
  BY SentNow
<1>2. WindowEnd(0) = EpochEnd(1) /\ EpochEnd(1) \in Int
  BY ClockAssumption DEF WindowEnd, EpochEnd
<1>3. ~(x.time <= WindowEnd(0))
  BY <1>1, <1>2 DEF ClockInv
<1> DEFINE R == ToSet(sent) \cup {x}
<1>4. x \in R /\ sent \in Seq(R)
  <2>1. sent \in Seq(ToSet(sent)) /\ ToSet(sent) \subseteq R /\ x \in R
    BY DEF RoundInv
  <2> HIDE DEF R
  <2> QED BY <2>1
<1> HIDE DEF R
<1> DEFINE new == Append(sent, x)
<1>5. RoundClaims(new) = RoundClaims(sent) /\ (RoundThrows(new) <=> RoundThrows(sent))
  <2>1. new = Append(sent, x)
    OBVIOUS
  <2> HIDE DEF new
  <2> QED BY <1>3, <1>4, <2>1, LateIgnored
<1> QED BY <1>1, <1>5

\* Who finalized keeps what it is paid.
LEMMA KeepsShare ==
    ASSUME RoundInv, NEW x, NEW txs, txs = Append(sent, x), NEW protocol,
           ProtocolData(sent, protocol).first # Empty, NEW v \in DOMAIN policy
    PROVE  FinalizationPaid(txs, protocol, v) >= FinalizationPaid(sent, protocol, v)
<1> DEFINE R == ToSet(sent) \cup {x}
           Addresses == Beneficiaries(scenario, sent) \cup Beneficiaries(scenario, txs)
           To == Addresses \cup {ShareOfOffer.claimBack}
           before == ProtocolData(sent, protocol)
           after == ProtocolData(txs, protocol)
           S == scenario.finalizers
           E == DOMAIN policy
           paid(data) == Amount(Select(FinalizationClaims(policy, ShareOfOffer, 0, data.first,
                                             data.finalizations, S, E), LAMBDA c : c.to[2] = v))
<1>1. FinalizationPaid(txs, protocol, v) = paid(after) /\ FinalizationPaid(sent, protocol, v) = paid(before)
  BY DEF FinalizationPaid
<1>2. x \in R /\ sent \in Seq(R)
  <2>1. sent \in Seq(ToSet(sent)) /\ ToSet(sent) \subseteq R /\ x \in R
    BY DEF RoundInv
  <2> HIDE DEF R
  <2> QED BY <2>1
<1>3. /\ policy \in Seq(Voters) /\ S \in SUBSET E
      /\ HasAddresses(To, Len(policy)) /\ v \in 1..Len(policy) /\ Len(policy) \in Nat
  <2> DEFINE B == Beneficiaries(scenario, sent)
  <2>1. policy \in Seq(Voters) /\ HasAddresses(B, Len(policy)) /\ S \in SUBSET E
    BY ScenarioHas DEF RoundInv
  <2>2. B \subseteq To
    OBVIOUS
  <2> HIDE DEF B, To
  <2>3. HasAddresses(To, Len(policy))
    BY <2>1, <2>2 DEF HasAddresses
  <2>4. v \in 1..Len(policy) /\ Len(policy) \in Nat
    <3> HIDE DEF policy
    <3> QED BY <2>1
  <2> QED BY <2>1, <2>3, <2>4
<1>4. /\ ShareOfOffer.claimBack \in To /\ ShareOfOffer.amount \in Nat /\ ShareOfOffer.claimBack[2] # v
  <2>1. ShareOfOffer.claimBack \in To
    OBVIOUS
  <2>2. ShareOfOffer.claimBack[2] = 0 /\ ShareOfOffer.amount = 12
    BY DEF ShareOfOffer
  <2> QED BY <1>3, <2>1, <2>2
<1>5. FinalizedBy(Beneficiaries(scenario, sent), before) /\ FinalizedBy(Beneficiaries(scenario, txs), after)
  <2>1. sent \in Seq(ToSet(sent))
    BY DEF RoundInv
  <2>2. txs \in Seq(ToSet(txs))
    BY <2>1, LongerList
  <2> QED BY <2>1, <2>2, DataFinalized
<1>6. /\ AddsAtMost(after.finalizations, before.finalizations, x)
      /\ before.finalizations \in Seq(R)
      /\ before.first # Empty /\ after.first = before.first
  <2> HIDE DEF R, before, after
  <2>1. before = ProtocolData(sent, protocol) /\ after = ProtocolData(Append(sent, x), protocol)
    BY DEF before, after
  <2>2. before.first # Empty
    BY DEF before
  <2>3. x \in R /\ sent \in Seq(R)
    BY <1>2
  <2>4. AddsAtMost(after.finalizations, before.finalizations, x)
    BY ONLY <2>1, <2>3, FinalizationsAdd
  <2>5. before.finalizations \in Seq(R)
    BY ONLY <2>1, <2>3, FinalizationsAdd
  <2>6. before.first # Empty => after.first = before.first
    BY ONLY <2>1, <2>3, FinalizationsAdd
  <2> QED BY <2>2, <2>4, <2>5, <2>6
<1>7. after.finalizations \in Seq(R)
  <2> HIDE DEF R, before, after
  <2>1. x \in R /\ before.finalizations \in Seq(R)
        /\ AddsAtMost(after.finalizations, before.finalizations, x)
    BY <1>2, <1>6
  <2> QED BY ONLY <2>1, AddedIsList
<1>8. /\ SendersDistinct(before.finalizations) /\ SendersDistinct(after.finalizations)
      /\ <<"signing", before.first.sender>> \in To
  <2> HIDE DEF before, after
  <2> QED BY <1>5, <1>6 DEF FinalizedBy
<1> HIDE DEF before, after, S, To, R
<1> DEFINE offer == ShareOfOffer
           first == before.first
           old == before.finalizations
           new == after.finalizations
<1>9. /\ paid(before) = Amount(Select(FinalizationClaims(policy, offer, 0, first, old, S, E),
                                      LAMBDA c : c.to[2] = v))
      /\ paid(after) = Amount(Select(FinalizationClaims(policy, offer, 0, first, new, S, E),
                                     LAMBDA c : c.to[2] = v))
  BY <1>6
<1>10. /\ offer.claimBack \in To /\ offer.amount \in Nat /\ offer.claimBack[2] # v
       /\ first # Empty /\ E # {} /\ <<"signing", first.sender>> \in To
       /\ old \in Seq(R) /\ new \in Seq(R) /\ AddsAtMost(new, old, x)
       /\ SendersDistinct(old) /\ SendersDistinct(new)
  BY <1>4, <1>6, <1>7, <1>8
<1>11. CASE FinalizedOutsideGrace(0, first)
  <2> DEFINE claims == <<Claim(<<"signing", first.sender>>, "DIRECT", offer.amount)>>
             C == ClaimsTo(To)
  <2>1. /\ FinalizationClaims(policy, offer, 0, first, old, S, E) = claims
        /\ FinalizationClaims(policy, offer, 0, first, new, S, E) = claims
    BY <1>10, <1>11 DEF FinalizationClaims
  <2>2. claims \in Seq(C)
    <3>1. Claim(<<"signing", first.sender>>, "DIRECT", offer.amount) \in C
      BY <1>10 DEF Claim, ClaimsTo, ClaimTypes
    <3> QED BY <3>1
  <2> HIDE DEF claims, C, offer, first, old, new
  <2>3. Amount(Select(claims, LAMBDA c : c.to[2] = v)) = Weigh(PartOf(C, v), claims)
    BY <2>2, VoterPaid DEF C
  <2>4. Weigh(PartOf(C, v), claims) \in Int
    <3>1. PartOf(C, v) \in [C -> Int]
      BY PartsAre DEF C
    <3> QED BY <2>2, <3>1, WeighWhole
  <2>5. paid(before) = paid(after) /\ paid(before) \in Int
    BY <1>9, <2>1, <2>3, <2>4
  <2> QED BY <1>1, <2>5
<1>12. CASE ~FinalizedOutsideGrace(0, first)
  <2> DEFINE given == GraceParts(S, offer.amount)
             olds == RewardedOf(old, 0, S, E)
             news == RewardedOf(new, 0, S, E)
  <2> HIDE DEF offer, first, old, new
  <2>a. /\ policy \in Seq(Voters) /\ HasAddresses(To, Len(policy))
        /\ offer.claimBack \in To /\ offer.amount \in Nat
        /\ first # Empty /\ ~FinalizedOutsideGrace(0, first)
        /\ old \in Seq(R) /\ SendersDistinct(old) /\ new \in Seq(R) /\ SendersDistinct(new)
        /\ S \in SUBSET DOMAIN policy /\ E # {} /\ offer.claimBack[2] # v
    BY <1>3, <1>10, <1>12
  <2> HIDE DEF E
  <2>b. /\ CanSplit(To, policy, offer, olds, given)
        /\ PaidTo(FinalizationClaims(policy, offer, 0, first, old, S, E), v)
             = Weigh(PartOf(GiftsTo(To), v), FlattenSeq(SplitsOf(policy, offer, olds, given)))
    <3>1. SplitsCanBePaid(To, policy, offer, 0, first, R, old, S, E, v)
      BY <2>a DEF SplitsCanBePaid
    <3>2. SplitsArePaid(To, policy, offer, 0, first, R, old, S, E, v)
      BY ONLY <3>1, FinalizerPaid
    <3> QED BY <3>2 DEF SplitsArePaid, olds, given
  <2>c. /\ CanSplit(To, policy, offer, news, given)
        /\ PaidTo(FinalizationClaims(policy, offer, 0, first, new, S, E), v)
             = Weigh(PartOf(GiftsTo(To), v), FlattenSeq(SplitsOf(policy, offer, news, given)))
    <3>1. SplitsCanBePaid(To, policy, offer, 0, first, R, new, S, E, v)
      BY <2>a DEF SplitsCanBePaid
    <3>2. SplitsArePaid(To, policy, offer, 0, first, R, new, S, E, v)
      BY ONLY <3>1, FinalizerPaid
    <3> QED BY <3>2 DEF SplitsArePaid, news, given
  <2>1. /\ CanSplit(To, policy, offer, olds, given)
        /\ paid(before) = Weigh(PartOf(GiftsTo(To), v), FlattenSeq(SplitsOf(policy, offer, olds, given)))
    BY <1>9, <2>b DEF PaidTo
  <2>2. /\ CanSplit(To, policy, offer, news, given)
        /\ paid(after) = Weigh(PartOf(GiftsTo(To), v), FlattenSeq(SplitsOf(policy, offer, news, given)))
    BY <1>9, <2>c DEF PaidTo
  <2>3. AddsAtMost(news, olds, x) /\ olds \in Seq(R)
    BY <1>2, <1>10, RewardedAdds
  <2> HIDE DEF olds, news, given
  <2>4. Weigh(PartOf(GiftsTo(To), v), FlattenSeq(SplitsOf(policy, offer, news, given)))
          >= Weigh(PartOf(GiftsTo(To), v), FlattenSeq(SplitsOf(policy, offer, olds, given)))
    BY <1>2, <1>3, <2>2, <2>3, SplitsGrow
  <2> QED BY <1>1, <2>1, <2>2, <2>4
<1> QED BY <1>11, <1>12

\* Whatever comes later does no harm.
THEOREM LaterDoesNoHarm ==
    ASSUME RewardedWindows = 0
    PROVE  CalcSpec => LaterIsHarmless
<1>1. RoundInv /\ ClockInv /\ [CalcNext]_calcVars
        => [clock > EpochEnd(1) /\ ~RoundThrows(sent) =>
               /\ ~RoundThrows(sent')
               /\ RoundClaims(sent') = RoundClaims(sent)]_sent
  BY LateStep
<1>2. RoundInv /\ ClockInv /\ [CalcNext]_calcVars
        => [\A protocol \in {Ftso, Fdc} : ProtocolData(sent, protocol).first # Empty =>
               \A v \in DOMAIN policy :
                   FinalizationPaid(sent', protocol, v) >= FinalizationPaid(sent, protocol, v)]_sent
  <2> SUFFICES ASSUME RoundInv, [CalcNext]_calcVars, sent' # sent, NEW protocol \in {Ftso, Fdc},
                      ProtocolData(sent, protocol).first # Empty, NEW v \in DOMAIN policy
               PROVE  FinalizationPaid(sent', protocol, v) >= FinalizationPaid(sent, protocol, v)
    OBVIOUS
  <2>1. PICK x : sent' = Append(sent, x)
    BY SentNow
  <2> DEFINE txs == Append(sent, x)
  <2>2. txs = Append(sent, x)
    OBVIOUS
  <2> HIDE DEF txs
  <2>3. FinalizationPaid(txs, protocol, v) >= FinalizationPaid(sent, protocol, v)
    BY <2>2, KeepsShare
  <2> QED BY <2>1, <2>2, <2>3
<1> QED BY <1>1, <1>2, RoundInvariant, ClockInvariant, PTL
        DEF CalcSpec, LaterIsHarmless, LateTransactionsIgnored, FinalizersKeepShare

-----------------------------------------------------------------------------
(* Claims of an epoch *)

\* The inputs stay as they are.
InputInv == input \in Inputs \cup {NoInput}

\* An input is one of those given, or none.
LEMMA InputInvariant == CalcSpec => []InputInv
<1>1. CalcInit => InputInv
  BY DEF CalcInit, InputInv
<1>2. InputInv /\ [CalcNext]_calcVars => InputInv'
  BY DEF InputInv, CalcNext, calcVars
<1> QED BY <1>1, <1>2, PTL DEF CalcSpec

\* The addresses of claims.
AddressesOf(claims) == {c.to : c \in ToSet(claims)} \cup {BurnAddress}

\* Claims that are made are claims to their addresses, and none of the voter 1
\* is of a kind that stays with it.
LEMMA MadeAre ==
    ASSUME NEW claims, MadeClaims(claims)
    PROVE  /\ claims \in Seq(ClaimsTo(AddressesOf(claims)))
           /\ \A a \in AddressesOf(claims) :
                 a = BurnAddress \/ a[1] \in {"identity", "delegation", "node"} \/ a[2] # 1
<1> DEFINE R == ToSet(claims)
           To == AddressesOf(claims)
<1>1. \A c \in R : c \in ClaimsTo(To)
  <2> SUFFICES ASSUME NEW c \in R PROVE c \in ClaimsTo(To)
    OBVIOUS
  <2>1. /\ c = Claim(c.to, c.type, c.amount) /\ c.amount \in Int
        /\ c.type \in {"DIRECT", "FEE", "WNAT", "MIRROR"}
    BY DEF MadeClaims
  <2>2. c.to \in To
    BY DEF AddressesOf
  <2>3. c.type \in ClaimTypes
    BY <2>1 DEF ClaimTypes
  <2> HIDE DEF R, To
  <2> QED BY <2>1, <2>2, <2>3 DEF Claim, ClaimsTo
<1>2. claims \in Seq(R)
  BY DEF MadeClaims
<1>3. \A a \in To : a = BurnAddress \/ a[1] \in {"identity", "delegation", "node"} \/ a[2] # 1
  BY DEF AddressesOf, MadeClaims
<1> HIDE DEF R, To
<1>4. R \subseteq ClaimsTo(To)
  BY <1>1
<1>5. claims \in Seq(ClaimsTo(To))
  BY <1>2, <1>4
<1> QED BY <1>3, <1>5 DEF To

\* Claims are merged in any pieces.
LEMMA PiecesMerge ==
    ASSUME NEW To, NEW claims \in Seq(ClaimsTo(To)), input.claims = claims
    PROVE  ClaimsMerged
<1> DEFINE merged(k) == Merge(Merge(SubSeq(claims, 1, k)) \o SubSeq(claims, k + 1, Len(claims)))
           Right(k) == /\ merged(k) = Merge(claims)
                       /\ \A c \in ToSet(claims \o merged(k)) :
                             /\ Amount(OfKey(merged(k), Key(c))) = Amount(OfKey(claims, Key(c)))
                             /\ Len(OfKey(merged(k), Key(c))) = 1
<1>1. ASSUME NEW k \in 0..Len(claims)
      PROVE  Right(k)
  <2> DEFINE m == merged(k)
  <2>1. m = Merge(Merge(SubSeq(claims, 1, k)) \o SubSeq(claims, k + 1, Len(claims)))
    OBVIOUS
  <2> HIDE DEF m
  <2>2. /\ m = Merge(claims)
        /\ \A c \in ToSet(claims \o m) :
              /\ Amount(OfKey(m, Key(c))) = Amount(OfKey(claims, Key(c)))
              /\ Len(OfKey(m, Key(c))) = 1
    BY <2>1, MergedInPieces
  <2> QED BY <2>2 DEF m
<1>2. (\A k \in 0..Len(claims) : Right(k)) => ClaimsMerged
  BY DEF ClaimsMerged, Key
<1> QED BY <1>1, <1>2

-----------------------------------------------------------------------------
\* What goes to be burnt, what is kept, and what is of others, of a list.
Gone(list) == Select(list, LAMBDA c : ToBurn({1}, c))
Kept(list) == Select(list, LAMBDA c : ~ToBurn({1}, c))
OfOthers(list) == Select(list, LAMBDA c : c.to # BurnAddress /\ c.to[2] # 1)

IsOther(c) == c.to # BurnAddress /\ c.to[2] # 1

\* One claim more.
LEMMA OneClaimMore ==
    ASSUME NEW R, NEW list \in Seq(R), NEW x \in R
    PROVE  /\ Gone(Append(list, x)) = IF ToBurn({1}, x) THEN Append(Gone(list), x) ELSE Gone(list)
           /\ Kept(Append(list, x)) = IF ToBurn({1}, x) THEN Kept(list) ELSE Append(Kept(list), x)
           /\ OfOthers(Append(list, x)) = IF IsOther(x) THEN Append(OfOthers(list), x) ELSE OfOthers(list)
<1> DEFINE new == Append(list, x)
           n == Len(list)
           goneOf(l) == {i \in DOMAIN l : ToBurn({1}, l[i])}
           keptOf(l) == {i \in DOMAIN l : ~ToBurn({1}, l[i])}
           othersOf(l) == {i \in DOMAIN l : IsOther(l[i])}
<1>1. /\ \A l : Gone(l) = Picked(l, goneOf(l))
      /\ \A l : Kept(l) = Picked(l, keptOf(l))
      /\ \A l : OfOthers(l) = Picked(l, othersOf(l))
  BY DEF Gone, Kept, OfOthers, IsOther, Select
<1>2. /\ n \in Nat /\ DOMAIN list = 1..n /\ DOMAIN new = 1..(n + 1)
      /\ new[n + 1] = x /\ n + 1 \in DOMAIN new
      /\ \A i \in 1..n : new[i] = list[i] /\ i \in DOMAIN new
  OBVIOUS
<1> HIDE DEF new, n
<1>3. \A i \in 1..n : /\ i \in goneOf(new) <=> i \in goneOf(list)
                      /\ i \in keptOf(new) <=> i \in keptOf(list)
                      /\ i \in othersOf(new) <=> i \in othersOf(list)
  BY <1>2
<1>4. /\ n + 1 \in goneOf(new) <=> ToBurn({1}, x)
      /\ n + 1 \in keptOf(new) <=> ~ToBurn({1}, x)
      /\ n + 1 \in othersOf(new) <=> IsOther(x)
  BY <1>2
<1> DEFINE gone == goneOf(list)
           kept == keptOf(list)
           others == othersOf(list)
           newGone == goneOf(new)
           newKept == keptOf(new)
           newOthers == othersOf(new)
<1>5. /\ Gone(list) = Picked(list, gone) /\ Gone(new) = Picked(new, newGone)
      /\ Kept(list) = Picked(list, kept) /\ Kept(new) = Picked(new, newKept)
      /\ OfOthers(list) = Picked(list, others) /\ OfOthers(new) = Picked(new, newOthers)
  BY <1>1
<1>6. \A i \in 1..n : /\ i \in newGone <=> i \in gone
                      /\ i \in newKept <=> i \in kept
                      /\ i \in newOthers <=> i \in others
  BY <1>3
<1>7. /\ n + 1 \in newGone <=> ToBurn({1}, x)
      /\ n + 1 \in newKept <=> ~ToBurn({1}, x)
      /\ n + 1 \in newOthers <=> IsOther(x)
  BY <1>4
<1> HIDE DEF gone, kept, others, newGone, newKept, newOthers, goneOf, keptOf, othersOf
<1>8. Picked(new, newGone) = IF n + 1 \in newGone THEN Append(Picked(list, gone), x) ELSE Picked(list, gone)
  BY <1>6, PickedAppend DEF new, n
<1>9. Picked(new, newKept) = IF n + 1 \in newKept THEN Append(Picked(list, kept), x) ELSE Picked(list, kept)
  BY <1>6, PickedAppend DEF new, n
<1>10. Picked(new, newOthers)
          = IF n + 1 \in newOthers THEN Append(Picked(list, others), x) ELSE Picked(list, others)
  BY <1>6, PickedAppend DEF new, n
<1> QED BY <1>5, <1>7, <1>8, <1>9, <1>10 DEF new

\* Nothing of nothing.
LEMMA NoClaims == Gone(<<>>) = <<>> /\ Kept(<<>>) = <<>> /\ OfOthers(<<>>) = <<>>
<1> DEFINE e == {}
<1>1. DOMAIN <<>> = {} /\ <<>> \in Seq({})
  OBVIOUS
<1>2. \A S : Picked(<<>>, S) = <<>>
  <2> SUFFICES ASSUME NEW S PROVE Picked(<<>>, S) = <<>>
    OBVIOUS
  <2>1. \E v \in [0..Len(<<>>) -> Seq({})] : PickSteps(v, <<>>, S) /\ Picked(<<>>, S) = v[Len(<<>>)]
    BY <1>1, PickedSteps
  <2> QED BY <2>1 DEF PickSteps
<1> QED BY <1>2 DEF Gone, Kept, OfOthers, Select

\* Claims to burn and to keep make up the list; others' claims are all kept.
Parted(To, b, list) ==
    /\ Gone(list) \in Seq(ClaimsTo(To)) /\ Kept(list) \in Seq(ClaimsTo(To))
    /\ Amount(Gone(list)) + Amount(Kept(list)) = Amount(list)
    /\ OfOthers(<<b>> \o Kept(list)) = OfOthers(list)

\* What one claim more adds.
LEMMA AmountAppend ==
    ASSUME NEW To, NEW list \in Seq(ClaimsTo(To)), NEW x \in ClaimsTo(To)
    PROVE  /\ Append(list, x) \in Seq(ClaimsTo(To)) /\ Amount(list) \in Int /\ x.amount \in Int
           /\ Amount(Append(list, x)) = Amount(list) + x.amount
<1> DEFINE R == ClaimsTo(To)
           W == AmountsOf(R)
<1>1. W \in [R -> Int] /\ W[x] = x.amount
  BY WeightsKept DEF AmountsOf
<1>2. x.amount \in Int
  BY DEF ClaimsTo
<1> HIDE DEF W, R
<1>3. list \in Seq(R) /\ x \in R
  BY DEF R
<1>4. Append(list, x) \in Seq(R) /\ Weigh(W, Append(list, x)) = Weigh(W, list) + W[x]
  BY <1>1, <1>3, WeighAppend
<1>5. Amount(list) = Weigh(W, list) /\ Amount(list) \in Int
  BY AmountIs DEF R, W
<1>6. Amount(Append(list, x)) = Weigh(W, Append(list, x))
  BY <1>4, AmountIs DEF R, W
<1> QED BY <1>1, <1>2, <1>4, <1>5, <1>6 DEF R

\* One claim more leaves it so.
LEMMA PartedStep ==
    ASSUME NEW To, NEW b \in ClaimsTo(To), b.to = BurnAddress,
           NEW list \in Seq(ClaimsTo(To)), NEW x \in ClaimsTo(To), Parted(To, b, list)
    PROVE  Parted(To, b, Append(list, x))
<1> DEFINE R == ClaimsTo(To)
           new == Append(list, x)
           gone == Gone(list)
           kept == Kept(list)
<1>1. /\ Gone(new) = IF ToBurn({1}, x) THEN Append(gone, x) ELSE gone
      /\ Kept(new) = IF ToBurn({1}, x) THEN kept ELSE Append(kept, x)
      /\ OfOthers(new) = IF IsOther(x) THEN Append(OfOthers(list), x) ELSE OfOthers(list)
  BY OneClaimMore
<1>2. IsOther(x) => ~ToBurn({1}, x)
  BY DEF IsOther, ToBurn
<1>3. /\ gone \in Seq(R) /\ kept \in Seq(R) /\ Amount(gone) + Amount(kept) = Amount(list)
      /\ OfOthers(<<b>> \o kept) = OfOthers(list)
  BY DEF Parted
<1> HIDE DEF gone, kept
<1>4. Append(gone, x) \in Seq(R) /\ Amount(gone) \in Int /\ Amount(Append(gone, x)) = Amount(gone) + x.amount
  BY <1>3, AmountAppend
<1>5. Append(kept, x) \in Seq(R) /\ Amount(kept) \in Int /\ Amount(Append(kept, x)) = Amount(kept) + x.amount
  BY <1>3, AmountAppend
<1>6. x.amount \in Int /\ Amount(new) = Amount(list) + x.amount
  BY AmountAppend
<1> DEFINE cons == <<b>> \o kept
<1>7. <<b>> \o Append(kept, x) = Append(cons, x) /\ cons \in Seq(R)
  <2> HIDE DEF R
  <2>1. b \in R /\ x \in R
    BY DEF R
  <2> QED BY <1>3, <2>1
<1> HIDE DEF cons
<1>8. OfOthers(Append(cons, x)) = IF IsOther(x) THEN Append(OfOthers(cons), x) ELSE OfOthers(cons)
  BY <1>7, OneClaimMore
<1>9. OfOthers(cons) = OfOthers(list)
  BY <1>3 DEF cons
<1> HIDE DEF new
<1>10. CASE ToBurn({1}, x)
  <2>1. Gone(new) = Append(gone, x) /\ Kept(new) = kept /\ OfOthers(new) = OfOthers(list)
    BY <1>1, <1>2, <1>10
  <2>2. Amount(Gone(new)) + Amount(Kept(new)) = Amount(new)
    BY <1>3, <1>4, <1>5, <1>6, <2>1
  <2>3. OfOthers(<<b>> \o Kept(new)) = OfOthers(new)
    BY <1>9, <2>1 DEF cons
  <2> QED BY <1>3, <1>4, <2>1, <2>2, <2>3 DEF Parted, new
<1>11. CASE ~ToBurn({1}, x)
  <2>1. Gone(new) = gone /\ Kept(new) = Append(kept, x)
    BY <1>1, <1>11
  <2>2. Amount(Gone(new)) + Amount(Kept(new)) = Amount(new)
    BY <1>3, <1>4, <1>5, <1>6, <2>1
  <2>3. OfOthers(<<b>> \o Kept(new)) = OfOthers(new)
    <3>1. <<b>> \o Kept(new) = Append(cons, x)
      BY <1>7, <2>1
    <3>2. OfOthers(new) = IF IsOther(x) THEN Append(OfOthers(list), x) ELSE OfOthers(list)
      BY <1>1
    <3>3. OfOthers(Append(cons, x)) = OfOthers(new)
      BY ONLY <1>8, <1>9, <3>2
    <3> QED BY ONLY <3>1, <3>3
  <2> QED BY <1>3, <1>5, <2>1, <2>2, <2>3 DEF Parted, new
<1> QED BY <1>10, <1>11

\* So it is for every list.
LEMMA AllParted ==
    ASSUME NEW To, NEW b \in ClaimsTo(To), b.to = BurnAddress, NEW list \in Seq(ClaimsTo(To))
    PROVE  Parted(To, b, list)
<1> DEFINE n == Len(list)
           R == ClaimsTo(To)
           p(k) == SubSeq(list, 1, k)
           T == {k \in 0..n : Parted(To, b, p(k))}
<1>1. n \in Nat /\ n \in 0..n /\ 0 \in 0..n
  OBVIOUS
<1>2. p(0) = <<>> /\ p(n) = list
  BY PrefixEnds
<1>3. Parted(To, b, <<>>)
  <2>1. <<b>> \o <<>> = Append(<<>>, b) /\ <<>> \in Seq(R) /\ b \in R
    OBVIOUS
  <2> HIDE DEF R
  <2>2. OfOthers(Append(<<>>, b)) = OfOthers(<<>>)
    BY <2>1, OneClaimMore DEF IsOther
  <2>3. Amount(<<>>) = 0
    <3> DEFINE W == AmountsOf(ClaimsTo(To))
    <3>1. <<>> \in Seq(ClaimsTo(To))
      OBVIOUS
    <3>2. Amount(<<>>) = Weigh(W, <<>>)
      BY <3>1, AmountIs
    <3> HIDE DEF W
    <3> QED BY <3>2, WeighEmpty
  <2>4. Gone(<<>>) = <<>> /\ Kept(<<>>) = <<>> /\ OfOthers(<<>>) = <<>>
    BY NoClaims
  <2>5. OfOthers(<<b>> \o Kept(<<>>)) = OfOthers(<<>>)
    BY <2>1, <2>2, <2>4
  <2>6. Amount(Gone(<<>>)) + Amount(Kept(<<>>)) = Amount(<<>>)
    BY <2>3, <2>4
  <2> QED BY <2>1, <2>4, <2>5, <2>6 DEF Parted, R
<1> HIDE DEF p
<1>4. 0 \in T
  BY <1>1, <1>2, <1>3
<1>5. ASSUME NEW k \in 1..n, k - 1 \in T
      PROVE  k \in T
  <2>1. k \in 0..n /\ Parted(To, b, p(k - 1))
    BY <1>1, <1>5
  <2>2. p(k - 1) \in Seq(R) /\ list[k] \in R /\ p(k) = Append(p(k - 1), list[k])
    BY PrefixStep DEF p
  <2>3. Parted(To, b, Append(p(k - 1), list[k]))
    <3> DEFINE q == p(k - 1)
               x == list[k]
    <3>1. q \in Seq(ClaimsTo(To)) /\ x \in ClaimsTo(To) /\ Parted(To, b, q)
      BY <2>1, <2>2
    <3> HIDE DEF q, x
    <3>2. Parted(To, b, Append(q, x))
      BY <3>1, PartedStep
    <3> QED BY <3>2 DEF q, x
  <2> QED BY <2>1, <2>2, <2>3
<1>6. n \in T
  <2> HIDE DEF T, n
  <2>1. \A k \in 0..n : k \in T
    BY <1>1, <1>4, <1>5, StepByStep
  <2> QED BY <1>1, <2>1
<1> QED BY <1>2, <1>6

-----------------------------------------------------------------------------
\* Addresses of the voter 1 are those of its claims.
OwnAddresses(To) ==
    \A a \in To : a = BurnAddress \/ a[1] \in {"identity", "delegation", "node"} \/ a[2] # 1

\* What is kept is of others: a claim for every address and type of theirs.
LEMMA KeptAre ==
    ASSUME NEW To, OwnAddresses(To), NEW list \in MergedTo(To),
           \A i \in DOMAIN list : list[i].amount >= 0
    PROVE  /\ \A i, j \in DOMAIN Kept(list) :
                 Kept(list)[i].to = Kept(list)[j].to /\ Kept(list)[i].type = Kept(list)[j].type => i = j
           /\ \A i \in DOMAIN Kept(list) : Kept(list)[i].to # BurnAddress /\ Kept(list)[i].to[2] # 1
           /\ ToSet(Kept(list)) = ToSet(OfOthers(list))
<1> DEFINE indices == {i \in DOMAIN list : ~ToBurn({1}, list[i])}
           others == {i \in DOMAIN list : list[i].to # BurnAddress /\ list[i].to[2] # 1}
           kept == Picked(list, indices)
<1>1. Kept(list) = kept /\ OfOthers(list) = Picked(list, others)
  BY DEF Kept, OfOthers, Select
<1>2. list \in Seq(ClaimsTo(To)) /\ DistinctKeys(list)
  BY DEF MergedTo
<1>3. indices = others
  <2> SUFFICES ASSUME NEW i \in DOMAIN list
               PROVE  ~ToBurn({1}, list[i]) <=> list[i].to # BurnAddress /\ list[i].to[2] # 1
    OBVIOUS
  <2>1. list[i].to \in To
    <3>1. list[i] \in ClaimsTo(To)
      BY <1>2
    <3> QED BY <3>1 DEF ClaimsTo
  <2> DEFINE a == list[i].to
  <2>2. a = BurnAddress \/ a[1] \in {"identity", "delegation", "node"} \/ a[2] # 1
    BY <2>1 DEF OwnAddresses
  <2>3. ToBurn({1}, list[i]) <=> a = BurnAddress
                                 \/ (a[1] \in {"identity", "delegation", "node"} /\ a[2] = 1)
    BY DEF ToBurn
  <2> HIDE DEF a
  <2>4. ~ToBurn({1}, list[i]) <=> a # BurnAddress /\ a[2] # 1
    BY <2>2, <2>3
  <2> QED BY <2>4 DEF a
<1>4. /\ kept \in Seq(ClaimsTo(To))
      /\ \A k \in DOMAIN kept : \E i \in DOMAIN list : i \in indices /\ kept[k] = list[i]
  <2> HIDE DEF indices
  <2> QED BY <1>2, PickedElements
<1>5. DistinctKeys(kept)
  <2> HIDE DEF indices
  <2> QED BY <1>2, PickedDistinct
<1>6. \A k \in DOMAIN kept : /\ kept[k].to # BurnAddress /\ kept[k].to[2] # 1
                             /\ kept[k].amount >= 0 /\ kept[k] \in ClaimsTo(To)
  <2>1. \A i \in indices : list[i].to # BurnAddress /\ list[i].to[2] # 1
    BY <1>3
  <2> HIDE DEF indices, others, kept
  <2> QED BY <1>4, <2>1
<1> HIDE DEF kept
<1>7. ASSUME NEW i \in DOMAIN kept, NEW j \in DOMAIN kept,
             kept[i].to = kept[j].to, kept[i].type = kept[j].type
      PROVE  i = j
  <2>1. kept[i].amount \in Int /\ kept[j].amount \in Int
    BY <1>6 DEF ClaimsTo
  <2>2. ~(kept[i].amount < 0) /\ ~(kept[j].amount < 0)
    BY <1>6, <2>1
  <2>3. Key(kept[i]) = Key(kept[j])
    BY <1>7, <2>2 DEF Key
  <2> QED BY <1>5, <2>3 DEF DistinctKeys
<1>8. ToSet(kept) = ToSet(OfOthers(list))
  BY <1>1, <1>3 DEF kept
<1> HIDE DEF indices, others
<1> QED BY <1>1, <1>6, <1>7, <1>8

\* The claims of the ineligible are burnt, all others stay.
LEMMA IneligibleAreBurnt ==
    ASSUME NEW claims, MadeClaims(claims), input.claims = claims
    PROVE  IneligibleBurnt
<1> DEFINE To == AddressesOf(claims)
           list == MergeWithBurn(Merge(claims))
           new == BurnIneligible(list, {1})
           b == Claim(BurnAddress, "DIRECT", Amount(Gone(list)))
           kept == Kept(list)
           R == ClaimsTo(To)
<1>1. claims \in Seq(ClaimsTo(To)) /\ BurnAddress \in To /\ OwnAddresses(To)
  BY MadeAre DEF OwnAddresses, AddressesOf
<1> HIDE DEF To
<1>2. list \in MergedTo(To) /\ \A i \in DOMAIN list : list[i].amount >= 0
  <2>1. Merge(claims) \in MergedTo(To)
    BY <1>1, MergeKeeps
  <2> QED BY <1>1, <2>1, BurntAndMerged
<1> HIDE DEF list
<1>4. list \in Seq(R)
  BY <1>2 DEF MergedTo
<1>5. new = <<b>> \o kept
  BY DEF BurnIneligible, Gone, Kept
<1> HIDE DEF R
<1>6. b \in R /\ b.to = BurnAddress
  <2>1. Parted(To, Claim(BurnAddress, "DIRECT", 0), list)
    <3>1. Claim(BurnAddress, "DIRECT", 0) \in ClaimsTo(To) /\ Claim(BurnAddress, "DIRECT", 0).to = BurnAddress
      BY <1>1 DEF Claim, ClaimsTo, ClaimTypes
    <3> QED BY <1>4, <3>1, AllParted DEF R
  <2>2. Amount(Gone(list)) \in Int
    BY <2>1, AmountIs DEF Parted
  <2> QED BY <1>1, <2>2 DEF Claim, ClaimsTo, ClaimTypes, R
<1>7. b.amount = Amount(Gone(list))
  BY DEF Claim
<1> HIDE DEF b
<1>8. /\ Gone(list) \in Seq(R) /\ kept \in Seq(R) /\ Amount(Gone(list)) + Amount(kept) = Amount(list)
      /\ OfOthers(<<b>> \o kept) = OfOthers(list)
  <2>1. Parted(To, b, list)
    BY <1>4, <1>6, AllParted DEF R
  <2> QED BY <2>1 DEF Parted, R
<1>9. /\ \A i, j \in DOMAIN kept : kept[i].to = kept[j].to /\ kept[i].type = kept[j].type => i = j
      /\ \A i \in DOMAIN kept : kept[i].to # BurnAddress /\ kept[i].to[2] # 1
      /\ ToSet(kept) = ToSet(OfOthers(list))
  BY <1>1, <1>2, KeptAre
<1> HIDE DEF kept
<1>10. /\ DOMAIN new = 1..(Len(kept) + 1) /\ Len(kept) \in Nat /\ DOMAIN kept = 1..Len(kept)
       /\ new[1] = b /\ \A i \in 2..(Len(kept) + 1) : new[i] = kept[i - 1] /\ i - 1 \in DOMAIN kept
       /\ new \in Seq(R)
  <2> HIDE DEF new
  <2>1. b \in R /\ kept \in Seq(R) /\ new = <<b>> \o kept
    BY <1>5, <1>6, <1>8
  <2> DEFINE n == Len(kept)
  <2>2. n \in Nat /\ DOMAIN kept = 1..n
    BY <2>1
  <2>3. new \in Seq(R) /\ Len(new) = n + 1 /\ new[1] = b
    BY <2>1
  <2>4. DOMAIN new = 1..(n + 1)
    BY <2>2, <2>3
  <2>5. \A i \in 2..(n + 1) : new[i] = kept[i - 1]
    BY <2>1, <2>2
  <2>6. \A i \in 2..(n + 1) : i - 1 \in 1..n
    BY <2>2
  <2> QED BY <2>2, <2>3, <2>4, <2>5, <2>6
<1> HIDE DEF new
<1>11. ASSUME NEW i \in DOMAIN new, NEW j \in DOMAIN new, i # j, new[i].to = new[j].to
       PROVE  /\ i - 1 \in DOMAIN kept /\ new[i] = kept[i - 1]
              /\ j - 1 \in DOMAIN kept /\ new[j] = kept[j - 1]
              /\ new[i].type # new[j].type
  <2>1. \A k \in DOMAIN new : k = 1 \/ k \in 2..(Len(kept) + 1)
    BY <1>10
  <2>2. \A k \in 2..(Len(kept) + 1) : new[k].to # BurnAddress
    BY <1>9, <1>10
  <2>3. i # 1 /\ j # 1
    BY <1>6, <1>10, <1>11, <2>1, <2>2
  <2>4. i \in 2..(Len(kept) + 1) /\ j \in 2..(Len(kept) + 1)
    BY <2>1, <2>3
  <2>5. i - 1 # j - 1
    BY <1>11, <2>4
  <2> QED BY <1>9, <1>10, <1>11, <2>4, <2>5
<1>12. ASSUME NEW m \in DOMAIN kept
       PROVE  m + 1 \in DOMAIN new /\ new[m + 1] = kept[m]
  <2>1. m + 1 \in 2..(Len(kept) + 1) /\ (m + 1) - 1 = m
    BY <1>10
  <2> QED BY <1>10, <2>1
<1>13. BurnIneligibleThrows(list, {1}) <=>
          \E c, d \in ToSet(OfOthers(list)) : c.to = d.to /\ c.type # d.type
  <2>1. ASSUME NEW i \in DOMAIN new, NEW j \in DOMAIN new, i # j, new[i].to = new[j].to
        PROVE  \E c, d \in ToSet(kept) : c.to = d.to /\ c.type # d.type
    BY <1>11, <2>1 DEF ToSet
  <2>2. ASSUME NEW c \in ToSet(kept), NEW d \in ToSet(kept), c.to = d.to, c.type # d.type
        PROVE  \E i, j \in DOMAIN new : i # j /\ new[i].to = new[j].to
    <3>1. PICK m \in DOMAIN kept, n \in DOMAIN kept : kept[m] = c /\ kept[n] = d
      BY DEF ToSet
    <3>2. /\ m + 1 \in DOMAIN new /\ new[m + 1] = c
          /\ n + 1 \in DOMAIN new /\ new[n + 1] = d
      BY <1>12, <3>1
    <3>3. m + 1 # n + 1
      BY <2>2, <3>2
    <3> QED BY <2>2, <3>2, <3>3
  <2>3. BurnIneligibleThrows(list, {1}) <=> \E i, j \in DOMAIN new : i # j /\ new[i].to = new[j].to
    BY DEF BurnIneligibleThrows, new
  <2>4. ToSet(kept) = ToSet(OfOthers(list))
    BY <1>9
  <2> QED BY <2>1, <2>2, <2>3, <2>4
<1>14. ~ClaimTreeThrows(new)
  <2>1. ASSUME NEW i \in DOMAIN new, NEW j \in DOMAIN new, new[i] = new[j]
        PROVE  i = j
    BY <1>11, <2>1
  <2> QED BY <2>1 DEF ClaimTreeThrows, IsInjective
<1>15. Amount(new) = Amount(list)
  <2> DEFINE W == AmountsOf(R)
  <2>1. W \in [R -> Int] /\ W[b] = b.amount
    BY <1>6, WeightsKept DEF AmountsOf, R
  <2> HIDE DEF W
  <2>2. <<b>> \in Seq(R) /\ Weigh(W, <<b>>) = W[b]
    BY <1>6, <2>1, WeighOne
  <2>3. Weigh(W, <<b>> \o kept) = Weigh(W, <<b>>) + Weigh(W, kept)
    BY <1>8, <2>1, <2>2, WeighConcat
  <2>4. Amount(new) = Weigh(W, new)
    BY <1>10, AmountIs DEF R, W
  <2>5. Amount(kept) = Weigh(W, kept)
    BY <1>8, AmountIs DEF R, W
  <2> QED BY <1>5, <1>7, <1>8, <2>1, <2>2, <2>3, <2>4, <2>5
<1>16. OfOthers(new) = OfOthers(list)
  BY <1>5, <1>8
<1>17. \A c \in ToSet(new) : c.to[2] # 1 \/ c.to = BurnAddress
  <2> SUFFICES ASSUME NEW i \in DOMAIN new PROVE new[i].to[2] # 1 \/ new[i].to = BurnAddress
    BY DEF ToSet
  <2>1. CASE i = 1
    BY <1>6, <1>10, <2>1
  <2>2. CASE i # 1
    <3>1. i \in 2..(Len(kept) + 1)
      BY <1>10, <2>2
    <3> QED BY <1>9, <1>10, <3>1
  <2> QED BY <2>1, <2>2
<1> QED BY <1>13, <1>14, <1>15, <1>16, <1>17 DEF IneligibleBurnt, OfOthers, list, new

\* From the claims of a round to those of an epoch nothing is lost or made up.
THEOREM ClaimsAreConserved == CalcSpec => []ClaimsConserved
<1>1. RoundInv => PenaltiesBurnt
  BY PenaltiesAreBurnt DEF RoundInv
<1>2. InputInv => ClaimsMerged /\ IneligibleBurnt
  <2> SUFFICES ASSUME InputInv PROVE ClaimsMerged /\ IneligibleBurnt
    OBVIOUS
  <2>1. CASE input.subject # "claims"
    BY <2>1 DEF ClaimsMerged, IneligibleBurnt
  <2>2. CASE input.subject = "claims"
    <3>1. input \in Inputs
      BY <2>2 DEF InputInv, NoInput
    <3>2. MadeClaims(input.claims)
      BY <2>2, <3>1, ClaimsAssumption
    <3>3. PICK claims : claims = input.claims
      OBVIOUS
    <3>4. claims \in Seq(ClaimsTo(AddressesOf(claims)))
      BY <3>2, <3>3, MadeAre
    <3> QED BY <3>2, <3>3, <3>4, PiecesMerge, IneligibleAreBurnt
  <2> QED BY <2>1, <2>2
<1> QED BY <1>1, <1>2, RoundInvariant, InputInvariant, PTL DEF ClaimsConserved

-----------------------------------------------------------------------------
(* The search of an epoch *)

\* What holds at the head of the loop: low has started by the round, high (if it
\* is in the list) has not; and when the loop is left, they are neighbours.
LoopInv ==
    /\ TypeOK
    /\ low < high
    /\ startVotingRoundIds[low] <= votingRoundId
    /\ high <= Len(startVotingRoundIds) => votingRoundId < startVotingRoundIds[high]
    /\ votingRoundId < startVotingRoundIds[Len(startVotingRoundIds)]
    /\ done => high = low + 1

LEMMA InitLoopInv == Init => LoopInv
<1> SUFFICES ASSUME Init PROVE LoopInv
  OBVIOUS
<1> DEFINE list == startVotingRoundIds
<1>1. list \in Seq(Nat) /\ Len(list) \in Nat /\ Len(list) >= 2
  BY ListsAssumption DEF Init
<1>2. list[1] \in Nat /\ list[Len(list)] \in Nat
  BY <1>1
<1>3. votingRoundId \in list[1]..(list[Len(list)] - 1)
  BY DEF Init
<1> HIDE DEF list
<1>4. \A a, b \in Nat : \A v \in a..(b - 1) : v \in Nat /\ a <= v /\ v < b
  OBVIOUS
<1>5. votingRoundId \in Nat /\ list[1] <= votingRoundId /\ votingRoundId < list[Len(list)]
  BY <1>2, <1>3, <1>4, Zenon
<1>6. list \in Lists /\ low = 1 /\ high = Len(list) + 1 /\ done = FALSE
  BY DEF Init, list
<1>7. low \in 1..Len(list) /\ high \in 1..(Len(list) + 1)
  BY <1>1, <1>6
<1>8. TypeOK
  BY <1>5, <1>6, <1>7 DEF TypeOK, list
<1>9. low < high /\ list[low] <= votingRoundId /\ ~(high <= Len(list)) /\ ~done
  BY <1>1, <1>5, <1>6
<1> QED BY <1>5, <1>8, <1>9 DEF LoopInv, list

LEMMA NextLoopInv == LoopInv /\ [Next]_vars => LoopInv'
<1> SUFFICES ASSUME LoopInv, [Next]_vars PROVE LoopInv'
  OBVIOUS
<1> DEFINE list == startVotingRoundIds
           mid == (low + high) \div 2
<1>1. /\ Len(list) \in Nat
      /\ low \in Int /\ 1 <= low /\ low <= Len(list)
      /\ high \in Int /\ high <= Len(list) + 1 /\ low < high
  BY ListsAssumption DEF LoopInv, TypeOK
<1>2. CASE Halve
  <2>1. list' = list /\ votingRoundId' = votingRoundId /\ done' = done /\ high - low > 1
    BY <1>2 DEF Halve
  <2>2. mid \in Int /\ low < mid /\ mid < high
    BY <1>1, <2>1
  <2>3. list[mid] \in Nat /\ votingRoundId \in Nat
    BY <1>1, <2>2, ListsAssumption DEF LoopInv, TypeOK
  <2> HIDE DEF mid
  <2>4. CASE votingRoundId < list[mid] /\ high' = mid /\ low' = low
    BY <1>1, <2>1, <2>2, <2>4 DEF LoopInv, TypeOK
  <2>5. CASE ~(votingRoundId < list[mid]) /\ low' = mid /\ high' = high
    BY <1>1, <2>1, <2>2, <2>3, <2>5 DEF LoopInv, TypeOK
  <2> QED BY <1>2, <2>4, <2>5 DEF Halve, mid
<1>3. CASE Return
  BY <1>1, <1>3 DEF Return, LoopInv, TypeOK
<1>4. CASE UNCHANGED vars
  BY <1>4 DEF vars, LoopInv, TypeOK
<1> QED BY <1>2, <1>3, <1>4 DEF Next

\* findRewardEpochId finds the epoch of the list the round belongs to.
THEOREM SearchFinds == Spec => []FindsEpoch
<1>1. LoopInv => FindsEpoch
  <2> SUFFICES ASSUME LoopInv, done PROVE FindsEpoch
    BY DEF FindsEpoch
  <2> DEFINE list == startVotingRoundIds
  <2>1. /\ Len(list) \in Nat /\ low \in Int /\ low <= Len(list)
        /\ list[low] \in Nat /\ votingRoundId \in Nat
    BY ListsAssumption DEF LoopInv, TypeOK
  <2>2. low # Len(list)
    BY <2>1 DEF LoopInv
  <2> QED BY <2>1, <2>2 DEF LoopInv, FindsEpoch
<1> QED BY <1>1, InitLoopInv, NextLoopInv, PTL DEF Spec

-----------------------------------------------------------------------------
(* What goes by weight *)

(* Arithmetic *)

\* What is left over after a part of a / b stays at least A / W of the weight
\* left over, and the part is at least that part of A.
LEMMA RatioKept ==
    ASSUME NEW w \in Nat, NEW a \in Nat, NEW b \in Nat \ {0}, w <= b,
           NEW A \in Nat, NEW W \in Nat \ {0}, A * b <= a * W
    PROVE  LET r == (w * a) \div b
           IN  /\ A * (b - w) <= (a - r) * W
               /\ (w * A) \div W <= r
<1> DEFINE r == (w * a) \div b
           q == (w * A) \div W
<1>1. w * a \in Nat /\ w * A \in Nat
  OBVIOUS
<1>2. r \in Nat /\ r * b <= w * a
  BY <1>1, DivFloor
<1>3. q \in Nat /\ q * W <= w * A
  BY <1>1, DivFloor
<1> HIDE DEF r, q
<1>4. A * (b - w) <= (a - r) * W
  <2>1. a - r \in Int /\ b - w \in Nat
    BY <1>2
  <2>2. (A * b) * (b - w) <= (a * W) * (b - w)
    BY <2>1, MulMonotone
  <2>3. (r * b) * W <= (w * a) * W
    BY <1>1, <1>2, MulMonotone
  <2>4. (A * (b - w)) * b = (A * b) * (b - w)
    BY <2>1
  <2>5. ((a - r) * W) * b = (a * b) * W - (r * b) * W
    BY <1>2
  <2>6. (a * W) * (b - w) = (a * b) * W - (w * a) * W
    OBVIOUS
  <2>7. (A * (b - w)) * b <= ((a - r) * W) * b
    BY <1>2, <2>1, <2>2, <2>3, <2>4, <2>5, <2>6
  <2>8. A * (b - w) \in Int /\ (a - r) * W \in Int
    BY <2>1
  <2> QED BY <2>7, <2>8, MulCancel
<1>5. q <= r
  <2>1. (q * W) * b <= (w * A) * b
    BY <1>1, <1>3, MulMonotone
  <2>2. (A * b) * w <= (a * W) * w
    BY MulMonotone
  <2>3. (q * b) * W = (q * W) * b /\ (w * a) * W = (a * W) * w /\ (w * A) * b = (A * b) * w
    BY <1>3
  <2>4. (q * b) * W <= (w * a) * W
    BY <1>1, <1>3, <2>1, <2>2, <2>3
  <2>5. q * b \in Int
    BY <1>3
  <2>6. q * b <= w * a
    BY <1>1, <2>4, <2>5, MulCancel
  <2> QED BY <1>1, <1>3, <2>6, DivGreatest DEF r
<1> QED BY <1>4, <1>5 DEF r, q

\* One voter's turn: w of the weight b left, of the amount a left.
LEMMA OneShare ==
    ASSUME NEW w \in Nat, NEW a \in Nat, NEW b \in Nat, w <= b, b = 0 => a = 0,
           NEW A \in Nat, NEW W \in Nat \ {0}, A * b <= a * W,
           NEW r, r = IF w > 0 /\ b # 0 THEN (w * a) \div b ELSE 0
    PROVE  /\ r \in 0..a
           /\ A * (b - w) <= (a - r) * W
           /\ (w * A) \div W <= r
           /\ b - w = 0 => a - r = 0
<1>1. CASE w = 0
  <2>1. r = 0 /\ b - w = b /\ a - r = a
    BY <1>1
  <2>2. (w * A) \div W = 0
    <3>1. w * A = 0
      BY <1>1
    <3>2. 0 \div W = 0
      OBVIOUS
    <3> QED BY <3>1, <3>2
  <2> QED BY <2>1, <2>2
<1>2. CASE w # 0
  <2>1. b \in Nat \ {0} /\ r = (w * a) \div b
    BY <1>2
  <2>2. r \in 0..a /\ (w = b => r = a)
    BY <2>1, PartOfWhole
  <2>3. A * (b - w) <= (a - r) * W /\ (w * A) \div W <= r
    BY <2>1, RatioKept
  <2> QED BY <2>1, <2>2, <2>3
<1> QED BY <1>1, <1>2

-----------------------------------------------------------------------------
(* The inductive invariant *)

TotalsAddUp ==
    /\ totals \in Seq(Nat) /\ Len(totals) > 0 /\ totals[1] = 0
    /\ \A i \in 1..(Len(totals) - 1) : totals[i + 1] = totals[i] + weights[i]
    /\ \A i, j \in 1..Len(totals) : i <= j => totals[i] <= totals[j]

\* While the weights are added nothing is given; afterwards what is left of the
\* weight is that of the voters still to come, and of the amount at least its
\* part of it.
ShareInv ==
    /\ weights \in Seq(Nat) /\ amount \in Nat
    /\ step \in {"add", "give", "done", "claimback"}
    /\ voter \in 1..(Len(weights) + 1)
    /\ availableReward \in Nat /\ availableWeight \in Nat /\ totalReward \in Nat
    /\ rewards \in Seq(Nat)
    /\ TotalsAddUp
    /\ totalReward + availableReward = amount
    /\ Len(totals) = IF step = "add" THEN voter ELSE Len(weights) + 1
    /\ step \in {"add", "claimback"} => rewards = <<>>
    /\ step = "add" => availableWeight = totals[voter] /\ availableReward = amount
    /\ step \in {"give", "done"} =>
          /\ Len(rewards) = voter - 1
          /\ totals[Len(weights) + 1] > 0
          /\ availableWeight = totals[Len(weights) + 1] - totals[voter]
          /\ availableWeight = 0 => availableReward = 0
          /\ amount * availableWeight <= availableReward * totals[Len(weights) + 1]
    /\ step = "done" => voter = Len(weights) + 1
    /\ NobodyShort

\* Later totals are larger.
LEMMA TotalsAt ==
    ASSUME TotalsAddUp, NEW i \in 1..Len(totals), NEW j \in 1..Len(totals), i <= j
    PROVE  totals[i] \in Nat /\ totals[j] \in Nat /\ totals[i] <= totals[j]
<1>1. totals \in Seq(Nat)
  BY DEF TotalsAddUp
<1>2. totals[i] \in Nat /\ totals[j] \in Nat
  BY <1>1
<1>3. totals[i] <= totals[j]
  BY DEF TotalsAddUp
<1> QED BY <1>2, <1>3

\* No weight is added yet.
LEMMA InitInv == ShareInit => ShareInv
<1> SUFFICES ASSUME ShareInit PROVE ShareInv
  OBVIOUS
<1>1. weights \in Seq(Nat) /\ amount \in Nat
  BY ShareAssumption DEF ShareInit
<1>2. totals = <<0>> /\ Len(totals) = 1 /\ totals[1] = 0 /\ totals \in Seq(Nat)
  BY DEF ShareInit
<1>3. TotalsAddUp
  BY <1>2 DEF TotalsAddUp
<1>4. rewards = <<>> /\ DOMAIN rewards = {} /\ rewards \in Seq(Nat)
  BY DEF ShareInit
<1> QED BY <1>1, <1>2, <1>3, <1>4 DEF ShareInit, ShareInv, NobodyShort

\* Add extends the totals by one.
LEMMA AddInv == ShareInv /\ Add => ShareInv'
<1> SUFFICES ASSUME ShareInv, Add PROVE ShareInv'
  OBVIOUS
<1> USE DEF ShareInv
<1>1. /\ step = "add" /\ step' = "add" /\ voter \in 1..Len(weights) /\ voter' = voter + 1
      /\ weights[voter] \in Nat /\ availableWeight' \in Nat
      /\ availableWeight' = totals[voter] + weights[voter]
      /\ Len(totals) = voter
  BY DEF Add
<1>2. /\ totals' \in Seq(Nat) /\ Len(totals') = voter + 1
      /\ totals'[voter + 1] = availableWeight'
      /\ \A i \in 1..voter : totals'[i] = totals[i]
  BY <1>1 DEF Add, TotalsAddUp
<1>3. TotalsAddUp'
  <2>1. \A i \in 1..(Len(totals') - 1) : totals'[i + 1] = totals'[i] + weights'[i]
    <3> SUFFICES ASSUME NEW i \in 1..voter
                 PROVE  totals'[i + 1] = totals'[i] + weights[i]
      <4>1. Len(totals') - 1 = voter /\ weights' = weights
        BY <1>1, <1>2 DEF Add
      <4> QED BY <4>1
    <3>1. CASE i = voter
      BY <1>1, <1>2, <3>1
    <3>2. CASE i # voter
      <4>1. i \in 1..(Len(totals) - 1) /\ i + 1 \in 1..voter
        BY <1>1, <3>2
      <4>2. totals[i + 1] = totals[i] + weights[i]
        BY <4>1 DEF TotalsAddUp
      <4> QED BY <1>2, <4>1, <4>2
    <3> QED BY <3>1, <3>2
  <2>2. ASSUME NEW i \in 1..voter PROVE totals'[i] \in Nat /\ totals'[i] <= totals'[voter + 1]
    <3>0. i \in 1..Len(totals) /\ voter \in 1..Len(totals) /\ i <= voter
      BY <1>1
    <3>1. totals[i] \in Nat /\ totals[voter] \in Nat /\ totals[i] <= totals[voter]
      BY <3>0, TotalsAt
    <3>2. totals'[i] = totals[i] /\ totals'[voter + 1] = totals[voter] + weights[voter]
      BY <1>1, <1>2
    <3> QED BY <1>1, <3>1, <3>2
  <2>3. ASSUME NEW i \in 1..Len(totals'), NEW j \in 1..Len(totals'), i <= j
        PROVE  totals'[i] <= totals'[j]
    <3>1. CASE j \in 1..voter
      <4>1. i \in 1..voter /\ totals[i] <= totals[j]
        BY <1>1, <2>3, <3>1 DEF TotalsAddUp
      <4> QED BY <1>2, <3>1, <4>1
    <3>2. CASE j = voter + 1 /\ i \in 1..voter
      BY <2>2, <3>2
    <3>3. CASE j = voter + 1 /\ i = voter + 1
      BY <1>1, <1>2, <3>3
    <3> QED BY <1>1, <1>2, <2>3, <3>1, <3>2, <3>3
  <2>4. Len(totals') > 0 /\ totals'[1] = 0
    BY <1>1, <1>2 DEF TotalsAddUp
  <2> QED BY <1>2, <2>1, <2>3, <2>4 DEF TotalsAddUp
<1>4. rewards' = <<>> /\ DOMAIN rewards' = {}
  BY <1>1 DEF Add
<1>5. NobodyShort'
  BY <1>4 DEF NobodyShort
<1> QED BY <1>1, <1>2, <1>3, <1>4, <1>5 DEF Add

\* Added begins to give with all weights to come.
LEMMA AddedInv == ShareInv /\ Added => ShareInv'
<1> SUFFICES ASSUME ShareInv, Added PROVE ShareInv'
  OBVIOUS
<1> USE DEF ShareInv
<1>1. /\ step = "add" /\ voter = Len(weights) + 1 /\ voter' = 1
      /\ Len(totals) = Len(weights) + 1 /\ availableWeight = totals[Len(weights) + 1]
      /\ UNCHANGED <<weights, amount, totals, availableReward, availableWeight, totalReward, rewards>>
  BY DEF Added
<1>2. TotalsAddUp' /\ rewards' = <<>> /\ NobodyShort'
  BY <1>1 DEF TotalsAddUp, NobodyShort
<1>3. CASE availableWeight = 0
  BY <1>1, <1>2, <1>3 DEF Added
<1>4. CASE availableWeight # 0
  <2>1. step' = "give" /\ availableWeight > 0
    BY <1>4 DEF Added
  <2>2. totals[1] = 0
    BY <1>1 DEF TotalsAddUp
  <2> QED BY <1>1, <1>2, <2>1, <2>2 DEF Added
<1> QED BY <1>3, <1>4

\* Give is one share (OneShare): what is left stays in proportion.
LEMMA GiveInv == ShareInv /\ Give => ShareInv'
<1> SUFFICES ASSUME ShareInv, Give PROVE ShareInv'
  OBVIOUS
<1> DEFINE W == totals[Len(weights) + 1]
           weight == weights[voter]
           reward == IF weight > 0 /\ availableWeight # 0
                     THEN (weight * availableReward) \div availableWeight ELSE 0
<1>1. /\ step = "give" /\ voter \in 1..Len(weights) /\ voter' = voter + 1
      /\ weights \in Seq(Nat) /\ amount \in Nat
  BY DEF ShareInv, Give
<1>11. /\ weight \in Nat
       /\ availableReward \in Nat /\ availableWeight \in Nat /\ totalReward \in Nat
       /\ Len(totals) = Len(weights) + 1 /\ TotalsAddUp
       /\ rewards \in Seq(Nat) /\ Len(rewards) = voter - 1
       /\ totalReward + availableReward = amount
  BY <1>1 DEF ShareInv
<1>12. /\ availableWeight = W - totals[voter] /\ W > 0
       /\ availableWeight = 0 => availableReward = 0
  BY <1>1 DEF ShareInv
<1>13. amount * availableWeight <= availableReward * W
  BY <1>1 DEF ShareInv
<1>2. /\ availableReward' = availableReward - reward
      /\ availableWeight' = availableWeight - weight
      /\ totalReward' = totalReward + reward
      /\ rewards' = Append(rewards, reward)
      /\ UNCHANGED <<weights, amount, totals>>
  BY DEF Give
<1>3. /\ totals[voter] \in Nat /\ totals[voter + 1] \in Nat /\ W \in Nat
      /\ totals[voter + 1] = totals[voter] + weight /\ totals[voter + 1] <= W
  <2>1. /\ voter \in 1..Len(totals) /\ voter + 1 \in 1..Len(totals)
        /\ Len(weights) + 1 \in 1..Len(totals)
        /\ voter <= voter + 1 /\ voter + 1 <= Len(weights) + 1
    BY <1>1, <1>11
  <2>2. /\ totals[voter] \in Nat /\ totals[voter + 1] \in Nat /\ W \in Nat
        /\ totals[voter + 1] <= W
    BY <1>11, <2>1, TotalsAt
  <2>3. totals[voter + 1] = totals[voter] + weight
    BY <1>1, <1>11 DEF TotalsAddUp
  <2> QED BY <2>2, <2>3
<1> HIDE DEF reward
<1>4. weight <= availableWeight /\ availableWeight' \in Nat
      /\ availableWeight' = W - totals'[voter']
  <2>1. totals'[voter'] = totals[voter + 1]
    BY <1>1, <1>2
  <2>2. availableWeight' = availableWeight - weight
    BY <1>2
  <2>3. weight <= availableWeight
    BY <1>11, <1>12, <1>3
  <2>4. availableWeight' = W - totals'[voter']
    BY <1>11, <1>12, <1>3, <2>1, <2>2
  <2>5. availableWeight' \in Nat
    BY <1>11, <2>2, <2>3
  <2> QED BY <2>3, <2>4, <2>5
<1>5. step' = "give"
  BY <1>1, <1>11, <1>4 DEF Give
<1> HIDE DEF W, weight
<1>6. /\ reward \in 0..availableReward
      /\ amount * availableWeight' <= availableReward' * W
      /\ (weight * amount) \div W <= reward
      /\ availableWeight' = 0 => availableReward' = 0
  <2>1. W \in Nat \ {0} /\ amount \in Nat /\ weight <= availableWeight
    BY <1>1, <1>12, <1>3, <1>4
  <2>2. reward = IF weight > 0 /\ availableWeight # 0
                 THEN (weight * availableReward) \div availableWeight ELSE 0
    BY DEF reward
  <2>3. /\ reward \in 0..availableReward
        /\ amount * (availableWeight - weight) <= (availableReward - reward) * W
        /\ (weight * amount) \div W <= reward
        /\ availableWeight - weight = 0 => availableReward - reward = 0
    <3>1. weight \in Nat /\ availableReward \in Nat /\ availableWeight \in Nat
      BY <1>11
    <3>2. availableWeight = 0 => availableReward = 0
      BY <1>12
    <3> HIDE DEF reward
    <3> QED BY <1>13, <2>1, <2>2, <3>1, <3>2, OneShare
  <2> QED BY <1>2, <2>3
<1>7. /\ availableReward' \in Nat /\ totalReward' \in Nat
      /\ totalReward' + availableReward' = amount'
      /\ rewards' \in Seq(Nat) /\ Len(rewards') = voter' - 1
  BY <1>1, <1>11, <1>2, <1>6
<1>8. NobodyShort'
  <2>1. DOMAIN rewards = 1..(voter - 1) /\ DOMAIN rewards' = 1..voter
    BY <1>1, <1>11, <1>7
  <2>2. totals[Len(totals)] = W
    BY <1>11 DEF W
  <2>3. ASSUME NEW i \in 1..voter
        PROVE  rewards'[i] >= (weights[i] * amount) \div totals[Len(totals)]
    <3>1. CASE i = voter
      <4>1. rewards'[i] = reward
        BY <1>1, <1>11, <1>2, <3>1
      <4>2. reward \in Nat /\ reward >= (weights[i] * amount) \div W
        BY <1>11, <1>6, <3>1 DEF weight
      <4> QED BY <2>2, <4>1, <4>2
    <3>2. CASE i # voter
      <4>1. i \in 1..(voter - 1)
        BY <1>1, <3>2
      <4>2. rewards'[i] = rewards[i]
        BY <1>11, <1>2, <4>1
      <4>3. rewards[i] >= (weights[i] * amount) \div totals[Len(totals)]
        BY <2>1, <4>1 DEF ShareInv, NobodyShort
      <4> QED BY <4>2, <4>3
    <3> QED BY <3>1, <3>2
  <2>4. weights' = weights /\ amount' = amount /\ totals' = totals
    BY <1>2
  <2> QED BY <2>1, <2>3, <2>4 DEF NobodyShort
<1>9. TotalsAddUp'
  BY <1>11, <1>2 DEF TotalsAddUp
<1>10. totals'[Len(weights') + 1] = W
  BY <1>2 DEF W
<1> QED BY <1>1, <1>11, <1>12, <1>2, <1>3, <1>4, <1>5, <1>6, <1>7, <1>8, <1>9, <1>10 DEF ShareInv

\* Given changes nothing.
LEMMA GivenInv == ShareInv /\ Given => ShareInv'
<1> SUFFICES ASSUME ShareInv, Given PROVE ShareInv'
  OBVIOUS
<1>1. TotalsAddUp' /\ NobodyShort'
  BY DEF ShareInv, Given, TotalsAddUp, NobodyShort
<1> QED BY <1>1 DEF ShareInv, Given

\* Nothing changes.
LEMMA StutterInv == ShareInv /\ UNCHANGED shareVars => ShareInv'
BY DEF ShareInv, shareVars, TotalsAddUp, NobodyShort

\* All steps of the loops.
LEMMA NextInv == ShareInv /\ [ShareNext]_shareVars => ShareInv'
BY AddInv, AddedInv, GiveInv, GivenInv, StutterInv DEF ShareNext

-----------------------------------------------------------------------------
\* At the end no weight is left, so nothing of the amount.
LEMMA InvShared == ShareInv => AllSharedOut
<1> SUFFICES ASSUME ShareInv PROVE AllSharedOut
  OBVIOUS
<1>1. step # "error"
  BY DEF ShareInv
<1>2. ASSUME step = "done" PROVE totalReward = amount
  <2>1. availableWeight = 0
    BY <1>2 DEF ShareInv, TotalsAddUp
  <2>2. availableReward = 0 /\ totalReward + availableReward = amount
        /\ totalReward \in Nat
    BY <1>2, <2>1 DEF ShareInv
  <2> QED BY <2>2
<1> QED BY <1>1, <1>2 DEF AllSharedOut

\* Whatever the weights and the amount, the loops give out the whole amount,
\* none of their checks strikes, and each voter gets the whole wei of its exact
\* share at least.
THEOREM SharesFair == ShareSpec => []SharedFairly
<1>1. ShareInit => ShareInv
  BY InitInv
<1>2. ShareInv /\ [ShareNext]_shareVars => ShareInv'
  BY NextInv
<1>3. ShareInv => SharedFairly
  BY InvShared DEF ShareInv, SharedFairly
<1> QED BY <1>1, <1>2, <1>3, PTL DEF ShareSpec

-----------------------------------------------------------------------------
(* binarySearch and selectVoterIndex *)

\* One comparison of binarySearch: what is found from left to right, if g finds
\* it in shorter ranges.
SearchStep(g, thresholds, value, left, right) ==
    LET mid == (left + right) \div 2
    IN  IF left >= right THEN left - 1
        ELSE IF thresholds[mid] < value THEN g[<<mid + 1, right>>]
        ELSE IF thresholds[mid] > value THEN g[<<left, mid>>]
        ELSE mid

\* What the search may look at.
Ranges(thresholds) == (DOMAIN thresholds) \X (DOMAIN thresholds)

\* g is the search in every range.
IsSearch(g, thresholds, value) ==
    g = [range \in Ranges(thresholds) |-> SearchStep(g, thresholds, value, range[1], range[2])]

\* Search is the value of such a function for the whole range, if there is one.
LEMMA SearchUnfold ==
    ASSUME NEW thresholds, NEW value, NEW g0, IsSearch(g0, thresholds, value)
    PROVE  \E g : /\ IsSearch(g, thresholds, value)
                  /\ Search(thresholds, value) =
                        IF thresholds[Len(thresholds)] <= value THEN Len(thresholds)
                        ELSE g[<<1, Len(thresholds)>>]
<1> DEFINE It == CHOOSE g : IsSearch(g, thresholds, value)
<1>1. IsSearch(It, thresholds, value)
  OBVIOUS
<1>2. Search(thresholds, value) =
          IF thresholds[Len(thresholds)] <= value THEN Len(thresholds)
          ELSE It[<<1, Len(thresholds)>>]
  BY DEF Search, IsSearch, SearchStep, Ranges
<1> QED BY <1>1, <1>2

\* The ranges are the pairs of positions.
LEMMA RangesOf ==
    ASSUME NEW n \in Nat, NEW thresholds \in [1..n -> Int]
    PROVE  Ranges(thresholds) = (1..n) \X (1..n)
  BY DEF Ranges

\* The function in a range.
LEMMA SearchAt ==
    ASSUME NEW n \in Nat, NEW thresholds \in [1..n -> Int], NEW value \in Int,
           NEW g, IsSearch(g, thresholds, value), NEW left \in 1..n, NEW right \in 1..n
    PROVE  g[<<left, right>>] = SearchStep(g, thresholds, value, left, right)
<1> DEFINE range == <<left, right>>
<1>1. range \in (1..n) \X (1..n) /\ range[1] = left /\ range[2] = right
  OBVIOUS
<1> HIDE DEF range
<1>2. g[range] = SearchStep(g, thresholds, value, range[1], range[2])
  BY <1>1, RangesOf DEF IsSearch
<1> QED BY <1>1, <1>2 DEF range

\* g and h agree on what is inside of the range.
SameInside(g, h, n, left, right) ==
    left < right => \A l, r \in 1..n : r - l < right - left => g[<<l, r>>] = h[<<l, r>>]

\* The comparison looks at shorter ranges only.
LEMMA StepLooksInside ==
    ASSUME NEW n \in Nat, NEW thresholds \in [1..n -> Int], NEW value \in Int, NEW g, NEW h,
           NEW left \in 1..n, NEW right \in 1..n,
           SameInside(g, h, n, left, right)
    PROVE  SearchStep(g, thresholds, value, left, right)
               = SearchStep(h, thresholds, value, left, right)
<1> DEFINE mid == (left + right) \div 2
<1>1. CASE left >= right
  BY <1>1 DEF SearchStep
<1>2. CASE left < right
  <2>1. /\ mid \in 1..n /\ mid + 1 \in 1..n
        /\ right - (mid + 1) < right - left /\ mid - left < right - left
    BY <1>2
  <2> HIDE DEF mid
  <2>2. g[<<mid + 1, right>>] = h[<<mid + 1, right>>] /\ g[<<left, mid>>] = h[<<left, mid>>]
    BY <1>2, <2>1 DEF SameInside
  <2> QED BY <2>2 DEF SearchStep, mid
<1> QED BY <1>1, <1>2

\* The search is known for ranges of up to k elements more than one.
Known(g, thresholds, value, n, k) ==
    \A left, right \in 1..n : right - left <= k =>
        g[<<left, right>>] = SearchStep(g, thresholds, value, left, right)

\* The loop ends: ranges get shorter.
LEMMA SearchDefined ==
    ASSUME NEW n \in Nat, NEW thresholds \in [1..n -> Int], NEW value \in Int
    PROVE  \E g : IsSearch(g, thresholds, value)
<1> DEFINE Spans == (1..n) \X (1..n)
           Bad == {k \in Nat : ~\E g : /\ g = [p \in Spans |-> g[p]]
                                       /\ Known(g, thresholds, value, n, k)}
<1>2. ASSUME NEW k \in Nat, k \in Bad, \A m \in Bad : k <= m
      PROVE  FALSE
  <2>1. PICK g : k = 0 \/ Known(g, thresholds, value, n, k - 1)
    <3>1. CASE k = 0
      BY <3>1
    <3>2. CASE k # 0
      <4>1. k - 1 \in Nat /\ ~(k <= k - 1)
        BY <3>2
      <4>2. k - 1 \notin Bad
        <5> HIDE DEF Bad
        <5> QED BY <4>1, <1>2
      <4> QED BY <4>1, <4>2
    <3> QED BY <3>1, <3>2
  <2> DEFINE h == [p \in Spans |-> IF k # 0 /\ p[2] - p[1] < k THEN g[p]
                                  ELSE SearchStep(g, thresholds, value, p[1], p[2])]
  <2>2. \A l, r \in 1..n : h[<<l, r>>] = IF k # 0 /\ r - l < k THEN g[<<l, r>>]
                                        ELSE SearchStep(g, thresholds, value, l, r)
    OBVIOUS
  <2>3. h = [p \in Spans |-> h[p]]
    OBVIOUS
  <2> HIDE DEF h
  <2>4. ASSUME NEW left \in 1..n, NEW right \in 1..n, right - left <= k
        PROVE  h[<<left, right>>] = SearchStep(h, thresholds, value, left, right)
    <3>1. SameInside(g, h, n, left, right)
      BY <2>2, <2>4 DEF SameInside
    <3>2. SearchStep(g, thresholds, value, left, right)
              = SearchStep(h, thresholds, value, left, right)
      BY <3>1, StepLooksInside
    <3>3. CASE k = 0 \/ right - left = k
      BY <2>2, <3>2, <3>3
    <3>4. CASE right - left < k /\ k # 0
      <4>1. Known(g, thresholds, value, n, k - 1) /\ right - left <= k - 1
        BY <2>1, <3>4
      <4>2. g[<<left, right>>] = SearchStep(g, thresholds, value, left, right)
        BY <4>1 DEF Known
      <4> QED BY <2>2, <3>2, <3>4, <4>2
    <3> QED BY <2>4, <3>3, <3>4
  <2>5. Known(h, thresholds, value, n, k)
    BY <2>4 DEF Known
  <2> QED BY <1>2, <2>3, <2>5
<1>3. n \notin Bad
  <2>1. Bad \in SUBSET Nat
    OBVIOUS
  <2> HIDE DEF Bad
  <2> QED BY <1>2, <2>1, LeastNatural
<1>4. PICK g : g = [p \in Spans |-> g[p]] /\ Known(g, thresholds, value, n, n)
  BY <1>3
<1>5. IsSearch(g, thresholds, value)
  <2>2. \A p \in Spans : /\ p[1] \in 1..n /\ p[2] \in 1..n /\ p[2] - p[1] <= n
                         /\ p = <<p[1], p[2]>>
    OBVIOUS
  <2>3. \A p \in Spans : g[p] = SearchStep(g, thresholds, value, p[1], p[2])
    BY <1>4, <2>2 DEF Known
  <2>4. g = [p \in Spans |-> SearchStep(g, thresholds, value, p[1], p[2])]
    BY <1>4, <2>3
  <2> QED BY <2>4, RangesOf DEF IsSearch
<1> QED BY <1>5

\* What the search from left to right is to end with.
Found(thresholds, value, n, index) ==
    /\ index \in 1..n /\ thresholds[index] <= value
    /\ index < n => thresholds[index] = value \/ value < thresholds[index + 1]

\* A range with the value between its ends.
Around(thresholds, value, left, right) ==
    /\ left <= right /\ value < thresholds[right]
    /\ left > 1 => thresholds[left - 1] <= value

\* The loop keeps the value between the ends of the range and so ends where it is.
LEMMA LoopFinds ==
    ASSUME NEW n \in Nat, NEW thresholds \in [1..n -> Int], NEW value \in Int,
           n > 0 => thresholds[1] <= value,
           NEW g, IsSearch(g, thresholds, value),
           NEW left0 \in 1..n, NEW right0 \in 1..n, Around(thresholds, value, left0, right0)
    PROVE  Found(thresholds, value, n, g[<<left0, right0>>])
<1> DEFINE Bad == {k \in Nat : \E left, right \in 1..n :
                      /\ right - left = k /\ Around(thresholds, value, left, right)
                      /\ ~Found(thresholds, value, n, g[<<left, right>>])}
<1>1. ASSUME NEW k \in Nat, k \in Bad, \A m \in Bad : k <= m
      PROVE  FALSE
  <2>1. PICK left \in 1..n : \E right \in 1..n :
            /\ right - left = k /\ Around(thresholds, value, left, right)
            /\ ~Found(thresholds, value, n, g[<<left, right>>])
    BY <1>1
  <2>2. PICK right \in 1..n :
            /\ right - left = k /\ Around(thresholds, value, left, right)
            /\ ~Found(thresholds, value, n, g[<<left, right>>])
    BY <2>1
  <2>3. ASSUME NEW l \in 1..n, NEW r \in 1..n, r - l < k, Around(thresholds, value, l, r)
        PROVE  Found(thresholds, value, n, g[<<l, r>>])
    <3>1. r - l \in Nat /\ ~(k <= r - l)
      BY <2>3 DEF Around
    <3>2. r - l \notin Bad
      <4> HIDE DEF Bad
      <4> QED BY <1>1, <3>1
    <3> QED BY <2>3, <3>1, <3>2
  <2>4. g[<<left, right>>] = SearchStep(g, thresholds, value, left, right)
    BY SearchAt
  <2>5. CASE left = right
    <3>1. g[<<left, right>>] = left - 1
      BY <2>4, <2>5 DEF SearchStep
    <3>2. Found(thresholds, value, n, left - 1)
      BY <2>2, <2>5 DEF Around, Found
    <3> QED BY <2>2, <3>1, <3>2
  <2>6. CASE left < right
    <3> DEFINE mid == (left + right) \div 2
    <3>1. /\ mid \in 1..n /\ mid + 1 \in 1..n /\ left <= mid /\ mid < right
          /\ right - (mid + 1) < k /\ mid - left < k
      <4>1. k = right - left
        BY <2>2
      <4> HIDE DEF Bad
      <4> QED BY <2>6, <4>1
    <3>2. g[<<left, right>>] = IF thresholds[mid] < value THEN g[<<mid + 1, right>>]
                               ELSE IF thresholds[mid] > value THEN g[<<left, mid>>]
                               ELSE mid
      BY <2>4, <2>6 DEF SearchStep
    <3> HIDE DEF mid
    <3>3. CASE thresholds[mid] < value
      <4>1. Around(thresholds, value, mid + 1, right)
        <5>1. value < thresholds[right]
          BY <2>2 DEF Around
        <5>2. mid + 1 <= right /\ (mid + 1) - 1 = mid
          BY <3>1
        <5>3. thresholds[(mid + 1) - 1] <= value
          BY <3>1, <3>3, <5>2
        <5> QED BY <5>1, <5>2, <5>3 DEF Around
      <4>2. Found(thresholds, value, n, g[<<mid + 1, right>>])
        BY <2>3, <3>1, <4>1
      <4>3. g[<<left, right>>] = g[<<mid + 1, right>>]
        BY <3>1, <3>2, <3>3, thresholds[mid] \in Int
      <4> QED BY <2>2, <4>2, <4>3
    <3>4. CASE thresholds[mid] > value
      <4>1. Around(thresholds, value, left, mid)
        BY <2>2, <3>1, <3>4 DEF Around
      <4>2. Found(thresholds, value, n, g[<<left, mid>>])
        BY <2>3, <3>1, <4>1
      <4>3. g[<<left, right>>] = g[<<left, mid>>]
        BY <3>1, <3>2, <3>4, thresholds[mid] \in Int
      <4> QED BY <2>2, <4>2, <4>3
    <3>5. CASE thresholds[mid] = value
      <4>1. Found(thresholds, value, n, mid)
        BY <3>1, <3>5 DEF Found
      <4> QED BY <2>2, <3>1, <3>2, <3>5, <4>1
    <3> QED BY <3>1, <3>3, <3>4, <3>5
  <2> QED BY <2>2, <2>5, <2>6 DEF Around
<1>2. right0 - left0 \in Nat /\ right0 - left0 \notin Bad
  <2>1. Bad \in SUBSET Nat
    OBVIOUS
  <2>2. right0 - left0 \in Nat
    BY DEF Around
  <2> HIDE DEF Bad
  <2> QED BY <1>1, <2>1, <2>2, LeastNatural
<1> QED BY <1>2

\* binarySearch ends at the threshold the value has reached.
LEMMA PlaceFound ==
    ASSUME NEW n \in Nat \ {0}, NEW thresholds \in [1..n -> Int], Len(thresholds) = n,
           NEW value \in Int, thresholds[1] <= value
    PROVE  Found(thresholds, value, n, Search(thresholds, value))
<1>2. PICK g : /\ IsSearch(g, thresholds, value)
               /\ Search(thresholds, value) =
                      IF thresholds[n] <= value THEN n ELSE g[<<1, n>>]
  <2>1. PICK g0 : IsSearch(g0, thresholds, value)
    BY SearchDefined
  <2> QED BY <2>1, SearchUnfold
<1>3. CASE thresholds[n] <= value
  BY <1>2, <1>3 DEF Found
<1>4. CASE value < thresholds[n]
  <2>1. Around(thresholds, value, 1, n) /\ 1 \in 1..n /\ n \in 1..n
    BY <1>4 DEF Around
  <2>2. Found(thresholds, value, n, g[<<1, n>>])
    BY <1>2, <2>1, LoopFinds
  <2>3. Search(thresholds, value) = g[<<1, n>>]
    BY <1>2, <1>4
  <2> QED BY <2>2, <2>3
<1> QED BY <1>3, <1>4

-----------------------------------------------------------------------------
\* The weight of the first k voters.
First(ws, k) == SumFunctionOnSet(ws, 1..k)

\* They add up one voter after the other.
LEMMA FirstAddsUp ==
    ASSUME NEW ws \in Seq(Nat), NEW n, n = Len(ws)
    PROVE  /\ n \in Nat /\ ws \in [1..n -> Nat]
           /\ First(ws, 0) = 0
           /\ \A k \in 0..n : First(ws, k) \in Int
           /\ \A k \in 1..n : First(ws, k) = First(ws, k - 1) + ws[k]
           /\ TotalWeight(ws) = First(ws, n)
<1>1. n \in Nat /\ ws \in [1..n -> Nat]
  OBVIOUS
<1>2. ASSUME NEW k \in 0..n
      PROVE  /\ IsFiniteSet(1..k) /\ \A i \in 1..k : ws[i] \in Int
  <2>1. IsFiniteSet(1..k)
    BY <1>1, FS_Interval
  <2> QED BY <1>1, <2>1
<1>3. 1..0 = {}
  OBVIOUS
<1>4. First(ws, 0) = 0
  BY <1>1, <1>2, <1>3, SumTake DEF First
<1>5. \A k \in 0..n : First(ws, k) \in Int
  BY <1>2, SumTake DEF First
<1>6. ASSUME NEW k \in 1..n
      PROVE  First(ws, k) = First(ws, k - 1) + ws[k]
  <2>1. k \in 0..n /\ k \in 1..k /\ (1..k) \ {k} = 1..(k - 1) /\ k - 1 \in 0..n
    BY <1>1
  <2>2. /\ IsFiniteSet(1..k) /\ \A i \in 1..k : ws[i] \in Int
    BY <1>2, <2>1
  <2>3. SumFunctionOnSet(ws, 1..k) = ws[k] + SumFunctionOnSet(ws, (1..k) \ {k})
    BY <2>1, <2>2, SumTake
  <2>4. First(ws, k) = ws[k] + First(ws, k - 1)
    BY <2>1, <2>3 DEF First
  <2> QED BY <1>1, <1>5, <2>1, <2>4
<1>7. TotalWeight(ws) = First(ws, n)
  BY <1>1 DEF TotalWeight, SumFunction, First
<1> QED BY <1>1, <1>4, <1>5, <1>6, <1>7

\* They are not less for more voters, and more if all have weight.
LEMMA FirstGrows ==
    ASSUME NEW ws \in Seq(Nat), NEW n, n = Len(ws),
           NEW i \in 0..n, NEW j \in 0..n, i <= j
    PROVE  /\ First(ws, i) \in Nat
           /\ First(ws, i) <= First(ws, j)
           /\ (\A k \in 1..n : ws[k] > 0) /\ i < j => First(ws, i) < First(ws, j)
<1> DEFINE F(k) == First(ws, k)
           AllPositive == \A k \in 1..n : ws[k] > 0
           Bad == {d \in Nat : \E k \in 0..n : k + d <= n /\
                      ~(F(k) <= F(k + d) /\ (AllPositive /\ d > 0 => F(k) < F(k + d)))}
<1>1. /\ n \in Nat /\ F(0) = 0 /\ \A k \in 0..n : F(k) \in Int
      /\ \A k \in 1..n : F(k) = F(k - 1) + ws[k] /\ ws[k] \in Nat
  BY FirstAddsUp
<1> HIDE DEF F
<1>2. ASSUME NEW d \in Nat, d \in Bad, \A m \in Bad : d <= m
      PROVE  FALSE
  <2>1. PICK k \in 0..n : k + d <= n /\
                      ~(F(k) <= F(k + d) /\ (AllPositive /\ d > 0 => F(k) < F(k + d)))
    BY <1>2
  <2>2. d # 0
    BY <1>1, <2>1
  <2>3. d - 1 \notin Bad /\ d - 1 \in Nat
    <3>1. d - 1 \in Nat /\ ~(d <= d - 1)
      BY <2>2
    <3> HIDE DEF Bad
    <3> QED BY <1>2, <3>1
  <2>4. F(k) <= F(k + (d - 1))
    BY <1>1, <2>1, <2>3
  <2>5. k + d \in 1..n /\ k + (d - 1) = (k + d) - 1 /\ k + (d - 1) \in 0..n
    BY <1>1, <2>1, <2>2
  <2>6. /\ F(k + d) = F(k + (d - 1)) + ws[k + d] /\ ws[k + d] \in Nat
        /\ AllPositive => ws[k + d] > 0
    BY <1>1, <2>5
  <2> HIDE DEF AllPositive
  <2>7. F(k) \in Int /\ F(k + d) \in Int /\ F(k + (d - 1)) \in Int
    BY <1>1, <2>5
  <2>8. F(k) <= F(k + d)
    BY <2>4, <2>6, <2>7
  <2>9. ASSUME AllPositive
        PROVE  F(k) < F(k + d)
    BY <2>4, <2>6, <2>7, <2>9
  <2> QED BY <2>1, <2>8, <2>9
<1>3. Bad = {}
  <2>1. Bad \in SUBSET Nat
    OBVIOUS
  <2> HIDE DEF Bad
  <2> QED BY <1>2, <2>1, LeastNatural
<1>4. j - i \in Nat /\ i + (j - i) = j /\ i \in Nat /\ 0 + i = i /\ 0 \in 0..n
  BY <1>1
<1>5. F(i) <= F(j) /\ (AllPositive /\ i < j => F(i) < F(j))
  <2>1. j - i \notin Bad
    BY <1>3
  <2> QED BY <1>1, <1>4, <2>1
<1>6. F(0) <= F(i)
  <2>1. i \notin Bad
    BY <1>3
  <2> QED BY <1>1, <1>4, <2>1
<1> QED BY <1>1, <1>5, <1>6 DEF F

\* The thresholds are the ws of the voters before.
LEMMA ThresholdsOf ==
    ASSUME NEW ws \in Seq(Nat), NEW n, n = Len(ws)
    PROVE  /\ Thresholds(ws) \in [1..n -> Int] /\ Len(Thresholds(ws)) = n
           /\ \A i \in 1..n : Thresholds(ws)[i] = First(ws, i - 1)
<1>1. n \in Nat /\ ws \in [1..n -> Nat] /\ DOMAIN ws = 1..n
  OBVIOUS
<1>2. ASSUME NEW i \in 1..n
      PROVE  TotalWeight(SubSeq(ws, 1, i - 1)) = First(ws, i - 1)
  <2> DEFINE part == SubSeq(ws, 1, i - 1)
  <2>1. /\ DOMAIN part = 1..(i - 1) /\ i - 1 \in 0..n
        /\ \A k \in 1..(i - 1) : part[k] = ws[k] /\ ws[k] \in Int
    BY <1>1
  <2>2. IsFiniteSet(1..(i - 1))
    BY <2>1, FS_Interval
  <2> HIDE DEF part
  <2>3. TotalWeight(part) = SumFunctionOnSet(part, 1..(i - 1))
    BY <2>1 DEF TotalWeight, SumFunction
  <2> QED BY <2>1, <2>2, <2>3, SumSame DEF part, First
<1>3. \A i \in 1..n : Thresholds(ws)[i] = First(ws, i - 1)
  BY <1>1, <1>2 DEF Thresholds
<1>4. \A i \in 1..n : i - 1 \in 0..n
  BY <1>1
<1>5. \A i \in 1..n : First(ws, i - 1) \in Int
  BY <1>4, FirstAddsUp
<1>6. Thresholds(ws) = [i \in 1..n |-> First(ws, i - 1)]
  BY <1>1, <1>2 DEF Thresholds
<1>7. Thresholds(ws) \in [1..n -> Int]
  BY <1>5, <1>6
<1>8. Len(Thresholds(ws)) = n
  BY <1>1, <1>7
<1> QED BY <1>3, <1>7, <1>8

\* selectVoterIndex finds the voter whose weight the value falls into.
LEMMA VoterFound ==
    ASSUME NEW ws \in Seq(Nat), NEW n, n = Len(ws),
           NEW value \in 0..(TotalWeight(ws) - 1), NEW i, i = SelectVoterIndex(ws, value)
    PROVE  /\ i \in 1..n
           /\ First(ws, i - 1) <= value
           /\ value = First(ws, i - 1) \/ value < First(ws, i)
<1>1. /\ n \in Nat /\ First(ws, 0) = 0 /\ TotalWeight(ws) = First(ws, n)
      /\ \A k \in 0..n : First(ws, k) \in Int
  BY FirstAddsUp
<1>2. n # 0 /\ value \in Int /\ 0 <= value /\ value < First(ws, n)
  BY <1>1
<1> DEFINE thresholds == Thresholds(ws)
<1>3. /\ thresholds \in [1..n -> Int] /\ Len(thresholds) = n
      /\ \A k \in 1..n : thresholds[k] = First(ws, k - 1)
  BY ThresholdsOf
<1>4. i = Search(thresholds, value)
  BY DEF SelectVoterIndex
<1> HIDE DEF thresholds
<1>5. thresholds[1] <= value /\ n \in Nat \ {0}
  BY <1>1, <1>2, <1>3
<1>6. Found(thresholds, value, n, i)
  BY <1>2, <1>3, <1>4, <1>5, PlaceFound
<1>7. i \in 1..n /\ First(ws, i - 1) <= value
  BY <1>3, <1>6 DEF Found
<1>8. CASE i = n
  BY <1>2, <1>7, <1>8
<1>9. CASE i < n
  <2>1. i + 1 \in 1..n /\ (i + 1) - 1 = i
    BY <1>7, <1>9, <1>1
  <2>2. thresholds[i + 1] = First(ws, i)
    BY <1>3, <2>1
  <2> QED BY <1>3, <1>6, <1>7, <1>9, <2>2 DEF Found
<1> QED BY <1>1, <1>7, <1>8, <1>9

\* An interval of w numbers.
LEMMA IntervalSize ==
    ASSUME NEW a \in Int, NEW b \in Int, NEW w \in Nat, b = a + w
    PROVE  Cardinality(a..(b - 1)) = w
<1> DEFINE last == b - 1
<1>1. last \in Int /\ (a > last <=> w = 0) /\ last - a + 1 = w
  OBVIOUS
<1> HIDE DEF last
<1>2. Cardinality(a..last) = w
  BY <1>1, FS_Interval
<1> QED BY <1>2 DEF last

\* Of the numbers below the total weight, as many lead to a voter as it has weight.
LEMMA DrawnByWeight ==
    ASSUME NEW ws \in Seq(Nat), \A k \in DOMAIN ws : ws[k] > 0,
           NEW i \in DOMAIN ws
    PROVE  Cardinality({value \in 0..(TotalWeight(ws) - 1) : SelectVoterIndex(ws, value) = i})
               = ws[i]
<1> DEFINE n == Len(ws)
           leading == {value \in 0..(TotalWeight(ws) - 1) : SelectVoterIndex(ws, value) = i}
           a == First(ws, i - 1)
           b == First(ws, i)
<1>1. /\ n \in Nat /\ i \in 1..n /\ \A k \in 1..n : ws[k] > 0
      /\ ws[i] \in Nat /\ TotalWeight(ws) = First(ws, n)
  BY FirstAddsUp
<1>2. i - 1 \in 0..n /\ i \in 0..n /\ n \in 0..n
  BY <1>1
<1>3. a \in Nat /\ b \in Int /\ b = a + ws[i] /\ b <= TotalWeight(ws) /\ TotalWeight(ws) \in Int
  <2>1. i - 1 <= i /\ i <= n
    BY <1>1
  <2>2. a \in Nat /\ b <= First(ws, n)
    BY <1>2, <2>1, FirstGrows
  <2>3. b \in Int /\ First(ws, n) \in Int /\ b = a + ws[i]
    BY <1>1, <1>2, FirstAddsUp
  <2> QED BY <1>1, <2>2, <2>3
<1>4. ASSUME NEW value \in 0..(TotalWeight(ws) - 1)
      PROVE  SelectVoterIndex(ws, value) = i <=> value \in a..(b - 1)
  <2> DEFINE j == SelectVoterIndex(ws, value)
  <2>1. /\ j \in 1..n /\ First(ws, j - 1) <= value
        /\ value = First(ws, j - 1) \/ value < First(ws, j)
    BY VoterFound
  <2> HIDE DEF j
  <2>2. /\ j - 1 \in 0..n /\ j \in 0..n /\ First(ws, j - 1) \in Int
        /\ First(ws, j) \in Int /\ First(ws, j - 1) < First(ws, j)
    <3>1. j - 1 \in 0..n /\ j \in 0..n /\ j - 1 < j /\ j - 1 <= j
      BY <1>1, <2>1
    <3> QED BY <1>1, <3>1, FirstAddsUp, FirstGrows
  <2>3. value < First(ws, j) /\ value \in Int
    BY <1>3, <2>1, <2>2
  <2>4. CASE j = i
    <3>1. a <= value /\ value < b
      BY <2>1, <2>3, <2>4
    <3> HIDE DEF a, b
    <3>2. value \in a..(b - 1)
      BY <1>3, <2>3, <3>1
    <3> QED BY <2>4, <3>2 DEF j
  <2>5. CASE j < i
    <3>1. j <= i - 1
      BY <1>1, <2>1, <2>5
    <3>2. First(ws, j) <= a
      BY <1>2, <2>2, <3>1, FirstGrows
    <3> HIDE DEF a, b
    <3>3. value < a
      BY <1>3, <2>2, <2>3, <3>2
    <3>4. value \notin a..(b - 1) /\ j # i
      BY <1>1, <1>3, <2>1, <2>3, <2>5, <3>3
    <3> QED BY <3>4 DEF j
  <2>6. CASE i < j
    <3>1. i <= j - 1
      BY <1>1, <2>1, <2>6
    <3>2. b <= First(ws, j - 1)
      BY <1>2, <2>2, <3>1, FirstGrows
    <3> HIDE DEF a, b
    <3>3. b <= value
      BY <1>3, <2>1, <2>2, <2>3, <3>2
    <3>4. value \notin a..(b - 1) /\ j # i
      BY <1>1, <1>3, <2>1, <2>3, <2>6, <3>3
    <3> QED BY <3>4 DEF j
  <2> QED BY <1>1, <2>1, <2>4, <2>5, <2>6 DEF j
<1>5. leading = a..(b - 1)
  BY <1>3, <1>4
<1>6. Cardinality(a..(b - 1)) = ws[i]
  BY <1>1, <1>3, IntervalSize
<1> QED BY <1>5, <1>6

-----------------------------------------------------------------------------
\* The ws of a set of voters, and 0 for the others.
Chosen(ws, voters) == [i \in DOMAIN ws |-> IF i \in voters THEN ws[i] ELSE 0]

\* Without voters there is no weight.
LEMMA ChosenNone ==
    ASSUME NEW ws \in Seq(Nat)
    PROVE  TotalWeight(Chosen(ws, {})) = 0
<1> DEFINE D == DOMAIN ws
           c == Chosen(ws, {})
<1>1. D = 1..Len(ws) /\ Len(ws) \in Nat /\ DOMAIN c = D /\ \A i \in D : c[i] = 0
  BY DEF Chosen
<1> DEFINE Bad == {k \in Nat : k <= Len(ws) /\ SumFunctionOnSet(c, 1..k) # 0}
<1> HIDE DEF c
<1>2. ASSUME NEW k \in Nat, k \in Bad, \A m \in Bad : k <= m
      PROVE  FALSE
  <2>1. k <= Len(ws) /\ SumFunctionOnSet(c, 1..k) # 0
    BY <1>2
  <2>2. IsFiniteSet(1..k) /\ IntegersOn(c, 1..k)
    <3>1. IsFiniteSet(1..k)
      BY FS_Interval
    <3>2. 1..k \subseteq D
      BY <1>1, <2>1
    <3>3. \A i \in 1..k : c[i] = 0
      BY <1>1, <3>2
    <3> QED BY <3>1, <3>3 DEF IntegersOn
  <2>3. k # 0
    <3>1. ASSUME k = 0
          PROVE  FALSE
      <4>1. 1..k = {} /\ \A i \in 1..k : c[i] \in Int
        BY <3>1
      <4>2. SumFunctionOnSet(c, 1..k) = 0
        BY <2>2, <4>1, SumTake
      <4> QED BY <2>1, <4>2
    <3> QED BY <3>1
  <2>4. k \in 1..k /\ (1..k) \ {k} = 1..(k - 1) /\ k - 1 \in Nat /\ c[k] = 0
    BY <1>1, <2>1, <2>3
  <2>5. SumFunctionOnSet(c, 1..k) = c[k] + SumFunctionOnSet(c, (1..k) \ {k})
    BY <2>2, <2>4, SumOne
  <2>6. k - 1 \notin Bad
    <3>1. ~(k <= k - 1)
      OBVIOUS
    <3> HIDE DEF Bad
    <3> QED BY <1>2, <3>1
  <2>7. SumFunctionOnSet(c, 1..(k - 1)) = 0
    BY <1>1, <2>1, <2>4, <2>6
  <2>8. SumFunctionOnSet(c, 1..k) = 0 + SumFunctionOnSet(c, 1..(k - 1))
    BY <2>4, <2>5
  <2> QED BY <2>1, <2>7, <2>8
<1>3. Len(ws) \notin Bad
  <2>1. Bad \in SUBSET Nat
    OBVIOUS
  <2> HIDE DEF Bad
  <2> QED BY <1>2, <2>1, LeastNatural
<1> QED BY <1>1, <1>3 DEF TotalWeight, SumFunction, c

\* One more voter adds its weight.
LEMMA ChosenOneMore ==
    ASSUME NEW ws \in Seq(Nat), NEW voters, NEW v \in DOMAIN ws, v \notin voters
    PROVE  /\ TotalWeight(Chosen(ws, voters)) \in Int
           /\ TotalWeight(Chosen(ws, voters \cup {v})) = TotalWeight(Chosen(ws, voters)) + ws[v]
<1> DEFINE D == DOMAIN ws
           c == Chosen(ws, voters)
           e == Chosen(ws, voters \cup {v})
           R == D \ {v}
<1>1. IsFiniteSet(D)
  <2>1. D = 1..Len(ws) /\ Len(ws) \in Nat
    OBVIOUS
  <2> QED BY <2>1, FS_Interval
<1>2. /\ DOMAIN c = D /\ DOMAIN e = D /\ c[v] = 0 /\ e[v] = ws[v] /\ ws[v] \in Int
      /\ IntegersOn(c, D) /\ IntegersOn(e, D)
      /\ \A i \in R : c[i] = e[i] /\ e[i] \in Int
  BY DEF Chosen, IntegersOn
<1>3. IsFiniteSet(R)
  BY <1>1, FS_RemoveElement
<1> HIDE DEF c, e
<1>4. SumFunctionOnSet(c, D) \in Int /\ SumFunctionOnSet(c, D) = c[v] + SumFunctionOnSet(c, R)
      /\ SumFunctionOnSet(c, R) \in Int
  BY <1>1, <1>2, SumOne
<1>5. SumFunctionOnSet(e, D) = e[v] + SumFunctionOnSet(e, R)
  BY <1>1, <1>2, SumOne
<1> HIDE DEF R
<1>6. SumFunctionOnSet(c, R) = SumFunctionOnSet(e, R)
  BY <1>2, <1>3, SumSame
<1>7. TotalWeight(c) = SumFunctionOnSet(c, D) /\ TotalWeight(e) = SumFunctionOnSet(e, D)
  BY <1>2 DEF TotalWeight, SumFunction
<1>8. TotalWeight(c) = SumFunctionOnSet(c, R) /\ TotalWeight(e) = ws[v] + SumFunctionOnSet(c, R)
  BY <1>2, <1>4, <1>5, <1>6, <1>7
<1>9. TotalWeight(c) \in Int /\ TotalWeight(e) = TotalWeight(c) + ws[v]
  BY <1>2, <1>4, <1>8
<1> QED BY <1>9 DEF c, e

-----------------------------------------------------------------------------
(* The inductive invariant of the selection *)

\* The weight counted is that of the voters drawn, each counted once; one that is
\* among them was drawn before the threshold was reached.
SelectionInv ==
    /\ voterWeights \in Seq(Nat) /\ selected \subseteq DOMAIN voterWeights
    /\ selectedWeight \in Int /\ selecting \in BOOLEAN
    /\ selectedWeight = TotalWeight(Chosen(voterWeights, selected))
    /\ ~selecting => selectedWeight >= ThresholdWeight(voterWeights)
    /\ \/ selected = {}
       \/ \E last \in selected :
              selectedWeight - voterWeights[last] < ThresholdWeight(voterWeights)

\* Nobody is selected yet.
LEMMA SelectionInitInv == SelectionInit => SelectionInv
<1> SUFFICES ASSUME SelectionInit PROVE SelectionInv
  OBVIOUS
<1>1. voterWeights \in Seq(Nat)
  BY SelectionAssumption DEF SelectionInit
<1> QED BY <1>1, ChosenNone DEF SelectionInit, SelectionInv

\* A draw adds the weight of a new voter, who is the last one needed so far, or
\* changes nothing.
LEMMA DrawInv ==
    ASSUME SelectionInv, NEW value \in 0..(TotalWeight(voterWeights) - 1), Draw(value)
    PROVE  SelectionInv'
<1> DEFINE drawn == SelectVoterIndex(voterWeights, value)
           threshold == ThresholdWeight(voterWeights)
<1>1. /\ voterWeights \in Seq(Nat) /\ selected \subseteq DOMAIN voterWeights
      /\ selectedWeight \in Int /\ selecting \in BOOLEAN
      /\ selectedWeight = TotalWeight(Chosen(voterWeights, selected))
      /\ \/ selected = {}
         \/ \E last \in selected : selectedWeight - voterWeights[last] < threshold
  BY DEF SelectionInv
<1>2. /\ selecting /\ selecting' = selecting /\ voterWeights' = voterWeights
      /\ selectedWeight < threshold
      /\ selected' = selected \cup {drawn}
      /\ selectedWeight' = selectedWeight
                              + (IF drawn \in selected THEN 0 ELSE voterWeights[drawn])
  BY DEF Draw
<1>3. drawn \in DOMAIN voterWeights
  <2>1. drawn \in 1..Len(voterWeights)
    BY <1>1, VoterFound
  <2> QED BY <1>1, <2>1
<1>4. voterWeights[drawn] \in Nat
  BY <1>1, <1>3
<1>5. ThresholdWeight(voterWeights)' = threshold
  BY <1>2 DEF ThresholdWeight
<1>6. TotalWeight(Chosen(voterWeights, selected))' = TotalWeight(Chosen(voterWeights, selected'))
  BY <1>2
<1> HIDE DEF drawn, threshold
<1>7. CASE drawn \in selected
  <2>1. selected' = selected /\ selectedWeight' = selectedWeight
    BY <1>1, <1>2, <1>7
  <2>2. selectedWeight' = TotalWeight(Chosen(voterWeights, selected'))
    BY <1>1, <2>1
  <2> QED BY <1>1, <1>2, <1>5, <1>6, <2>1, <2>2 DEF SelectionInv
<1>8. CASE drawn \notin selected
  <2>1. selectedWeight' = selectedWeight + voterWeights[drawn]
    BY <1>2, <1>8
  <2>2. TotalWeight(Chosen(voterWeights, selected')) = TotalWeight(Chosen(voterWeights, selected)) + voterWeights[drawn]
    BY <1>1, <1>2, <1>3, <1>8, ChosenOneMore
  <2>3. selectedWeight' = TotalWeight(Chosen(voterWeights, selected')) /\ selectedWeight' \in Int
    BY <1>1, <1>4, <2>1, <2>2
  <2>4. selectedWeight' - voterWeights'[drawn] = selectedWeight
    BY <1>1, <1>2, <1>4, <2>1
  <2>5. drawn \in selected' /\ selectedWeight' - voterWeights'[drawn] < threshold
    BY <1>2, <2>4
  <2> QED BY <1>1, <1>2, <1>3, <1>5, <1>6, <2>3, <2>5 DEF SelectionInv
<1> QED BY <1>7, <1>8

\* All steps of the selection.
LEMMA SelectionNextInv == SelectionInv /\ [SelectionNext]_selectionVars => SelectionInv'
<1> SUFFICES ASSUME SelectionInv, [SelectionNext]_selectionVars PROVE SelectionInv'
  OBVIOUS
<1>1. ASSUME NEW value \in 0..(TotalWeight(voterWeights) - 1), Draw(value)
      PROVE  SelectionInv'
  BY <1>1, DrawInv
<1>2. CASE Selected
  BY <1>2 DEF Selected, SelectionInv, ThresholdWeight, Chosen
<1>3. CASE UNCHANGED selectionVars
  BY <1>3 DEF selectionVars, SelectionInv, ThresholdWeight, Chosen
<1> QED BY <1>1, <1>2, <1>3 DEF SelectionNext

\* Whatever the weights and the random numbers, randomSelectThresholdWeightVoters
\* ends with voters that have the threshold's weight and one of whom was still
\* needed; and of the numbers below the total weight as many lead selectVoterIndex
\* to a voter as it has weight.
THEOREM SelectionByWeight == SelectionSpec => []ByWeight
<1>1. SelectionInit => SelectionInv
  BY SelectionInitInv
<1>2. SelectionInv /\ [SelectionNext]_selectionVars => SelectionInv'
  BY SelectionNextInv
<1>3. SelectionInv => ByWeight
  <2> SUFFICES ASSUME SelectionInv PROVE ByWeight
    OBVIOUS
  <2>1. SelectionReachesThreshold
    BY DEF SelectionInv, SelectionReachesThreshold, Chosen
  <2>2. SelectionProportional
    BY DrawnByWeight DEF SelectionInv, SelectionProportional
  <2> QED BY <2>1, <2>2 DEF ByWeight
<1> QED BY <1>1, <1>2, <1>3, PTL DEF SelectionSpec

-----------------------------------------------------------------------------
(* Minimal conditions *)

\* Who picks everything has the list.
LEMMA PickedAll ==
    ASSUME NEW R, NEW list \in Seq(R), NEW indices, DOMAIN list \subseteq indices
    PROVE  Picked(list, indices) = list
<1> DEFINE n == Len(list)
<1>1. PICK v \in [0..n -> Seq(R)] : PickSteps(v, list, indices) /\ Picked(list, indices) = v[n]
  BY PickedSteps
<1>2. n \in Nat /\ n \in 0..n /\ DOMAIN list = 1..n
  OBVIOUS
<1> DEFINE T == {k \in 0..n : v[k] = SubSeq(list, 1, k)}
<1>3. SubSeq(list, 1, 0) = <<>> /\ SubSeq(list, 1, n) = list
  BY PrefixEnds
<1>4. 0 \in T
  BY <1>1, <1>2, <1>3 DEF PickSteps
<1>5. ASSUME NEW k \in 1..n, k - 1 \in T
      PROVE  k \in T
  <2>1. k \in 0..n /\ k - 1 \in 0..n /\ v[k - 1] = SubSeq(list, 1, k - 1) /\ k \in indices
    BY <1>2, <1>5
  <2>2. v[k] = Append(v[k - 1], list[k])
    BY <1>1, <2>1 DEF PickSteps
  <2>3. SubSeq(list, 1, k) = Append(SubSeq(list, 1, k - 1), list[k])
    BY PrefixStep
  <2>4. v[k] = SubSeq(list, 1, k)
    BY <2>1, <2>2, <2>3
  <2> QED BY <2>1, <2>4
<1>6. n \in T
  <2> HIDE DEF T, n
  <2>1. \A k \in 0..n : k \in T
    BY <1>2, <1>4, <1>5, StepByStep
  <2> QED BY <1>2, <2>1
<1> QED BY <1>1, <1>3, <1>6

OnesOn(R) == [x \in R |-> 1]
EqualTo(R, v) == [x \in R |-> IF x = v THEN 1 ELSE 0]
MoreOf(R, v) == [x \in R |-> IF x = v THEN 1 ELSE -1]

\* The length of a list is the number of its elements, and what is more of one
\* element than of all others is twice its number less the length.
LEMMA LengthWeighs ==
    ASSUME NEW R, NEW list \in Seq(R), NEW v
    PROVE  /\ Weigh(OnesOn(R), list) = Len(list)
           /\ Weigh(MoreOf(R, v), list) = 2 * Weigh(EqualTo(R, v), list) - Len(list)
           /\ Weigh(EqualTo(R, v), list) \in Int
<1> DEFINE n == Len(list)
           one == OnesOn(R)
           equal == EqualTo(R, v)
           more == MoreOf(R, v)
           a(k) == WeighTo(one, list, k)
           b(k) == WeighTo(equal, list, k)
           c(k) == WeighTo(more, list, k)
<1>1. /\ one \in [R -> Int] /\ equal \in [R -> Int] /\ more \in [R -> Int]
      /\ n \in Nat /\ n \in 0..n
  BY DEF OnesOn, EqualTo, MoreOf
<1>7. \A x \in R : /\ one[x] = 1 /\ equal[x] = (IF x = v THEN 1 ELSE 0)
                   /\ more[x] = (IF x = v THEN 1 ELSE -1)
  BY DEF OnesOn, EqualTo, MoreOf
<1> HIDE DEF one, equal, more
<1>2. /\ Weigh(one, list) = a(n) /\ a(0) = 0
      /\ Weigh(equal, list) = b(n) /\ b(0) = 0 /\ Weigh(equal, list) \in Int
      /\ Weigh(more, list) = c(n) /\ c(0) = 0
  BY <1>1, WeighWhole
<1>3. \A k \in 1..n : /\ list[k] \in R
                      /\ a(k) = a(k - 1) + one[list[k]]
                      /\ b(k) = b(k - 1) + equal[list[k]] /\ b(k - 1) \in Int
                      /\ c(k) = c(k - 1) + more[list[k]]
  <2>1. \A k \in 1..n : a(k) = a(k - 1) + one[list[k]]
    <3>1. one \in [R -> Int]
      BY <1>1
    <3> QED BY ONLY <3>1, list \in Seq(R), WeighStep
  <2>2. \A k \in 1..n : b(k) = b(k - 1) + equal[list[k]] /\ b(k - 1) \in Int
    <3>1. equal \in [R -> Int]
      BY <1>1
    <3> QED BY ONLY <3>1, list \in Seq(R), WeighStep
  <2>3. \A k \in 1..n : c(k) = c(k - 1) + more[list[k]]
    <3>1. more \in [R -> Int]
      BY <1>1
    <3> QED BY ONLY <3>1, list \in Seq(R), WeighStep
  <2>4. \A k \in 1..n : list[k] \in R
    OBVIOUS
  <2> QED BY <2>1, <2>2, <2>3, <2>4
<1> HIDE DEF a, b, c
<1> DEFINE T == {k \in 0..n : a(k) = k /\ c(k) = 2 * b(k) - k}
<1>4. 0 \in T
  BY <1>1, <1>2
<1>5. ASSUME NEW k \in 1..n, k - 1 \in T
      PROVE  k \in T
  <2>1. k \in 0..n /\ a(k - 1) = k - 1 /\ c(k - 1) = 2 * b(k - 1) - (k - 1)
    BY <1>5
  <2>2. /\ a(k) = a(k - 1) + 1
        /\ b(k) = b(k - 1) + (IF list[k] = v THEN 1 ELSE 0) /\ b(k - 1) \in Int
        /\ c(k) = c(k - 1) + (IF list[k] = v THEN 1 ELSE -1)
    BY <1>3, <1>7
  <2>3. a(k) = k /\ c(k) = 2 * b(k) - k
    BY <2>1, <2>2
  <2> QED BY <2>1, <2>3
<1>6. n \in T
  <2> HIDE DEF T, n
  <2>1. \A k \in 0..n : k \in T
    BY <1>1, <1>4, <1>5, StepByStep
  <2> QED BY <1>1, <2>1
<1> QED BY <1>2, <1>6 DEF one, equal, more

CountOf(list, v) == Len(Select(list, LAMBDA u : u = v))

\* The times an element is in a list.
LEMMA CountIs ==
    ASSUME NEW R, NEW list \in Seq(R), NEW v
    PROVE  /\ CountOf(list, v) = Weigh(EqualTo(R, v), list)
           /\ CountOf(list, v) \in Nat
           /\ Weigh(MoreOf(R, v), list) = 2 * CountOf(list, v) - Len(list)
<1> DEFINE indices == {i \in DOMAIN list : list[i] = v}
           W == OnesOn(R)
           V == EqualTo(R, v)
           p == Picked(list, indices)
<1>1. W \in [R -> Int] /\ V \in [R -> Int]
  BY DEF OnesOn, EqualTo
<1>2. OnlyAt(V, W, list, indices)
  BY DEF OnlyAt, OnesOn, EqualTo
<1> HIDE DEF W, V, indices
<1>3. Weigh(W, p) = Weigh(V, list)
  BY <1>1, <1>2, WeighPicked
<1>4. p \in Seq(R)
  BY PickedElements
<1>5. Weigh(W, p) = Len(p)
  BY <1>4, LengthWeighs DEF W
<1>6. CountOf(list, v) = Len(p)
  BY DEF CountOf, Select, indices
<1>7. Len(p) \in Nat
  BY <1>4
<1>8. CountOf(list, v) = Weigh(EqualTo(R, v), list)
  BY <1>3, <1>5, <1>6 DEF V
<1>9. Weigh(MoreOf(R, v), list) = 2 * Weigh(EqualTo(R, v), list) - Len(list)
  BY LengthWeighs
<1> QED BY <1>6, <1>7, <1>8, <1>9

-----------------------------------------------------------------------------
UpdatesOf(round) == IF round.updates = Empty THEN <<>> ELSE round.updates
AllUpdates(epoch) == FlattenSeq([i \in DOMAIN epoch.rounds |-> UpdatesOf(epoch.rounds[i])])
UpdatesCounted(epoch) ==
    FlattenSeq([i \in DOMAIN Considered(epoch) |-> Considered(epoch)[i].updates])

UpdatesWeighSame(epoch, W) == Weigh(W, UpdatesCounted(epoch)) = Weigh(W, AllUpdates(epoch))

\* The rounds that are considered are some of the rounds, with their updates.
LEMMA ConsideredAre ==
    ASSUME NEW epoch, epoch.rounds \in Seq(ToSet(epoch.rounds))
    PROVE  /\ Considered(epoch) \in Seq(ToSet(epoch.rounds))
           /\ \A k \in DOMAIN Considered(epoch) :
                 /\ Considered(epoch)[k].updates # Empty
                 /\ \E i \in DOMAIN epoch.rounds : Considered(epoch)[k] = epoch.rounds[i]
           /\ (\A i \in DOMAIN epoch.rounds : epoch.rounds[i].updates # Empty)
                 => Considered(epoch) = epoch.rounds
<1> DEFINE R == ToSet(epoch.rounds)
           rounds == epoch.rounds
           indices == {i \in DOMAIN rounds : rounds[i].updates # Empty}
           p == Picked(rounds, indices)
<1>1. Considered(epoch) = p
  BY DEF Considered, Select
<1> HIDE DEF R
<1>2. rounds \in Seq(R)
  BY DEF R
<1>3. /\ p \in Seq(R)
      /\ \A k \in DOMAIN p : \E i \in DOMAIN rounds : i \in indices /\ p[k] = rounds[i]
  <2> HIDE DEF indices, rounds
  <2> QED BY <1>2, PickedElements
<1>4. \A k \in DOMAIN p : p[k].updates # Empty /\ \E i \in DOMAIN rounds : p[k] = rounds[i]
  BY <1>3
<1>5. (\A i \in DOMAIN rounds : rounds[i].updates # Empty) => p = rounds
  <2> SUFFICES ASSUME \A i \in DOMAIN rounds : rounds[i].updates # Empty PROVE p = rounds
    OBVIOUS
  <2>1. DOMAIN rounds \subseteq indices
    OBVIOUS
  <2> HIDE DEF indices, rounds
  <2> QED BY <1>2, <2>1, PickedAll
<1> HIDE DEF p
<1> QED BY <1>1, <1>3, <1>4, <1>5 DEF R

\* Updates that are counted weigh what all updates weigh.
LEMMA UpdatesAre ==
    ASSUME NEW epoch, NEW feeds, IsEpoch(epoch, feeds),
           NEW W \in [DOMAIN epoch.weights -> Int]
    PROVE  /\ AllUpdates(epoch) \in Seq(DOMAIN epoch.weights)
           /\ UpdatesCounted(epoch) \in Seq(DOMAIN epoch.weights)
           /\ UpdatesWeighSame(epoch, W)
<1> DEFINE R == DOMAIN epoch.weights
           rounds == epoch.rounds
           Rs == ToSet(epoch.rounds)
           p == Considered(epoch)
           ss1 == [i \in DOMAIN rounds |-> UpdatesOf(rounds[i])]
           ss2 == [i \in DOMAIN p |-> p[i].updates]
           WL == [list \in Seq(R) |-> Weigh(W, list)]
           V == [r \in Rs |-> WL[UpdatesOf(r)]]
           indices == {i \in DOMAIN rounds : rounds[i].updates # Empty}
<1>1. rounds \in Seq(Rs) /\ \A r \in Rs : UpdatesOf(r) \in Seq(R)
  <2>1. \A r \in Rs : \E i \in DOMAIN rounds : r = rounds[i]
    BY DEF ToSet
  <2>2. rounds \in Seq(Rs)
    BY DEF IsEpoch
  <2>3. \A i \in DOMAIN rounds : rounds[i].updates = Empty \/ rounds[i].updates \in Seq(R)
    BY DEF IsEpoch
  <2>4. <<>> \in Seq(R)
    OBVIOUS
  <2> HIDE DEF R, Rs, rounds
  <2> QED BY <2>1, <2>2, <2>3, <2>4 DEF UpdatesOf
<1>2. p \in Seq(Rs) /\ p = Picked(rounds, indices)
      /\ \A k \in DOMAIN p : p[k].updates # Empty
  BY <1>1, ConsideredAre DEF Considered, Select
<1> HIDE DEF p, Rs
<1>16. /\ \A i \in DOMAIN rounds : rounds[i] \in Rs /\ UpdatesOf(rounds[i]) \in Seq(R)
       /\ \A k \in DOMAIN p : /\ p[k] \in Rs /\ UpdatesOf(p[k]) \in Seq(R)
                              /\ p[k].updates = UpdatesOf(p[k])
       /\ DOMAIN rounds = 1..Len(rounds) /\ Len(rounds) \in Nat
       /\ DOMAIN p = 1..Len(p) /\ Len(p) \in Nat
  <2> HIDE DEF R, rounds, indices
  <2>1. \A k \in DOMAIN p : p[k] \in Rs
    BY <1>2
  <2>2. \A i \in DOMAIN rounds : rounds[i] \in Rs
    BY <1>1
  <2>3. \A k \in DOMAIN p : p[k].updates = UpdatesOf(p[k])
    BY <1>2 DEF UpdatesOf
  <2>4. /\ DOMAIN rounds = 1..Len(rounds) /\ Len(rounds) \in Nat
        /\ DOMAIN p = 1..Len(p) /\ Len(p) \in Nat
    BY <1>1, <1>2
  <2> QED BY <1>1, <2>1, <2>2, <2>3, <2>4
<1>3. ss1 \in Seq(Seq(R)) /\ DOMAIN ss1 = DOMAIN rounds
  <2> HIDE DEF R, rounds, indices
  <2> QED BY <1>16
<1>4. ss2 \in Seq(Seq(R)) /\ DOMAIN ss2 = DOMAIN p /\ \A k \in DOMAIN p : ss2[k] = UpdatesOf(p[k])
  <2> HIDE DEF R, rounds, indices
  <2> QED BY <1>16
<1>5. W \in [R -> Int]
  OBVIOUS
<1> HIDE DEF ss1, ss2, R, WL
<1>6. /\ FlattenSeq(ss1) \in Seq(R) /\ WL \in [Seq(R) -> Int]
      /\ Weigh(W, FlattenSeq(ss1)) = Weigh(WL, ss1)
  BY <1>3, <1>5, WeighFlatten DEF WL
<1>7. FlattenSeq(ss2) \in Seq(R) /\ Weigh(W, FlattenSeq(ss2)) = Weigh(WL, ss2)
  BY <1>4, <1>5, WeighFlatten DEF WL
<1>8. V \in [Rs -> Int]
  BY <1>1, <1>6
<1>9. Alike(WL, ss1, V, rounds)
  BY <1>1, <1>3 DEF Alike, ss1
<1>10. Alike(WL, ss2, V, p)
  BY <1>4, <1>16 DEF Alike
<1>11. OnlyAt(V, V, rounds, indices)
  <2> SUFFICES ASSUME NEW i \in DOMAIN rounds, i \notin indices PROVE V[rounds[i]] = 0
    BY DEF OnlyAt
  <2>1. UpdatesOf(rounds[i]) = <<>> /\ rounds[i] \in Rs
    BY <1>1 DEF UpdatesOf
  <2>2. <<>> \in Seq(R)
    OBVIOUS
  <2>3. WL[<<>>] = 0
    BY <2>2, WeighEmpty DEF WL
  <2> QED BY <2>1, <2>3
<1> HIDE DEF V, indices
<1>12. Weigh(WL, ss1) = Weigh(V, rounds)
  BY ONLY <1>1, <1>8, <1>9, WeighAlike
<1>13. Weigh(WL, ss2) = Weigh(V, p)
  BY ONLY <1>2, <1>8, <1>10, WeighAlike
<1>14. Weigh(V, p) = Weigh(V, rounds)
  <2>1. Weigh(V, Picked(rounds, indices)) = Weigh(V, rounds)
    BY ONLY <1>1, <1>8, <1>11, WeighPicked
  <2> QED BY ONLY <1>2, <2>1
<1>15. AllUpdates(epoch) = FlattenSeq(ss1) /\ UpdatesCounted(epoch) = FlattenSeq(ss2)
  BY DEF AllUpdates, UpdatesCounted, ss1, ss2, p
<1> QED BY <1>6, <1>7, <1>12, <1>13, <1>14, <1>15 DEF R, UpdatesWeighSame

\* The same updates are counted, and as many of a voter.
LEMMA SameCounted ==
    ASSUME NEW epoch, NEW feeds, IsEpoch(epoch, feeds), NEW v
    PROVE  /\ CountOf(UpdatesCounted(epoch), v) = CountOf(AllUpdates(epoch), v)
           /\ Len(UpdatesCounted(epoch)) = Len(AllUpdates(epoch))
           /\ CountOf(AllUpdates(epoch), v) \in Nat /\ Len(AllUpdates(epoch)) \in Nat
<1> DEFINE R == DOMAIN epoch.weights
           s == AllUpdates(epoch)
           t == UpdatesCounted(epoch)
<1>1. OnesOn(R) \in [R -> Int] /\ EqualTo(R, v) \in [R -> Int]
  BY DEF OnesOn, EqualTo
<1>2. s \in Seq(R) /\ t \in Seq(R) /\ UpdatesWeighSame(epoch, OnesOn(R))
      /\ UpdatesWeighSame(epoch, EqualTo(R, v))
  BY <1>1, UpdatesAre
<1> HIDE DEF R
<1>3. Weigh(OnesOn(R), s) = Len(s) /\ Weigh(OnesOn(R), t) = Len(t)
  BY <1>2, LengthWeighs
<1>4. /\ CountOf(s, v) = Weigh(EqualTo(R, v), s) /\ CountOf(s, v) \in Nat
      /\ CountOf(t, v) = Weigh(EqualTo(R, v), t)
  BY <1>2, CountIs
<1>5. Len(s) \in Nat
  BY <1>2
<1> QED BY <1>2, <1>3, <1>4, <1>5 DEF UpdatesWeighSame

-----------------------------------------------------------------------------
(* The passes of providers *)

\* A number, or the bound it may not pass.
LEMMA MaxOfTwo ==
    ASSUME NEW a \in Int
    PROVE  Max({a, 0}) = IF a >= 0 THEN a ELSE 0
<1> DEFINE S == {a, 0}
           m == IF a >= 0 THEN a ELSE 0
<1>1. m \in S /\ \A y \in S : m >= y
  OBVIOUS
<1>2. \A x \in S : (\A y \in S : x >= y) => x = m
  OBVIOUS
<1> HIDE DEF S, m
<1>3. Max(S) = m
  BY <1>1, <1>2 DEF Max
<1> QED BY <1>3 DEF S, m

\* A number, or a cap on it.
LEMMA MinOfTwo ==
    ASSUME NEW a \in Int, NEW b \in Int
    PROVE  Min({a, b}) = IF a <= b THEN a ELSE b
<1> DEFINE S == {a, b}
           m == IF a <= b THEN a ELSE b
<1>1. m \in S /\ \A y \in S : m <= y
  OBVIOUS
<1>2. \A x \in S : (\A y \in S : x <= y) => x = m
  OBVIOUS
<1> HIDE DEF S, m
<1>3. Min(S) = m
  BY <1>1, <1>2 DEF Min
<1> QED BY <1>3 DEF S, m

\* Strikes are counted, and who earned a pass has none.
LEMMA StrikesAre ==
    ASSUME NEW c
    PROVE  Strikes(c) \in Nat /\ (PassEarned(c) => Strikes(c) = 0)
<1> DEFINE All == {"scaling", "updates", "staking", "fdc"}
           S == {k \in All : ~c[k]}
<1>1. IsFiniteSet(All)
  <2>1. IsFiniteSet({}) /\ IsFiniteSet({} \cup {"fdc"})
    BY FS_EmptySet, FS_AddElement
  <2>2. IsFiniteSet(({} \cup {"fdc"}) \cup {"staking"})
    BY <2>1, FS_AddElement
  <2>3. IsFiniteSet((({} \cup {"fdc"}) \cup {"staking"}) \cup {"updates"})
    BY <2>2, FS_AddElement
  <2>4. IsFiniteSet(((({} \cup {"fdc"}) \cup {"staking"}) \cup {"updates"}) \cup {"scaling"})
    BY <2>3, FS_AddElement
  <2>5. All = ((({} \cup {"fdc"}) \cup {"staking"}) \cup {"updates"}) \cup {"scaling"}
    OBVIOUS
  <2> QED BY <2>4, <2>5
<1>2. IsFiniteSet(S)
  BY <1>1, FS_Subset
<1>3. PassEarned(c) => S = {}
  BY DEF PassEarned
<1> HIDE DEF S
<1>4. Cardinality(S) \in Nat /\ (S = {} => Cardinality(S) = 0)
  BY <1>2, FS_CardinalityType, FS_EmptySet
<1> QED BY <1>3, <1>4 DEF Strikes, S

\* The passes of both files are the same, a number, and no more than were held
\* and earned without the strikes.
LEMMA PassesGoOn ==
    ASSUME NEW c, NEW held \in Nat
    PROVE  /\ ExtractNewPasses(held, c) = NewPasses(held, c)
           /\ ExtractNewPasses(held, c) \in Nat
           /\ PassEarned(c) => ExtractNewPasses(held, c) <= held + 1
           /\ ~PassEarned(c) /\ Eligible(held, c) => ExtractNewPasses(held, c) <= held - Strikes(c)
           /\ ~PassEarned(c) /\ ~Eligible(held, c) => ExtractNewPasses(held, c) = 0
           /\ PassEarned(c) => Eligible(held, c)
<1> DEFINE s == Strikes(c)
<1>1. s \in Nat /\ (PassEarned(c) => s = 0) /\ MaxPasses \in Nat
  BY StrikesAre, ConditionsAssumption
<1>2. Eligible(held, c) <=> held >= s
  BY <1>1 DEF Eligible
<1>3. Max({held - s, 0}) = IF held >= s THEN held - s ELSE 0
  BY <1>1, MaxOfTwo
<1>4. CASE PassEarned(c)
  <2>1. ExtractNewPasses(held, c) = Min({MaxPasses, held + 1})
    BY <1>4 DEF ExtractNewPasses
  <2>2. NewPasses(held, c) = Min({MaxPasses, held + 1})
    BY <1>1, <1>3, <1>4 DEF NewPasses
  <2>3. Min({MaxPasses, held + 1}) = IF MaxPasses <= held + 1 THEN MaxPasses ELSE held + 1
    BY <1>1, MinOfTwo
  <2> QED BY <1>1, <1>2, <1>4, <2>1, <2>2, <2>3
<1>5. CASE ~PassEarned(c)
  <2> DEFINE left == IF held >= s THEN held - s ELSE 0
  <2>1. left \in Nat
    BY <1>1
  <2>2. ExtractNewPasses(held, c) = Min({MaxPasses, left})
    BY <1>3, <1>5 DEF ExtractNewPasses
  <2>3. NewPasses(held, c) = Min({MaxPasses, left + 0})
    BY <1>3, <1>5 DEF NewPasses
  <2>4. Min({MaxPasses, left}) = IF MaxPasses <= left THEN MaxPasses ELSE left
    BY <1>1, <2>1, MinOfTwo
  <2>5. left + 0 = left
    BY <2>1
  <2>6. left <= held - s \/ ~Eligible(held, c)
    BY <1>1, <1>2
  <2>7. ~Eligible(held, c) => left = 0
    BY <1>2
  <2>8. Eligible(held, c) => left <= held - s
    BY <2>6
  <2> HIDE DEF left
  <2>9. /\ ExtractNewPasses(held, c) = NewPasses(held, c)
        /\ ExtractNewPasses(held, c) \in Nat /\ ExtractNewPasses(held, c) <= left
    BY <1>1, <2>1, <2>2, <2>3, <2>4, <2>5
  <2> HIDE DEF s
  <2> QED BY <1>1, <1>5, <2>1, <2>7, <2>8, <2>9 DEF s
<1> QED BY <1>4, <1>5

\* Passes, and what was earned and forgiven, are numbers; a file of passes says
\* what the file of conditions says; and passes are earned before they are held
\* or used up.
PassesInv ==
    /\ \A p \in DOMAIN passes : passes[p] \in Nat
    /\ earned \in [Providers -> Nat] /\ forgiven \in [Providers -> Nat]
    /\ PassesEarned /\ PassFilesAgree

\* Who is in no file holds none.
LEMMA HeldAre ==
    ASSUME PassesInv, NEW p
    PROVE  Held(p) \in Nat
BY DEF PassesInv, Held

\* It holds at first.
LEMMA PassesInvInit == CalcInit => PassesInv
<1> SUFFICES ASSUME passes = <<>>, outcome = <<>>, earned = [p \in Providers |-> 0],
                    forgiven = [p \in Providers |-> 0]
             PROVE  PassesInv
  BY DEF CalcInit, PassesInit, PassesRest
<1>1. DOMAIN passes = {}
  OBVIOUS
<1>2. \A p \in Providers : Held(p) + forgiven[p] <= earned[p]
  BY <1>1 DEF Held
<1> QED BY <1>1, <1>2 DEF PassesInv, PassesEarned, PassFilesAgree

\* An epoch more keeps it.
LEMMA EpochKeepsPasses ==
    ASSUME PassesInv, NEW registered \in SUBSET Providers,
           NEW conditions \in [registered -> ConditionRecords], NextEpoch(conditions)
    PROVE  PassesInv'
<1> DEFINE gets(p) == ExtractNewPasses(Held(p), conditions[p])
           earns(p) == p \in registered /\ PassEarned(conditions[p])
           isForgiven(p) == p \in registered /\ Eligible(Held(p), conditions[p])
<1>1. /\ passes' = [p \in registered |-> gets(p)]
      /\ outcome' = [p \in registered |-> NewPasses(Held(p), conditions[p])]
      /\ earned' = [p \in Providers |-> earned[p] + (IF earns(p) THEN 1 ELSE 0)]
      /\ forgiven' = [p \in Providers |->
                        forgiven[p] + (IF isForgiven(p) THEN Strikes(conditions[p]) ELSE 0)]
  BY DEF NextEpoch
<1>2. \A p : Held(p) \in Nat
  BY HeldAre
<1>3. \A p : gets(p) = NewPasses(Held(p), conditions[p]) /\ gets(p) \in Nat
  BY <1>2, PassesGoOn
<1>4. \A p \in DOMAIN passes' : passes'[p] \in Nat
  BY <1>1, <1>3
<1>5. PassFilesAgree'
  BY <1>1, <1>3 DEF PassFilesAgree
<1>6. earned' \in [Providers -> Nat] /\ forgiven' \in [Providers -> Nat]
  BY <1>1, StrikesAre DEF PassesInv
<1>7. ASSUME NEW p \in Providers
      PROVE  (Held(p) + forgiven[p] <= earned[p])'
  <2> DEFINE c == conditions[p]
  <2>1. /\ Held(p) \in Nat /\ forgiven[p] \in Nat /\ earned[p] \in Nat
        /\ Held(p) + forgiven[p] <= earned[p] /\ Strikes(c) \in Nat
    BY <1>2, StrikesAre DEF PassesInv, PassesEarned
  <2>2. Held(p)' = IF p \in registered THEN gets(p) ELSE 0
    BY <1>1 DEF Held
  <2>3. /\ PassEarned(c) => gets(p) <= Held(p) + 1 /\ Strikes(c) = 0
        /\ ~PassEarned(c) /\ Eligible(Held(p), c) => gets(p) <= Held(p) - Strikes(c)
        /\ ~PassEarned(c) /\ ~Eligible(Held(p), c) => gets(p) = 0
        /\ gets(p) \in Nat
    BY <1>2, <1>3, PassesGoOn, StrikesAre
  <2>4. /\ earned'[p] = earned[p] + (IF earns(p) THEN 1 ELSE 0)
        /\ forgiven'[p] = forgiven[p] + (IF isForgiven(p) THEN Strikes(c) ELSE 0)
    BY <1>1
  <2> HIDE DEF gets
  <2> QED BY <2>1, <2>2, <2>3, <2>4
<1> QED BY <1>4, <1>5, <1>6, <1>7 DEF PassesInv, PassesEarned

\* Every step keeps it.
LEMMA PassesInvNext == PassesInv /\ [CalcNext]_calcVars => PassesInv'
<1> SUFFICES ASSUME PassesInv, [CalcNext]_calcVars PROVE PassesInv'
  OBVIOUS
<1>1. UNCHANGED passesVars \/ PassesNext
  BY DEF CalcNext, calcVars
<1>2. CASE UNCHANGED passesVars
  BY <1>2 DEF passesVars, PassesInv, PassesEarned, PassFilesAgree, Held
<1>3. CASE PassesNext
  BY <1>3, EpochKeepsPasses DEF PassesNext
<1> QED BY <1>1, <1>2, <1>3

\* So it holds always.
LEMMA PassesInvariant == CalcSpec => []PassesInv
BY PassesInvInit, PassesInvNext, PTL DEF CalcSpec
-----------------------------------------------------------------------------
\* Shares of all that there is.
LEMMA SharesAre ==
    /\ TotalPpm \in Nat \ {0} /\ UpdatesShare \in Nat /\ Availability \in Nat
    /\ FdcShare \in Nat /\ UptimeShare \in Nat /\ Closeness \in Nat
    /\ UpdatesShare <= TotalPpm /\ Availability <= TotalPpm
    /\ FdcShare <= TotalPpm /\ UptimeShare <= TotalPpm
    /\ MinSelfBond \in Nat /\ DesiredSelfBond \in Nat /\ MinSelfBond <= DesiredSelfBond
BY SharesAssumption, ConditionsAssumption

\* A share that is divided by the whole is not rounded up.
LEMMA NotRoundedUp ==
    ASSUME NEW w \in Nat, NEW u \in Nat, NEW t \in Nat \ {0}, NEW c \in Nat, NEW all \in Nat,
           NEW ppm \in Nat, ppm * t * c >= w * u * all
    PROVE  ppm * c >= ((w * u) \div t) * all
<1> DEFINE e == (w * u) \div t
<1>1. w * u \in Nat
  OBVIOUS
<1>2. e \in Nat /\ e * t <= w * u
  BY <1>1, DivFloor
<1> HIDE DEF e
<1>3. (e * t) * all <= (w * u) * all
  BY <1>1, <1>2, MulMonotone
<1>4. (e * all) * t <= (ppm * c) * t
  BY <1>2, <1>3
<1>5. e * all \in Nat /\ ppm * c \in Nat
  BY <1>2
<1>6. e * all <= ppm * c
  BY <1>4, <1>5, MulCancel
<1> QED BY <1>5, <1>6 DEF e

\* Who has its share of the updates meets the condition.
LEMMA UpdatesSuffice ==
    ASSUME NEW epoch, NEW feeds, IsEpoch(epoch, feeds), NEW v \in DOMAIN epoch.weights,
           TotalPpm * SumFunction(epoch.weights) * CountOf(AllUpdates(epoch), v)
              >= epoch.weights[v] * UpdatesShare * Len(AllUpdates(epoch))
    PROVE  UpdatesMet(epoch, v)
<1> DEFINE t == SumFunction(epoch.weights)
           w == epoch.weights[v]
           c == CountOf(AllUpdates(epoch), v)
           all == Len(AllUpdates(epoch))
           expected == (w * UpdatesShare) \div t
<1>1. epoch.weights \in Seq(Nat) /\ t > 0
  BY DEF IsEpoch
<1>2. t \in Nat /\ w \in Nat
  BY <1>1, WeightsLeft
<1>3. c \in Nat /\ all \in Nat /\ CountOf(UpdatesCounted(epoch), v) = c
      /\ Len(UpdatesCounted(epoch)) = all
  BY SameCounted
<1> HIDE DEF t, w, c, all
<1>4. TotalPpm * t * c >= w * UpdatesShare * all
  BY DEF t, w, c, all
<1>5. TotalPpm * c >= expected * all
  <2>1. t \in Nat \ {0}
    BY <1>1, <1>2
  <2> QED BY <1>2, <1>3, <1>4, <2>1, SharesAre, NotRoundedUp
<1> HIDE DEF expected
<1>6. TotalPpm * CountOf(UpdatesCounted(epoch), v) >= expected * Len(UpdatesCounted(epoch))
  BY <1>3, <1>5
<1> QED BY <1>6 DEF UpdatesMet, CountOf, UpdatesCounted, expected, t, w

FeesOf(round) == round.signing \cup round.finalization

\* Who has a fee in all rounds, and no offense, meets the condition.
LEMMA FeesSuffice ==
    ASSUME NEW epoch, NEW feeds, IsEpoch(epoch, feeds), NEW v,
           \A i \in DOMAIN epoch.rounds :
               FeesOf(epoch.rounds[i]) # {} => v \in FeesOf(epoch.rounds[i]) \ epoch.rounds[i].offense
    PROVE  FdcMet(epoch, v)
<1> DEFINE R == ToSet(epoch.rounds)
           p == Considered(epoch)
           some == {i \in DOMAIN p : FeesOf(p[i]) # {}}
           own == {i \in DOMAIN p : v \in FeesOf(p[i]) \ p[i].offense}
<1>1. epoch.rounds \in Seq(R)
  BY DEF IsEpoch
<1>2. p \in Seq(R) /\ \A k \in DOMAIN p : \E i \in DOMAIN epoch.rounds : p[k] = epoch.rounds[i]
  BY <1>1, ConsideredAre
<1> HIDE DEF p, R
<1>3. some = own
  BY <1>2
<1> DEFINE n == Len(Picked(p, some))
<1>4. CountRounds(epoch, LAMBDA r : r.signing \cup r.finalization # {}) = n
  BY DEF CountRounds, Select, FeesOf, p
<1>5. CountRounds(epoch, LAMBDA r : v \in (r.signing \cup r.finalization) \ r.offense) = Len(Picked(p, own))
  BY DEF CountRounds, Select, FeesOf, p
<1> HIDE DEF some, own
<1>6. CountRounds(epoch, LAMBDA r : v \in (r.signing \cup r.finalization) \ r.offense) = n
  BY <1>3, <1>5
<1>7. n \in Nat
  <2>1. Picked(p, some) \in Seq(R)
    BY <1>2, PickedElements
  <2> QED BY <2>1
<1> HIDE DEF n
<1>8. TotalPpm * n >= FdcShare * n
  BY <1>7, SharesAre, MulMonotone
<1> QED BY <1>4, <1>6, <1>8 DEF FdcMet

\* Rounding is never at a provider's disadvantage.
LEMMA ShareMeets ==
    ASSUME input \in Inputs \cup {NoInput}
    PROVE  ShareMeetsCondition
<1> SUFFICES ASSUME input.subject = "conditions" PROVE ShareMeetsCondition
  BY DEF ShareMeetsCondition
<1>1. IsEpoch(input.epoch, input.feeds)
  BY EpochsAssumption DEF NoInput
<1> DEFINE epoch == input.epoch
<1>2. \A v \in DOMAIN epoch.weights :
          TotalPpm * SumFunction(epoch.weights) * CountOf(AllUpdates(epoch), v)
             >= epoch.weights[v] * UpdatesShare * Len(AllUpdates(epoch)) => UpdatesMet(epoch, v)
  BY <1>1, UpdatesSuffice
<1>3. \A v : (\A i \in DOMAIN epoch.rounds :
                 FeesOf(epoch.rounds[i]) # {} => v \in FeesOf(epoch.rounds[i]) \ epoch.rounds[i].offense)
              => FdcMet(epoch, v)
  BY <1>1, FeesSuffice
<1> HIDE DEF epoch
<1> QED BY <1>2, <1>3 DEF ShareMeetsCondition, CountOf, AllUpdates, UpdatesOf, FeesOf, epoch

-----------------------------------------------------------------------------
\* A sum of equal numbers.
LEMMA SumOfSame ==
    ASSUME NEW n \in Nat, NEW x \in Nat
    PROVE  SumFunction([i \in 1..n |-> x]) = n * x
<1> DEFINE f == [i \in 1..n |-> x]
           s(k) == SumFunctionOnSet(f, 1..k)
           T == {k \in 0..n : s(k) = k * x}
<1>1. IntegersOn(f, 1..n)
  BY DEF IntegersOn
<1>2. s(0) = 0
  BY SumNothing
<1>3. \A k \in 1..n : s(k) = s(k - 1) + f[k]
  <2> HIDE DEF f
  <2> QED BY <1>1, SumPartial
<1>4. 0 \in T
  BY <1>2
<1> HIDE DEF s
<1>5. ASSUME NEW k \in 1..n, k - 1 \in T
      PROVE  k \in T
  <2>1. s(k) = s(k - 1) + x /\ s(k - 1) = (k - 1) * x /\ k \in 0..n
    BY <1>3, <1>5
  <2>2. (k - 1) * x + x = k * x
    OBVIOUS
  <2> QED BY <2>1, <2>2
<1>6. n \in T
  <2> HIDE DEF T
  <2>1. \A k \in 0..n : k \in T
    BY <1>4, <1>5, StepByStep
  <2> QED BY <2>1
<1>7. SumFunction(f) = s(n)
  BY DEF SumFunction, s
<1> QED BY <1>6, <1>7

\* Who is at the median hits.
LEMMA MedianHits ==
    ASSUME NEW feed, feed.median \in Int, feed.median # Empty, feed.median >= 0, NEW v,
           feed.values[v] = feed.median
    PROVE  Hits(feed, v)
<1> DEFINE d == Quot(feed.median * Closeness, TotalPpm)
<1>1. feed.median * Closeness \in Int /\ feed.median * Closeness >= 0
  BY SharesAre
<1>2. d \in Int /\ d >= 0
  BY <1>1, SharesAre, QuotSign
<1> HIDE DEF d
<1>3. feed.median >= feed.median - d /\ feed.median <= feed.median + d
  BY <1>2
<1> QED BY <1>3 DEF Hits, d

\* Who is at every median meets the first condition.
LEMMA ScalingFull ==
    ASSUME NEW epoch, NEW feeds \in Nat, IsEpoch(epoch, feeds), NEW v, FullPart(epoch, v)
    PROVE  ScalingMet(epoch, v, feeds)
<1> DEFINE R == ToSet(epoch.rounds)
           rounds == epoch.rounds
           n == Len(rounds)
           hits(i) == Cardinality({k \in DOMAIN rounds[i].feeds : Hits(rounds[i].feeds[k], v)})
<1>1. rounds \in Seq(R) /\ n \in Nat /\ DOMAIN rounds = 1..n
  BY DEF IsEpoch
<1>2. Considered(epoch) = rounds
  BY <1>1, ConsideredAre DEF FullPart
<1>3. \A i \in 1..n : hits(i) = feeds
  <2> TAKE i \in 1..n
  <2>1. DOMAIN rounds[i].feeds = 1..feeds
        /\ \A k \in 1..feeds : rounds[i].feeds[k].median \in Int \cup {Empty}
    BY <1>1 DEF IsEpoch
  <2>2. \A k \in 1..feeds : Hits(rounds[i].feeds[k], v)
    <3> TAKE k \in 1..feeds
    <3> DEFINE feed == rounds[i].feeds[k]
    <3>1. feed.median # Empty /\ feed.median >= 0 /\ feed.values[v] = feed.median
      BY <1>1, <2>1 DEF FullPart
    <3>2. feed.median \in Int
      BY <2>1, <3>1
    <3> HIDE DEF feed
    <3>3. Hits(feed, v)
      BY <3>1, <3>2, MedianHits
    <3> QED BY <3>3 DEF feed
  <2>3. {k \in DOMAIN rounds[i].feeds : Hits(rounds[i].feeds[k], v)} = 1..feeds
    BY <2>1, <2>2
  <2>4. Cardinality(1..feeds) = feeds
    BY FS_Interval
  <2> QED BY <2>3, <2>4
<1>4. [i \in 1..n |-> hits(i)] = [i \in 1..n |-> feeds]
  BY <1>3
<1> HIDE DEF hits, n
<1>5. SumFunction([i \in 1..n |-> hits(i)]) = n * feeds
  BY <1>1, <1>4, SumOfSame
<1>6. TotalPpm * (n * feeds) >= Availability * n * feeds
  <2>1. n * feeds \in Nat
    BY <1>1
  <2>2. Availability * (n * feeds) <= TotalPpm * (n * feeds)
    BY <2>1, SharesAre, MulMonotone
  <2>3. Availability * (n * feeds) = Availability * n * feeds
    BY <1>1, SharesAre
  <2> QED BY <2>2, <2>3
<1>7. TotalPpm * SumFunction([i \in DOMAIN rounds |-> hits(i)]) >= Availability * Len(rounds) * feeds
  BY <1>1, <1>5, <1>6 DEF n
<1> QED BY <1>2, <1>7 DEF ScalingMet, hits

\* Who makes half of the updates of every round makes half of all.
LEMMA HalfOfAll ==
    ASSUME NEW epoch, NEW feeds, IsEpoch(epoch, feeds), NEW v,
           \A i \in DOMAIN epoch.rounds :
              /\ epoch.rounds[i].updates # Empty
              /\ 2 * CountOf(epoch.rounds[i].updates, v) >= Len(epoch.rounds[i].updates)
    PROVE  2 * CountOf(AllUpdates(epoch), v) >= Len(AllUpdates(epoch))
<1> DEFINE R == DOMAIN epoch.weights
           rounds == epoch.rounds
           W == MoreOf(R, v)
           ss == [i \in DOMAIN rounds |-> UpdatesOf(rounds[i])]
           WL == [list \in Seq(R) |-> Weigh(W, list)]
<1>1. /\ DOMAIN rounds = 1..Len(rounds) /\ Len(rounds) \in Nat
      /\ \A i \in DOMAIN rounds : ss[i] \in Seq(R) /\ 2 * CountOf(ss[i], v) >= Len(ss[i])
  BY DEF IsEpoch, UpdatesOf
<1>2. ss \in Seq(Seq(R)) /\ DOMAIN ss = DOMAIN rounds
  <2> HIDE DEF R, rounds
  <2>1. \A i \in DOMAIN rounds : ss[i] \in Seq(R)
    BY <1>1
  <2>2. DOMAIN ss = DOMAIN rounds /\ ss = [i \in DOMAIN rounds |-> ss[i]]
    OBVIOUS
  <2> HIDE DEF ss
  <2> QED BY <1>1, <2>1, <2>2
<1>3. W \in [R -> Int]
  BY DEF MoreOf
<1>4. AllUpdates(epoch) = FlattenSeq(ss)
  BY DEF AllUpdates
<1> HIDE DEF ss, R, rounds, WL
<1>5. \A list \in Seq(R) : /\ Weigh(W, list) = 2 * CountOf(list, v) - Len(list)
                           /\ CountOf(list, v) \in Nat /\ Len(list) \in Nat
  BY CountIs
<1> HIDE DEF W
<1>6. FlattenSeq(ss) \in Seq(R) /\ WL \in [Seq(R) -> Int] /\ Weigh(W, FlattenSeq(ss)) = Weigh(WL, ss)
  BY <1>2, <1>3, WeighFlatten DEF WL
<1>7. \A i \in DOMAIN ss : WL[ss[i]] >= 0
  BY <1>1, <1>2, <1>5 DEF WL
<1>8. Weigh(WL, ss) >= 0
  BY ONLY <1>2, <1>6, <1>7, WeighSign
<1> QED BY <1>4, <1>5, <1>6, <1>8

\* Half of a weight's updates are as many as are expected of half the weight.
LEMMA HalfSuffices ==
    ASSUME NEW w \in Nat, NEW u \in Nat, NEW t \in Nat, NEW c \in Nat, NEW all \in Nat,
           NEW ppm \in Nat, u <= ppm, 2 * w <= t, 2 * c >= all
    PROVE  ppm * t * c >= w * u * all
<1>1. (2 * w) * all <= t * all /\ all * t <= (2 * c) * t
  BY MulMonotone
<1>2. w * all <= c * t /\ w * all \in Nat /\ c * t \in Nat
  BY <1>1
<1>3. (w * all) * u <= (c * t) * u /\ u * (c * t) <= ppm * (c * t)
  BY <1>2, MulMonotone
<1>4. (w * all) * u = w * u * all /\ (c * t) * u = u * (c * t) /\ ppm * (c * t) = ppm * t * c
  OBVIOUS
<1>5. w * u * all \in Int /\ u * (c * t) \in Int /\ ppm * t * c \in Int
  BY <1>2
<1> QED BY <1>3, <1>4, <1>5

\* Nodes that are all up have the stake and bond they have.
LEMMA StakingFull ==
    ASSUME NEW epoch, NEW feeds, IsEpoch(epoch, feeds), NEW v \in DOMAIN epoch.weights,
           FullPart(epoch, v)
    PROVE  StakingMet(epoch, v) /\ ~StakingObstructs(epoch, v)
<1> DEFINE N == [stake : Nat, selfBond : Nat, uptime : BOOLEAN]
           nodes == epoch.nodes[v]
           up == {i \in DOMAIN nodes : nodes[i].uptime}
<1>1. nodes \in Seq(N)
  BY DEF IsEpoch
<1>2. up = DOMAIN nodes
  BY DEF FullPart
<1> HIDE DEF up, nodes
<1>3. Picked(nodes, up) = nodes
  BY <1>1, <1>2, PickedAll
<1>4. Select(nodes, LAMBDA n : n.uptime) = nodes
  BY <1>3 DEF Select, up
<1>5. StakeOf(nodes) \in Nat /\ BondOf(nodes) \in Nat
  <2> DEFINE stakes == [k \in DOMAIN nodes |-> nodes[k].stake]
             bonds == [k \in DOMAIN nodes |-> nodes[k].selfBond]
  <2>1. stakes \in Seq(Nat) /\ bonds \in Seq(Nat)
    <3>1. DOMAIN nodes = 1..Len(nodes) /\ Len(nodes) \in Nat
          /\ \A k \in DOMAIN nodes : nodes[k].stake \in Nat /\ nodes[k].selfBond \in Nat
      <4>1. \A n \in N : n.stake \in Nat /\ n.selfBond \in Nat
        OBVIOUS
      <4> HIDE DEF N
      <4> QED BY <1>1, <4>1
    <3> QED BY <3>1
  <2> HIDE DEF stakes, bonds
  <2>2. SumFunction(stakes) \in Nat /\ SumFunction(bonds) \in Nat
    BY <2>1, WeightsLeft
  <2> QED BY <2>2 DEF StakeOf, BondOf, stakes, bonds
<1>6. TotalPpm * StakeOf(nodes) >= UptimeShare * StakeOf(nodes)
  BY <1>5, SharesAre, MulMonotone
<1>7. BondOf(nodes) >= DesiredSelfBond /\ StakeOf(nodes) >= DesiredStake
  BY DEF FullPart, nodes
<1>8. BondOf(nodes) >= MinSelfBond /\ DesiredStake \in Nat
  BY <1>5, <1>7, SharesAre, ConditionsAssumption
<1>9. ~(BondOf(nodes) < DesiredSelfBond) /\ ~(StakeOf(nodes) < DesiredStake)
  BY <1>5, <1>7, <1>8, SharesAre
<1> QED BY <1>4, <1>6, <1>8, <1>9 DEF StakingMet, StakingObstructs, nodes

\* Who takes full part meets all conditions and earns a pass.
LEMMA FullPartEarns ==
    ASSUME NEW epoch, NEW feeds \in Nat, IsEpoch(epoch, feeds), NEW v \in DOMAIN epoch.weights,
           FullPart(epoch, v)
    PROVE  /\ Strikes(ConditionsOf(epoch, v, feeds)) = 0
           /\ PassEarned(ConditionsOf(epoch, v, feeds))
<1>1. ScalingMet(epoch, v, feeds)
  BY ScalingFull
<1>2. StakingMet(epoch, v) /\ ~StakingObstructs(epoch, v)
  BY StakingFull
<1>3. FdcMet(epoch, v)
  <2>1. \A i \in DOMAIN epoch.rounds :
            v \in FeesOf(epoch.rounds[i]) \ epoch.rounds[i].offense
    BY DEF FullPart, FeesOf
  <2> QED BY <2>1, FeesSuffice
<1>4. UpdatesMet(epoch, v)
  <2>1. \A i \in DOMAIN epoch.rounds :
            /\ epoch.rounds[i].updates # Empty
            /\ 2 * CountOf(epoch.rounds[i].updates, v) >= Len(epoch.rounds[i].updates)
    BY DEF FullPart, CountOf
  <2>2. 2 * CountOf(AllUpdates(epoch), v) >= Len(AllUpdates(epoch))
    BY <2>1, HalfOfAll
  <2>3. CountOf(AllUpdates(epoch), v) \in Nat /\ Len(AllUpdates(epoch)) \in Nat
    BY SameCounted
  <2>4. epoch.weights \in Seq(Nat)
    BY DEF IsEpoch
  <2>5. epoch.weights[v] \in Nat /\ SumFunction(epoch.weights) \in Nat
    BY <2>4, WeightsLeft
  <2>6. 2 * epoch.weights[v] <= SumFunction(epoch.weights)
    BY DEF FullPart
  <2>7. TotalPpm * SumFunction(epoch.weights) * CountOf(AllUpdates(epoch), v)
           >= epoch.weights[v] * UpdatesShare * Len(AllUpdates(epoch))
    BY <2>2, <2>3, <2>5, <2>6, SharesAre, HalfSuffices
  <2> QED BY <2>7, UpdatesSuffice
<1>5. PassEarned(ConditionsOf(epoch, v, feeds))
  BY <1>1, <1>2, <1>3, <1>4 DEF PassEarned, ConditionsOf
<1> QED BY <1>5, StrikesAre
\* Who takes full part is paid for it.
LEMMA FullPartIsPaid ==
    ASSUME input \in Inputs \cup {NoInput}
    PROVE  FullPartPays
<1> SUFFICES ASSUME input.subject = "conditions" PROVE FullPartPays
  BY DEF FullPartPays
<1>1. input.feeds \in Nat /\ IsEpoch(input.epoch, input.feeds)
  BY EpochsAssumption DEF NoInput
<1> QED BY <1>1, FullPartEarns DEF FullPartPays

\* Providers are held to the conditions as they were earned: no pass is invented
\* or counted twice, rounding costs nobody a condition, and full part pays.
THEOREM ConditionsAreJust == CalcSpec => []ConditionsJust
<1>1. PassesInv /\ InputInv => ConditionsJust
  BY ShareMeets, FullPartIsPaid DEF PassesInv, InputInv, ConditionsJust
<1> QED BY <1>1, PassesInvariant, InputInvariant, PTL

-----------------------------------------------------------------------------
(* Signatures in the order of the chain *)

\* Transactions in the order of the chain.
Chronological(list) ==
    /\ \A i \in DOMAIN list : list[i].time \in Nat
    /\ \A i, j \in DOMAIN list : i <= j => list[i].time <= list[j].time

\* What is picked from them is in that order.
LEMMA PickedInOrder ==
    ASSUME NEW R, NEW list \in Seq(R), Chronological(list), NEW indices
    PROVE  Chronological(Picked(list, indices)) /\ Picked(list, indices) \in Seq(R)
<1> DEFINE picked == Picked(list, indices)
           m == Len(picked)
           n == Len(list)
<1>1. picked \in Seq(R) /\ HasPlaces(picked, list, indices, n)
  BY PickedPlaces
<1>2. PICK h : PlacesTo(h, picked, list, indices, n)
  BY <1>1 DEF HasPlaces
<1>3. DOMAIN picked = 1..m /\ DOMAIN list = 1..n /\ m \in Nat /\ n \in Nat
  BY <1>1
<1> HIDE DEF picked, m, n
<1>4. /\ h \in [1..m -> 1..n] /\ \A k \in 1..m : picked[k] = list[h[k]]
      /\ \A i, j \in 1..m : i < j => h[i] < h[j]
  BY <1>2 DEF PlacesTo, m
<1>5. ASSUME NEW i \in 1..m PROVE h[i] \in DOMAIN list /\ picked[i].time \in Nat
  <2>1. h[i] \in DOMAIN list /\ picked[i] = list[h[i]]
    BY <1>3, <1>4
  <2> QED BY <2>1 DEF Chronological
<1>6. ASSUME NEW i \in 1..m, NEW j \in 1..m, i <= j PROVE picked[i].time <= picked[j].time
  <2>1. i = j \/ i < j
    BY <1>6
  <2>2. CASE i = j
    BY <1>5, <2>2
  <2>3. CASE i < j
    <3>1. h[i] \in DOMAIN list /\ h[j] \in DOMAIN list /\ h[i] <= h[j]
      <4>1. h[i] \in 1..n /\ h[j] \in 1..n /\ h[i] < h[j]
        BY <1>4, <2>3
      <4> QED BY <1>3, <4>1
    <3>2. list[h[i]].time <= list[h[j]].time
      BY <3>1 DEF Chronological
    <3> QED BY <1>4, <3>2
  <2> QED BY <2>1, <2>2, <2>3
<1> QED BY <1>1, <1>3, <1>5, <1>6 DEF Chronological, picked

\* The first transaction of a sender is no later than another.
LEMMA FirstIsEarlier ==
    ASSUME NEW R, NEW list \in Seq(R), Chronological(list), NEW tx \in ToSet(list)
    PROVE  \E s \in ToSet(FirstOfSender(list)) : s.sender = tx.sender /\ s.time <= tx.time
<1> DEFINE firsts == {i \in DOMAIN list : \A j \in 1..(i - 1) : list[j].sender # list[i].sender}
           its == {i \in DOMAIN list : list[i].sender = tx.sender}
<1>1. PICK i \in DOMAIN list : list[i] = tx
  BY DEF ToSet
<1>2. i \in its /\ its \in SUBSET Nat /\ its # {}
  <2>1. DOMAIN list \in SUBSET Nat
    OBVIOUS
  <2> QED BY <1>1, <2>1
<1>3. PICK m \in its : \A k \in its : m <= k
  <2> HIDE DEF its
  <2> QED BY <1>2, LeastNatural
<1>4. m \in DOMAIN list /\ list[m].sender = tx.sender /\ m <= i
  BY <1>2, <1>3
<1>5. m \in firsts
  <2> SUFFICES ASSUME NEW j \in 1..(m - 1), list[j].sender = list[m].sender PROVE FALSE
    BY <1>4
  <2>1. j \in DOMAIN list /\ j < m
    BY <1>4
  <2>2. j \in its
    BY <1>4, <2>1
  <2>3. m <= j
    BY <1>3, <2>2
  <2> QED BY <1>4, <2>1, <2>3
<1>6. list[m].time <= tx.time
  BY <1>1, <1>4 DEF Chronological
<1> HIDE DEF firsts
<1>7. \E k \in DOMAIN Picked(list, firsts) : Picked(list, firsts)[k] = list[m]
  <2>1. \A j \in DOMAIN list : j \in firsts =>
            \E k \in DOMAIN Picked(list, firsts) : Picked(list, firsts)[k] = list[j]
    BY PickedElements
  <2> QED BY <1>4, <1>5, <2>1
<1>8. list[m] \in ToSet(Picked(list, firsts))
  BY <1>7 DEF ToSet
<1> QED BY <1>4, <1>6, <1>8 DEF FirstOfSender, firsts

\* What is picked, all of it and nothing else.
LEMMA PickedWhere ==
    ASSUME NEW R, NEW list \in Seq(R), Chronological(list), NEW indices,
           NEW picked, picked = Picked(list, indices)
    PROVE  /\ picked \in Seq(R) /\ Chronological(picked)
           /\ \A k \in DOMAIN picked : \E i \in DOMAIN list : i \in indices /\ picked[k] = list[i]
           /\ \A i \in DOMAIN list : i \in indices => \E k \in DOMAIN picked : picked[k] = list[i]
<1>1. Chronological(Picked(list, indices))
  BY PickedInOrder
<1>2. /\ Picked(list, indices) \in Seq(R)
      /\ \A k \in DOMAIN Picked(list, indices) :
            \E i \in DOMAIN list : i \in indices /\ Picked(list, indices)[k] = list[i]
      /\ \A i \in DOMAIN list : i \in indices =>
            \E k \in DOMAIN Picked(list, indices) : Picked(list, indices)[k] = list[i]
  BY PickedElements
<1> QED BY ONLY <1>1, <1>2, picked = Picked(list, indices)

\* A signature that is looked at for the round.
Counts(tx, protocol) ==
    /\ tx.kind = "sign" /\ tx.time >= WindowStart(0) /\ tx.time <= WindowEnd(0)
    /\ tx.round = 0 /\ tx.protocol = protocol /\ tx.sender \in DOMAIN policy

\* Where it is found.
KeyFor(tx, first) == IF SignsRight(tx, first) THEN "consensus" ELSE "wrong"

\* The signatures for the round, right and wrong ones, are those that were sent,
\* and of each sender the first.
WellExtracted(signatures, txs, protocol, first) ==
    /\ \A key \in DOMAIN signatures : \A s \in ToSet(signatures[key]) :
          s \in ToSet(txs) /\ Counts(s, protocol) /\ key = KeyFor(s, first)
    /\ \A tx \in ToSet(txs) : Counts(tx, protocol) =>
          /\ KeyFor(tx, first) \in DOMAIN signatures
          /\ \E s \in ToSet(signatures[KeyFor(tx, first)]) :
                s.sender = tx.sender /\ s.time <= tx.time

\* The list of one of the keys.
SignaturesOf(txs, protocol, first, key) ==
    LET relevant == Select(WindowOf(txs, "sign", 0), LAMBDA tx :
            tx.round = 0 /\ tx.protocol = protocol /\ tx.sender \in DOMAIN policy)
    IN  FirstOfSender(Select(relevant, LAMBDA tx : SignsRight(tx, first) <=> key = "consensus"))

\* It has the first of those that count and are of that key.
LEMMA KeyedList ==
    ASSUME NEW R, NEW txs \in Seq(R), Chronological(txs), NEW protocol, NEW first,
           NEW key \in {"consensus", "wrong"}
    PROVE  /\ SignaturesOf(txs, protocol, first, key) \in Seq(R)
           /\ \A s \in ToSet(SignaturesOf(txs, protocol, first, key)) :
                 s \in ToSet(txs) /\ Counts(s, protocol) /\ key = KeyFor(s, first)
           /\ \A tx \in ToSet(txs) : Counts(tx, protocol) /\ key = KeyFor(tx, first) =>
                 \E s \in ToSet(SignaturesOf(txs, protocol, first, key)) :
                     s.sender = tx.sender /\ s.time <= tx.time
<1> DEFINE inWindow == {i \in DOMAIN txs : /\ txs[i].kind = "sign" /\ txs[i].time >= WindowStart(0)
                                           /\ txs[i].time <= WindowEnd(0)}
           window == Picked(txs, inWindow)
           good == {i \in DOMAIN window : window[i].round = 0 /\ window[i].protocol = protocol
                                          /\ window[i].sender \in DOMAIN policy}
           relevant == Picked(window, good)
           places == {i \in DOMAIN relevant : SignsRight(relevant[i], first) <=> key = "consensus"}
           keyed == Picked(relevant, places)
           firsts == {i \in DOMAIN keyed : \A j \in 1..(i - 1) : keyed[j].sender # keyed[i].sender}
           list == FirstOfSender(keyed)
<1>1. SignaturesOf(txs, protocol, first, key) = list
  BY DEF SignaturesOf, WindowOf, InRange, Select
<1>2. list = Picked(keyed, firsts)
  BY DEF FirstOfSender
<1> DEFINE In(tx) == tx.kind = "sign" /\ tx.time >= WindowStart(0) /\ tx.time <= WindowEnd(0)
           Good(tx) == tx.round = 0 /\ tx.protocol = protocol /\ tx.sender \in DOMAIN policy
           Of(tx) == SignsRight(tx, first) <=> key = "consensus"
<1>3. /\ \A i \in DOMAIN txs : i \in inWindow <=> In(txs[i])
      /\ \A i \in DOMAIN window : i \in good <=> Good(window[i])
      /\ \A i \in DOMAIN relevant : i \in places <=> Of(relevant[i])
  OBVIOUS
<1>4. \A tx : Counts(tx, protocol) /\ key = KeyFor(tx, first) <=> In(tx) /\ Good(tx) /\ Of(tx)
  BY DEF Counts, KeyFor
<1> HIDE DEF inWindow, good, places, firsts, In, Good, Of, list
<1>5. /\ window \in Seq(R) /\ Chronological(window)
      /\ \A k \in DOMAIN window : window[k] \in ToSet(txs) /\ In(window[k])
      /\ \A tx \in ToSet(txs) : In(tx) => tx \in ToSet(window)
  <2>1. window = Picked(txs, inWindow)
    OBVIOUS
  <2>2. txs \in Seq(R) /\ Chronological(txs)
    OBVIOUS
  <2> HIDE DEF window
  <2>3. /\ window \in Seq(R) /\ Chronological(window)
        /\ \A k \in DOMAIN window : \E i \in DOMAIN txs : i \in inWindow /\ window[k] = txs[i]
        /\ \A i \in DOMAIN txs : i \in inWindow => \E k \in DOMAIN window : window[k] = txs[i]
    BY ONLY <2>1, <2>2, PickedWhere
  <2> QED BY <1>3, <2>3 DEF ToSet
<1> HIDE DEF window
<1>6. /\ relevant \in Seq(R) /\ Chronological(relevant)
      /\ \A k \in DOMAIN relevant : relevant[k] \in ToSet(window) /\ Good(relevant[k])
      /\ \A tx \in ToSet(window) : Good(tx) => tx \in ToSet(relevant)
  <2>1. relevant = Picked(window, good)
    OBVIOUS
  <2>2. window \in Seq(R) /\ Chronological(window)
    BY <1>5
  <2> HIDE DEF relevant
  <2>3. /\ relevant \in Seq(R) /\ Chronological(relevant)
        /\ \A k \in DOMAIN relevant : \E i \in DOMAIN window : i \in good /\ relevant[k] = window[i]
        /\ \A i \in DOMAIN window : i \in good => \E k \in DOMAIN relevant : relevant[k] = window[i]
    BY ONLY <2>1, <2>2, PickedWhere
  <2> QED BY <1>3, <2>3 DEF ToSet
<1> HIDE DEF relevant
<1>7. /\ keyed \in Seq(R) /\ Chronological(keyed)
      /\ \A k \in DOMAIN keyed : keyed[k] \in ToSet(relevant) /\ Of(keyed[k])
      /\ \A tx \in ToSet(relevant) : Of(tx) => tx \in ToSet(keyed)
  <2>1. keyed = Picked(relevant, places)
    OBVIOUS
  <2>2. relevant \in Seq(R) /\ Chronological(relevant)
    BY <1>6
  <2> HIDE DEF keyed
  <2>3. /\ keyed \in Seq(R) /\ Chronological(keyed)
        /\ \A k \in DOMAIN keyed : \E i \in DOMAIN relevant : i \in places /\ keyed[k] = relevant[i]
        /\ \A i \in DOMAIN relevant : i \in places => \E k \in DOMAIN keyed : keyed[k] = relevant[i]
    BY ONLY <2>1, <2>2, PickedWhere
  <2> QED BY <1>3, <2>3 DEF ToSet
<1> HIDE DEF keyed
<1>8. list \in Seq(R) /\ \A s \in ToSet(list) : s \in ToSet(keyed)
  <2>1. /\ Picked(keyed, firsts) \in Seq(R)
        /\ \A k \in DOMAIN Picked(keyed, firsts) :
              \E i \in DOMAIN keyed : i \in firsts /\ Picked(keyed, firsts)[k] = keyed[i]
    BY <1>7, PickedElements
  <2> QED BY <1>2, <2>1 DEF ToSet
<1>9. ASSUME NEW s \in ToSet(list)
      PROVE  s \in ToSet(txs) /\ In(s) /\ Good(s) /\ Of(s)
  <2>1. s \in ToSet(keyed)
    BY <1>8
  <2>2. s \in ToSet(relevant) /\ Of(s)
    BY <1>7, <2>1 DEF ToSet
  <2>3. s \in ToSet(window) /\ Good(s)
    BY <1>6, <2>2 DEF ToSet
  <2>4. s \in ToSet(txs) /\ In(s)
    BY <1>5, <2>3 DEF ToSet
  <2> QED BY <2>2, <2>3, <2>4
<1>10. ASSUME NEW tx \in ToSet(txs), In(tx) /\ Good(tx) /\ Of(tx)
       PROVE  \E s \in ToSet(list) : s.sender = tx.sender /\ s.time <= tx.time
  <2>1. tx \in ToSet(keyed)
    BY <1>5, <1>6, <1>7, <1>10
  <2> QED BY <1>7, <2>1, FirstIsEarlier DEF list
<1> QED BY <1>1, <1>4, <1>8, <1>9, <1>10

\* So it is for the signatures of a protocol that finalized.
LEMMA SignaturesExtracted ==
    ASSUME NEW txs, txs \in Seq(ToSet(txs)), Chronological(txs), NEW protocol,
           NEW data, data = ProtocolData(txs, protocol), data.first # Empty
    PROVE  /\ WellExtracted(data.signatures, txs, protocol, data.first)
           /\ DOMAIN data.signatures \subseteq {"consensus", "wrong"}
           /\ \A key \in DOMAIN data.signatures :
                 data.signatures[key] \in Seq(ToSet(txs)) /\ data.signatures[key] # <<>>
<1> DEFINE first == data.first
           list(key) == SignaturesOf(txs, protocol, first, key)
           signatures == data.signatures
<1>1. signatures = [key \in {k \in {"consensus", "wrong"} : list(k) # <<>>} |-> list(key)]
  BY DEF ProtocolData, ExtractSignatures, SignaturesOf, SignsRight
<1> HIDE DEF first, list, signatures
<1>2. ASSUME NEW key \in {"consensus", "wrong"}
      PROVE  /\ list(key) \in Seq(ToSet(txs))
             /\ \A s \in ToSet(list(key)) :
                   s \in ToSet(txs) /\ Counts(s, protocol) /\ key = KeyFor(s, first)
             /\ \A tx \in ToSet(txs) : Counts(tx, protocol) /\ key = KeyFor(tx, first) =>
                   \E s \in ToSet(list(key)) : s.sender = tx.sender /\ s.time <= tx.time
  BY KeyedList DEF list
<1>3. \A key \in DOMAIN signatures : key \in {"consensus", "wrong"} /\ signatures[key] = list(key)
                                     /\ list(key) # <<>>
  BY <1>1
<1>4. ASSUME NEW tx \in ToSet(txs), Counts(tx, protocol)
      PROVE  /\ KeyFor(tx, first) \in DOMAIN signatures
             /\ \E s \in ToSet(signatures[KeyFor(tx, first)]) : s.sender = tx.sender /\ s.time <= tx.time
  <2> DEFINE key == KeyFor(tx, first)
  <2>1. key \in {"consensus", "wrong"}
    BY DEF KeyFor
  <2> HIDE DEF key
  <2>2. \E s \in ToSet(list(key)) : s.sender = tx.sender /\ s.time <= tx.time
    BY <1>2, <1>4, <2>1 DEF key
  <2>3. list(key) # <<>>
    <3>1. ToSet(<<>>) = {}
      BY DEF ToSet
    <3> QED BY <2>2, <3>1
  <2>4. key \in DOMAIN signatures /\ signatures[key] = list(key)
    BY <1>1, <2>1, <2>3
  <2> QED BY <2>2, <2>4 DEF key
<1>5. WellExtracted(signatures, txs, protocol, first)
  <2>1. ASSUME NEW key \in DOMAIN signatures, NEW s \in ToSet(signatures[key])
        PROVE  s \in ToSet(txs) /\ Counts(s, protocol) /\ key = KeyFor(s, first)
    <3>1. key \in {"consensus", "wrong"} /\ s \in ToSet(list(key))
      BY <1>3
    <3> QED BY <1>2, <3>1
  <2> QED BY <1>4, <2>1 DEF WellExtracted
<1> QED BY <1>2, <1>3, <1>5 DEF signatures, first

\* The first loop adds up the weights.
LEMMA TotalsAreSums ==
    ASSUME ShareInv, NEW k \in 0..(Len(totals) - 1), Len(totals) <= Len(weights) + 1
    PROVE  totals[k + 1] = SumFunctionOnSet(weights, 1..k)
<1> DEFINE n == Len(totals) - 1
           T == {i \in 0..n : totals[i + 1] = SumFunctionOnSet(weights, 1..i)}
<1>1. weights \in Seq(Nat) /\ totals \in Seq(Nat) /\ n \in Nat /\ n <= Len(weights)
  BY DEF ShareInv, TotalsAddUp
<1>2. 0 \in T
  <2>1. SumFunctionOnSet(weights, 1..0) = 0 /\ totals[0 + 1] = 0
    BY <1>1, WeightsLeft DEF ShareInv, TotalsAddUp
  <2> QED BY <1>1, <2>1
<1>3. ASSUME NEW i \in 1..n, i - 1 \in T PROVE i \in T
  <2>1. totals[(i - 1) + 1] = SumFunctionOnSet(weights, 1..(i - 1))
    BY <1>3
  <2>2. totals[i + 1] = totals[i] + weights[i]
    BY <1>1 DEF ShareInv, TotalsAddUp
  <2>3. SumFunctionOnSet(weights, 1..i) = SumFunctionOnSet(weights, 1..(i - 1)) + weights[i]
    <3>1. i \in 1..Len(weights)
      BY <1>1
    <3> QED BY <1>1, <3>1, WeightsLeft
  <2>4. (i - 1) + 1 = i /\ i \in 0..n
    BY <1>1
  <2> QED BY <2>1, <2>2, <2>3, <2>4
<1>4. k \in T
  <2> HIDE DEF T, n
  <2>1. \A i \in 0..n : i \in T
    BY <1>1, <1>2, <1>3, StepByStep
  <2> QED BY <2>1 DEF n
<1> QED BY <1>4

\* The loops and the function Shares take the same parts out of the same pots.
SamePots ==
    step \in {"give", "done"} =>
        \A v : GivesOut(v, weights, amount) =>
            /\ v[voter - 1].reward = availableReward
            /\ v[voter - 1].weight = availableWeight
            /\ v[voter - 1].given = rewards

\* The pots of Shares, from one to the next.
LEMMA PotsAre ==
    ASSUME NEW ws \in Seq(Nat), NEW a, NEW v, GivesOut(v, ws, a)
    PROVE  v[0] = FullPot(ws, a) /\ \A k \in 1..Len(ws) : v[k] = NextPot(v[k - 1], ws[k])
<1>1. Len(ws) \in Nat
  OBVIOUS
<1>2. 0 \in 0..Len(ws) /\ \A k \in 1..Len(ws) : k \in 0..Len(ws) /\ k # 0
  BY <1>1
<1> QED BY <1>2 DEF GivesOut

\* They start with the same pot.
LEMMA PotsAdded == ShareInv /\ SamePots /\ Added => SamePots'
<1> SUFFICES ASSUME ShareInv, Added, step' = "give",
                    NEW v, GivesOut(v, weights', amount')
             PROVE  /\ v[voter' - 1].reward = availableReward'
                    /\ v[voter' - 1].weight = availableWeight'
                    /\ v[voter' - 1].given = rewards'
  <2>1. Added => step' \in {"claimback", "give"}
    BY DEF Added
  <2> QED BY <2>1 DEF SamePots
<1>1. /\ weights' = weights /\ amount' = amount /\ voter' = 1 /\ step = "add"
      /\ availableReward' = availableReward /\ availableWeight' = availableWeight /\ rewards' = rewards
      /\ voter > Len(weights)
  BY DEF Added
<1>2. weights \in Seq(Nat) /\ Len(weights) \in Nat /\ rewards = <<>> /\ availableReward = amount
  BY <1>1 DEF ShareInv
<1>3. voter = Len(weights) + 1 /\ Len(totals) = Len(weights) + 1 /\ availableWeight = totals[Len(weights) + 1]
  <2>1. voter \in 1..(Len(weights) + 1) /\ Len(totals) = voter /\ availableWeight = totals[voter]
    BY <1>1 DEF ShareInv
  <2> QED BY <1>1, <1>2, <2>1
<1>4. availableWeight = SumFunction(weights)
  <2>1. Len(weights) \in 0..(Len(totals) - 1)
    BY <1>2, <1>3
  <2>2. totals[Len(weights) + 1] = SumFunctionOnSet(weights, 1..Len(weights))
    BY <1>2, <1>3, <2>1, TotalsAreSums
  <2>3. SumFunction(weights) = SumFunctionOnSet(weights, 1..Len(weights))
    BY <1>2, WeightsLeft
  <2> QED BY <1>3, <2>2, <2>3
<1>5. v[0] = FullPot(weights, amount)
  BY <1>1, <1>2, PotsAre
<1>6. voter' - 1 = 0
  BY <1>1
<1> QED BY <1>1, <1>2, <1>4, <1>5, <1>6 DEF FullPot

\* A voter's part is taken out of both.
LEMMA PotsGive == ShareInv /\ SamePots /\ Give => SamePots'
<1> SUFFICES ASSUME ShareInv, SamePots, Give, NEW v, GivesOut(v, weights', amount')
             PROVE  /\ v[voter' - 1].reward = availableReward'
                    /\ v[voter' - 1].weight = availableWeight'
                    /\ v[voter' - 1].given = rewards'
  BY DEF SamePots
<1> DEFINE w == weights[voter]
           r == IF w > 0 /\ availableWeight # 0 THEN (w * availableReward) \div availableWeight ELSE 0
           pot == v[voter - 1]
<1>1. /\ weights' = weights /\ amount' = amount /\ voter' = voter + 1 /\ step = "give"
      /\ voter <= Len(weights)
      /\ availableReward' = availableReward - r /\ availableWeight' = availableWeight - w
      /\ rewards' = Append(rewards, r)
  BY DEF Give
<1>2. /\ weights \in Seq(Nat) /\ Len(weights) \in Nat /\ voter \in 1..Len(weights) /\ w \in Nat
      /\ availableReward \in Nat /\ availableWeight \in Nat
  <2>1. weights \in Seq(Nat) /\ voter \in 1..(Len(weights) + 1)
        /\ availableReward \in Nat /\ availableWeight \in Nat
    BY DEF ShareInv
  <2>2. Len(weights) \in Nat /\ voter \in 1..Len(weights)
    BY <1>1, <2>1
  <2> QED BY <2>1, <2>2
<1>3. w <= availableWeight
  <2>1. availableWeight = totals[Len(weights) + 1] - totals[voter] /\ Len(totals) = Len(weights) + 1
    BY <1>1 DEF ShareInv
  <2>2. TotalsAddUp
    BY DEF ShareInv
  <2>3. totals[voter + 1] = totals[voter] + w
    BY <1>2, <2>1, <2>2 DEF TotalsAddUp
  <2>4. totals[voter + 1] <= totals[Len(weights) + 1] /\ totals[voter] \in Nat
        /\ totals[voter + 1] \in Nat /\ totals[Len(weights) + 1] \in Nat
    <3>1. voter \in 1..Len(totals) /\ voter + 1 \in 1..Len(totals) /\ Len(weights) + 1 \in 1..Len(totals)
          /\ voter + 1 <= Len(weights) + 1 /\ voter <= voter + 1
      BY <1>2, <2>1
    <3> QED BY <2>2, <3>1, TotalsAt
  <2> HIDE DEF w
  <2> QED BY <1>2, <2>1, <2>3, <2>4
<1>4. /\ pot.reward = availableReward /\ pot.weight = availableWeight /\ pot.given = rewards
  BY <1>1 DEF SamePots
<1>5. v[voter] = NextPot(pot, w)
  BY <1>1, <1>2, PotsAre
<1>6. PartFor(pot, w) = r
  <2>1. CASE w = 0
    BY <2>1 DEF PartFor, Portion
  <2>2. CASE w # 0
    <3>1. w > 0 /\ availableWeight # 0 /\ w * availableReward >= 0
      <4> HIDE DEF w
      <4>1. w * availableReward \in Nat
        BY <1>2
      <4> QED BY <1>2, <1>3, <2>2, <4>1
    <3> HIDE DEF w
    <3>2. Quot(w * availableReward, availableWeight) = (w * availableReward) \div availableWeight
      BY <3>1 DEF Quot
    <3> QED BY <1>4, <3>1, <3>2 DEF PartFor, Portion
  <2> QED BY <2>1, <2>2
<1>7. voter' - 1 = voter
  BY <1>1, <1>2
<1> HIDE DEF w, r, pot
<1> QED BY <1>1, <1>4, <1>5, <1>6, <1>7 DEF NextPot

\* All other steps leave them alone.
LEMMA PotsNext == ShareInv /\ SamePots /\ [ShareNext]_shareVars => SamePots'
<1> SUFFICES ASSUME ShareInv, SamePots, [ShareNext]_shareVars PROVE SamePots'
  OBVIOUS
<1>1. CASE Add
  BY <1>1 DEF Add, SamePots
<1>2. CASE Given
  BY <1>2 DEF Given, SamePots
<1>3. CASE UNCHANGED shareVars
  BY <1>3 DEF shareVars, SamePots
<1> QED BY <1>1, <1>2, <1>3, PotsAdded, PotsGive DEF ShareNext

\* At the end the loops have given what the function gives.
LEMMA GivenIsShares == ShareInv /\ SamePots => SharesAgree
<1> SUFFICES ASSUME ShareInv, SamePots, step = "done" PROVE rewards = Shares(weights, amount)
  BY DEF SharesAgree
<1>1. weights \in Seq(Nat) /\ amount \in Int /\ voter = Len(weights) + 1
  BY DEF ShareInv
<1>2. PICK v : GivesOut(v, weights, amount) /\ Shares(weights, amount) = v[Len(weights)].given
  BY <1>1, GivesOutDefined, SharesUnfold
<1>3. voter - 1 = Len(weights)
  BY <1>1
<1> QED BY <1>2, <1>3 DEF SamePots

\* What rests is like this: nothing divided.
LEMMA RestIsShared == ShareRests => SharesAgree
<1> SUFFICES ASSUME ShareRests PROVE rewards = Shares(weights, amount)
  BY DEF SharesAgree
<1>1. weights = <<>> /\ amount = 0 /\ rewards = <<>> /\ <<>> \in Seq(Nat) /\ 0 \in Int
  BY DEF ShareRests
<1>2. SharedOut(Shares(weights, amount), weights, amount)
  BY <1>1, SharesGive
<1>3. Shares(weights, amount) \in Seq(Int) /\ Len(Shares(weights, amount)) = 0
  BY <1>1, <1>2 DEF SharedOut
<1> HIDE DEF Shares
<1> QED BY <1>1, <1>3

\* The loops as a part of all calculations.
LoopsAgree == ShareRests \/ (ShareInv /\ SamePots)

\* At first nothing is divided yet.
LEMMA LoopsAgreeInit == CalcInit => LoopsAgree
<1>1. ShareInit => ShareInv /\ SamePots
  BY InitInv DEF ShareInit, SamePots
<1> QED BY <1>1 DEF CalcInit, LoopsAgree

\* What rests stays at rest.
LEMMA RestStays == ShareRests /\ [ShareNext]_shareVars => ShareRests'
BY DEF ShareRests, ShareNext, Add, Added, Give, Given, shareVars

\* Every step of the loops keeps it.
LEMMA LoopsAgreeNext == LoopsAgree /\ [CalcNext]_calcVars => LoopsAgree'
<1>1. [CalcNext]_calcVars => [ShareNext]_shareVars
  BY DEF CalcNext, calcVars
<1> QED BY <1>1, NextInv, PotsNext, RestStays DEF LoopsAgree

\* The loops divide as the function Shares does.
LEMMA LoopsDivideAlike == CalcSpec => []SharesAgree
<1>1. LoopsAgree => SharesAgree
  BY GivenIsShares, RestIsShared DEF LoopsAgree
<1> QED BY <1>1, LoopsAgreeInit, LoopsAgreeNext, PTL DEF CalcSpec

\* A share leaves the rest in proportion (OneShare).
KeepsRatio(w, a, b, A, W, r) ==
    /\ w \in Nat /\ a \in Nat /\ b \in Nat /\ w <= b /\ (b = 0 => a = 0)
    /\ A \in Nat /\ W \in Nat \ {0} /\ A * b <= a * W
    /\ r = IF w > 0 /\ b # 0 THEN (w * a) \div b ELSE 0
    => A * (b - w) <= (a - r) * W /\ (w * A) \div W <= r

\* A share keeps the ratio of weights, whatever the numbers.
LEMMA RatioOfShare == \A w, a, b, A, W, r : KeepsRatio(w, a, b, A, W, r)
<1> SUFFICES ASSUME NEW w \in Nat, NEW a \in Nat, NEW b \in Nat, w <= b, b = 0 => a = 0,
                    NEW A \in Nat, NEW W \in Nat \ {0}, A * b <= a * W,
                    NEW r, r = IF w > 0 /\ b # 0 THEN (w * a) \div b ELSE 0
             PROVE  A * (b - w) <= (a - r) * W /\ (w * A) \div W <= r
  BY DEF KeepsRatio
<1> QED BY OneShare

\* A pot keeps at least the part of the amount that its weight is of the whole.
FairPot(pot, ws, a, k) ==
    /\ PotAfter(pot, ws, a, k)
    /\ a * pot.weight <= pot.reward * SumFunction(ws)
    /\ \A i \in 1..k : pot.given[i] >= (ws[i] * a) \div SumFunction(ws)

\* So it stays with each part.
LEMMA FairPotNext ==
    ASSUME NEW ws \in Seq(Nat), NEW a \in Nat, SumFunction(ws) > 0, NEW k \in 1..Len(ws), NEW pot,
           FairPot(pot, ws, a, k - 1)
    PROVE  FairPot(NextPot(pot, ws[k]), ws, a, k)
<1> DEFINE W == SumFunction(ws)
           w == ws[k]
           new == NextPot(pot, w)
           part == PartFor(pot, w)
           b == pot.weight
           r == pot.reward
<1>1. /\ w \in Nat /\ W \in Nat \ {0} /\ k \in Nat
      /\ SumFunctionOnSet(ws, 1..k) = SumFunctionOnSet(ws, 1..(k - 1)) + w
      /\ SumFunctionOnSet(ws, 1..k) \in Nat /\ SumFunctionOnSet(ws, 1..k) <= W
      /\ SumFunctionOnSet(ws, 1..(k - 1)) \in Nat
  <2>1. /\ Len(ws) \in Nat /\ SumFunction(ws) \in Nat
        /\ \A j \in 0..Len(ws) : SumFunctionOnSet(ws, 1..j) \in Nat /\ SumFunctionOnSet(ws, 1..j) <= SumFunction(ws)
        /\ \A j \in 1..Len(ws) : SumFunctionOnSet(ws, 1..j) = SumFunctionOnSet(ws, 1..(j - 1)) + ws[j]
    BY WeightsLeft
  <2>2. k \in 0..Len(ws) /\ k - 1 \in 0..Len(ws) /\ k \in Nat /\ ws[k] \in Nat
    BY <2>1
  <2> QED BY <2>1, <2>2
<1>2. PotAfter(pot, ws, a, k - 1) /\ PotAfter(new, ws, a, k)
  <2>1. PotAfter(pot, ws, a, k - 1) /\ a \in Int
    BY DEF FairPot
  <2> QED BY <2>1, PotAfterNext
<1>3. /\ pot \in Pots /\ r \in Nat /\ b \in Nat /\ Len(pot.given) = k - 1 /\ pot.given \in Seq(Int)
      /\ w <= b /\ (b = 0 => r = 0)
  <2>1. /\ pot \in Pots /\ r >= 0 /\ Len(pot.given) = k - 1
        /\ b = W - SumFunctionOnSet(ws, 1..(k - 1)) /\ (b = 0 => W = 0 \/ r = 0)
    BY <1>2 DEF PotAfter
  <2>2. pot.reward \in Int /\ pot.weight \in Nat /\ pot.given \in Seq(Int)
    BY <2>1 DEF Pots
  <2> HIDE DEF W, w
  <2> QED BY <1>1, <2>1, <2>2
<1>4. /\ new.weight = b - w /\ new.reward = r - part /\ new.given = Append(pot.given, part)
      /\ part \in Int
  BY <1>1, <1>3, PotStep
<1>5. a * b <= r * W /\ \A i \in 1..(k - 1) : pot.given[i] >= (ws[i] * a) \div W
  BY DEF FairPot
<1>6. part = IF w > 0 /\ b # 0 THEN (w * r) \div b ELSE 0
  <2>1. CASE w = 0
    BY <2>1 DEF PartFor, Portion
  <2>2. CASE w # 0
    <3>1. w > 0 /\ b # 0 /\ w * r >= 0
      <4> HIDE DEF w, b, r
      <4>1. w * r \in Nat
        BY <1>1, <1>3
      <4> QED BY <1>1, <1>3, <2>2, <4>1
    <3>2. part = Quot(w * r, b)
      BY <3>1 DEF PartFor, Portion
    <3> HIDE DEF w, b, r, part
    <3> QED BY <3>1, <3>2 DEF Quot
  <2> QED BY <2>1, <2>2
<1> HIDE DEF W, w, new, part, b, r
<1>7. a * (b - w) <= (r - part) * W /\ (w * a) \div W <= part
  <2>1. /\ w \in Nat /\ r \in Nat /\ b \in Nat /\ w <= b /\ (b = 0 => r = 0)
        /\ a \in Nat /\ W \in Nat \ {0} /\ a * b <= r * W
    BY <1>1, <1>3, <1>5
  <2>2. KeepsRatio(w, r, b, a, W, part)
    BY RatioOfShare
  <2> QED BY <1>6, <2>1, <2>2 DEF KeepsRatio
<1>8. ASSUME NEW i \in 1..k PROVE new.given[i] >= (ws[i] * a) \div W
  <2>1. CASE i = k
    <3>1. new.given[k] = part
      <4> DEFINE given == pot.given
      <4>1. given \in Seq(Int) /\ Len(given) = k - 1 /\ k - 1 \in Nat /\ part \in Int
        BY <1>1, <1>3, <1>4
      <4>2. new.given = Append(given, part)
        BY <1>4
      <4> HIDE DEF given
      <4>3. Append(given, part)[(k - 1) + 1] = part
        BY <4>1
      <4>4. (k - 1) + 1 = k
        BY <1>1
      <4> QED BY <4>2, <4>3, <4>4
    <3> DEFINE q == (w * a) \div W
    <3>2. part >= q
      BY <1>7
    <3>3. (ws[k] * a) \div W = q
      BY DEF w
    <3> HIDE DEF q
    <3>4. new.given[k] >= q
      BY <3>1, <3>2
    <3>5. new.given[k] >= (ws[k] * a) \div W
      BY <3>3, <3>4
    <3> QED BY <2>1, <3>5
  <2>2. CASE i # k
    <3>1. i \in 1..(k - 1)
      BY <1>1, <2>2
    <3>2. new.given[i] = pot.given[i]
      BY <1>3, <1>4, <3>1
    <3> QED BY <1>5, <3>1, <3>2
  <2> QED BY <2>1, <2>2
<1> QED BY <1>2, <1>4, <1>7, <1>8 DEF FairPot, W, w, new

\* Shares gives everybody the whole wei of its exact part at least.
LEMMA SharesAreFair ==
    ASSUME NEW ws \in Seq(Nat), NEW a \in Nat, SumFunction(ws) > 0, NEW i \in 1..Len(ws)
    PROVE  Shares(ws, a)[i] >= (ws[i] * a) \div SumFunction(ws)
<1> DEFINE n == Len(ws)
<1>1. PICK v : GivesOut(v, ws, a) /\ Shares(ws, a) = v[n].given
  <2>1. a \in Int
    OBVIOUS
  <2> QED BY <2>1, GivesOutDefined, SharesUnfold
<1>2. v[0] = FullPot(ws, a) /\ \A k \in 1..n : v[k] = NextPot(v[k - 1], ws[k])
  BY <1>1, PotsAre
<1>3. n \in Nat /\ SumFunction(ws) \in Nat /\ SumFunctionOnSet(ws, 1..0) = 0
  BY WeightsLeft
<1> DEFINE T == {k \in 0..n : FairPot(v[k], ws, a, k)}
<1>4. 0 \in T
  <2>1. v[0].reward = a /\ v[0].weight = SumFunction(ws) /\ v[0].given = <<>> /\ v[0] \in Pots
    BY <1>2, <1>3 DEF FullPot, Pots
  <2>2. Weigh(Same, <<>>) = 0 /\ 1..0 = {} /\ 0 \in 0..n /\ Len(<<>>) = 0
    BY <1>3, WeighEmpty
  <2>3. PotAfter(v[0], ws, a, 0)
    BY <1>3, <2>1, <2>2 DEF PotAfter
  <2>4. a * SumFunction(ws) <= a * SumFunction(ws)
    BY <1>3
  <2>5. FairPot(v[0], ws, a, 0)
    BY <2>1, <2>2, <2>3, <2>4 DEF FairPot
  <2> QED BY <2>2, <2>5
<1>5. ASSUME NEW k \in 1..n, k - 1 \in T PROVE k \in T
  <2>1. FairPot(v[k - 1], ws, a, k - 1) /\ k \in 0..n
    BY <1>5
  <2>2. FairPot(NextPot(v[k - 1], ws[k]), ws, a, k)
    BY <2>1, FairPotNext
  <2> QED BY <1>2, <2>1, <2>2
<1>6. n \in T
  <2> HIDE DEF T, n
  <2>1. \A k \in 0..n : k \in T
    BY <1>3, <1>4, <1>5, StepByStep
  <2> QED BY <1>3, <2>1
<1>7. FairPot(v[n], ws, a, n)
  BY <1>6
<1> QED BY <1>1, <1>7 DEF FairPot

-----------------------------------------------------------------------------
(* What claims give a voter *)

\* Claims that give a voter an amount.
Gives(To, v, claims, x) ==
    claims \in Seq(ClaimsTo(To)) /\ Weigh(PartOf(ClaimsTo(To), v), claims) = x

\* One claim, and none.
LEMMA GivesOne ==
    ASSUME NEW To, NEW to \in To, NEW v, to[2] = v, NEW type \in ClaimTypes, NEW x \in Int
    PROVE  Gives(To, v, <<Claim(to, type, x)>>, x) /\ Gives(To, v, <<>>, 0)
<1> DEFINE R == ClaimsTo(To)
           W == PartOf(R, v)
           c == Claim(to, type, x)
<1>1. c \in R /\ c.amount = x /\ c.to[2] = v
  BY DEF Claim, ClaimsTo
<1>2. W \in [R -> Int]
  BY PartsAre
<1>3. W[c] = x
  <2> HIDE DEF c, R
  <2> QED BY <1>1 DEF PartOf
<1> HIDE DEF c, R, W
<1>4. <<c>> \in Seq(R) /\ Weigh(W, <<c>>) = W[c]
  <2>1. c \in R /\ W \in [R -> Int]
    BY <1>1, <1>2
  <2> QED BY <2>1, WeighOne
<1>5. <<>> \in Seq(R) /\ Weigh(W, <<>>) = 0
  BY WeighEmpty
<1> QED BY <1>3, <1>4, <1>5 DEF Gives, c, R, W

\* Two lists of claims.
LEMMA GivesConcat ==
    ASSUME NEW To, NEW v, NEW s, NEW x, Gives(To, v, s, x), NEW t, NEW y, Gives(To, v, t, y)
    PROVE  Gives(To, v, s \o t, x + y) /\ x \in Int /\ y \in Int
<1> DEFINE R == ClaimsTo(To)
           W == PartOf(R, v)
<1>1. W \in [R -> Int]
  BY PartsAre
<1>2. s \in Seq(R) /\ t \in Seq(R) /\ Weigh(W, s) = x /\ Weigh(W, t) = y
  BY DEF Gives
<1> HIDE DEF R, W
<1>3. /\ s \o t \in Seq(R) /\ Weigh(W, s) \in Int /\ Weigh(W, t) \in Int
      /\ Weigh(W, s \o t) = Weigh(W, s) + Weigh(W, t)
  BY <1>1, <1>2, WeighConcat
<1> QED BY <1>2, <1>3 DEF Gives, R, W

\* Claims of others give a voter nothing.
LEMMA OthersGiveNothing ==
    ASSUME NEW To, NEW v, NEW claims \in Seq(ClaimsTo(To)), \A c \in ToSet(claims) : c.to[2] # v
    PROVE  Gives(To, v, claims, 0)
<1> DEFINE R == ClaimsTo(To)
           W == PartOf(R, v)
<1>1. W \in [R -> Int]
  BY PartsAre
<1>2. ASSUME NEW i \in DOMAIN claims PROVE W[claims[i]] = 0
  <2>1. claims[i] \in R /\ claims[i].to[2] # v
    BY DEF ToSet
  <2> HIDE DEF R
  <2> QED BY <2>1 DEF PartOf
<1> HIDE DEF R, W
<1>3. Weigh(W, claims) >= 0 /\ Weigh(W, claims) <= 0 /\ Weigh(W, claims) \in Int
  <2>1. claims \in Seq(R) /\ \A i \in DOMAIN claims : W[claims[i]] >= 0 /\ W[claims[i]] <= 0
    BY <1>2 DEF R
  <2>2. Weigh(W, claims) \in Int
    BY <1>1, <2>1, WeighConcat
  <2> QED BY ONLY <1>1, <2>1, <2>2, WeighSign
<1>4. Weigh(W, claims) = 0
  BY <1>3
<1> QED BY <1>4 DEF Gives, W, R

\* Many lists of claims.
AllGive(To, v, ss, xs) ==
    /\ xs \in Seq(Int)
    /\ ss = [i \in DOMAIN xs |-> ss[i]]
    /\ \A i \in DOMAIN xs : Gives(To, v, ss[i], xs[i])

\* Lists of claims that give amounts give the sum of them together.
LEMMA GivesFlatten ==
    ASSUME NEW To, NEW v, NEW ss, NEW xs, AllGive(To, v, ss, xs)
    PROVE  Gives(To, v, FlattenSeq(ss), Weigh(Same, xs))
<1> DEFINE R == ClaimsTo(To)
           G == PartOf(R, v)
           n == Len(xs)
<1>1. G \in [R -> Int]
  BY PartsAre
<1>2. xs \in Seq(Int) /\ n \in Nat /\ DOMAIN xs = 1..n /\ xs \in [1..n -> Int]
  BY DEF AllGive
<1>3. DOMAIN ss = 1..n /\ ss = [i \in 1..n |-> ss[i]] /\ \A i \in 1..n : ss[i] \in Seq(R)
  BY <1>2 DEF AllGive, Gives
<1>4. \A i \in 1..n : Weigh(G, ss[i]) = xs[i]
  BY <1>2 DEF AllGive, Gives
<1> HIDE DEF R, G, n
<1>5. ss \in [1..n -> Seq(R)]
  BY <1>3
<1>6. ss \in Seq(Seq(R))
  BY <1>2, <1>5
<1>7. PICK V : V = [s \in Seq(R) |-> Weigh(G, s)]
  OBVIOUS
<1>8. FlattenSeq(ss) \in Seq(R) /\ Weigh(G, FlattenSeq(ss)) = Weigh(V, ss)
  BY <1>1, <1>6, <1>7, WeighFlatten
<1>9. Weigh(V, ss) = Weigh(Same, xs)
  <2>1. Alike(V, ss, Same, xs)
    BY <1>2, <1>3, <1>4, <1>7 DEF Alike, Same
  <2>2. Same \in [Int -> Int]
    BY DEF Same
  <2>3. Same \in [Int -> Int] /\ xs \in Seq(Int) /\ Alike(V, ss, Same, xs)
    BY <1>2, <2>1, <2>2
  <2>4. AlikeWeigh(V, ss, Same, xs, Int)
    BY AlikeWeighSame, Zenon
  <2> QED BY <2>3, <2>4, Zenon DEF AlikeWeigh
<1> QED BY <1>8, <1>9 DEF Gives, R, G

\* A list of zeros but for one amount.
OnlyOf(n, v, x) == [i \in 1..n |-> IF i = v THEN x ELSE 0]

\* It weighs that amount.
LEMMA OnlyWeighs ==
    ASSUME NEW n \in Nat, NEW v \in 1..n, NEW x \in Int
    PROVE  OnlyOf(n, v, x) \in Seq(Int) /\ Weigh(Same, OnlyOf(n, v, x)) = x
<1> DEFINE xs == OnlyOf(n, v, x)
           S == 1..n
           f == [i \in DOMAIN xs |-> Same[xs[i]]]
           z == [i \in S |-> 0]
<1>1. DOMAIN xs = S /\ xs \in Seq(Int) /\ \A i \in S : xs[i] = IF i = v THEN x ELSE 0
  BY DEF OnlyOf
<1>2. IsFiniteSet(S) /\ IsFiniteSet(S \ {v})
  <2>1. IsFiniteSet(S)
    BY FS_Interval
  <2> QED BY <2>1, FS_RemoveElement
<1>3. \A i \in S : f[i] = IF i = v THEN x ELSE 0
  <2> HIDE DEF xs, S
  <2> QED BY <1>1 DEF Same
<1>4. f = [i \in S |-> f[i]]
  BY <1>1
<1>5. Weigh(Same, xs) = SumFunctionOnSet(f, S)
  BY <1>1 DEF Weigh
<1> HIDE DEF xs, f, S
<1>6. SumFunctionOnSet(f, S) = x + SumFunctionOnSet(f, S \ {v})
  <2>1. v \in S /\ f[v] = x /\ \A i \in S : f[i] \in Int
    BY <1>3 DEF S
  <2> QED BY <1>2, <2>1, SumTake
<1>7. SumFunctionOnSet(f, S \ {v}) = 0
  <2>1. \A i \in S \ {v} : f[i] = z[i] /\ z[i] \in Int /\ z[i] = 0
    BY <1>3
  <2>2. SumFunctionOnSet(f, S \ {v}) = SumFunctionOnSet(z, S \ {v})
    BY <1>2, <2>1, SumSame
  <2>3. SumFunctionOnSet(z, S) = 0
    <3>1. SumFunction([i \in 1..n |-> 0]) = n * 0
      BY SumOfSame
    <3> QED BY <3>1 DEF SumFunction, S
  <2>4. SumFunctionOnSet(z, S) = z[v] + SumFunctionOnSet(z, S \ {v}) /\ z[v] = 0
    <3>1. v \in S /\ \A i \in S : z[i] \in Int /\ z[i] = 0
      BY DEF S
    <3> HIDE DEF z
    <3> QED BY <1>2, <3>1, SumTake
  <2>5. SumFunctionOnSet(z, S \ {v}) \in Int
    BY <1>2, <2>1, SumTake
  <2> QED BY <2>2, <2>3, <2>4, <2>5
<1> QED BY <1>1, <1>5, <1>6, <1>7 DEF xs

\* When only the voter's own list gives it something, all lists together do.
OnlyOwnGives(To, v, ss, x) ==
    /\ v \in DOMAIN ss /\ Gives(To, v, ss[v], x)
    /\ \A i \in DOMAIN ss \ {v} : /\ ss[i] \in Seq(ClaimsTo(To))
                                  /\ \A c \in ToSet(ss[i]) : c.to[2] # v

\* What a flattened list gives a voter is what its own part gives.
LEMMA OwnGives ==
    ASSUME NEW To, NEW n \in Nat, NEW ss, ss = [i \in 1..n |-> ss[i]], NEW v, NEW x \in Int,
           OnlyOwnGives(To, v, ss, x)
    PROVE  Gives(To, v, FlattenSeq(ss), x)
<1> DEFINE xs == OnlyOf(n, v, x)
<1>1. DOMAIN ss = 1..n /\ v \in 1..n
  BY DEF OnlyOwnGives
<1>2. xs \in Seq(Int) /\ Weigh(Same, xs) = x
  BY <1>1, OnlyWeighs
<1>3. DOMAIN xs = 1..n /\ \A i \in 1..n : xs[i] = IF i = v THEN x ELSE 0
  BY DEF OnlyOf
<1> HIDE DEF xs
<1>4. ASSUME NEW i \in 1..n PROVE Gives(To, v, ss[i], xs[i])
  <2>1. CASE i = v
    BY <1>1, <1>3, <2>1 DEF OnlyOwnGives
  <2>2. CASE i # v
    <3>1. ss[i] \in Seq(ClaimsTo(To)) /\ \A c \in ToSet(ss[i]) : c.to[2] # v
      BY <1>1, <2>2 DEF OnlyOwnGives
    <3>2. Gives(To, v, ss[i], 0)
      BY <3>1, OthersGiveNothing
    <3> QED BY <1>3, <2>2, <3>2
  <2> QED BY <2>1, <2>2
<1>5. AllGive(To, v, ss, xs)
  BY <1>1, <1>2, <1>3, <1>4 DEF AllGive
<1> QED BY <1>2, <1>5, GivesFlatten

-----------------------------------------------------------------------------
(* What the split of an amount gives *)

\* The nodes of a voter.
LEMMA NodesGive ==
    ASSUME NEW To, NEW v, HasOwn(To, v), NEW nodes \in Seq(Nat),
           NEW a \in Int, NEW given, SharedOut(given, nodes, a), Weigh(Same, given) = a
    PROVE  Gives(To, v, [i \in DOMAIN nodes |-> Claim(<<"node", v, i>>, "MIRROR", given[i])], a)
<1> DEFINE R == ClaimsTo(To)
           G == PartOf(R, v)
           C == [i \in DOMAIN nodes |-> Claim(<<"node", v, i>>, "MIRROR", given[i])]
           m == Len(nodes)
<1>1. m \in Nat /\ DOMAIN nodes = 1..m
  OBVIOUS
<1>2. given \in Seq(Int) /\ DOMAIN given = 1..m /\ given \in [1..m -> Int]
  BY <1>1 DEF SharedOut
<1>3. ASSUME NEW i \in 1..m
      PROVE  C[i] \in R /\ C[i].amount = given[i] /\ C[i].to[2] = v
  <2>1. <<"node", v, i>> \in To
    <3>1. i \in Nat
      BY <1>1
    <3> QED BY <3>1 DEF HasOwn
  <2>3. given[i] \in Int
    <3> HIDE DEF m
    <3> QED BY <1>2
  <2> QED BY <1>1, <2>1, <2>3 DEF Claim, ClaimsTo, ClaimTypes
<1>4. C = [i \in 1..m |-> C[i]]
  BY <1>1
<1> HIDE DEF C, R, m
<1>5. C \in [1..m -> R] /\ C \in Seq(R) /\ DOMAIN C = 1..m
  <2>1. C \in [1..m -> R]
    BY <1>3, <1>4
  <2>2. m \in Nat
    BY <1>1
  <2> QED BY ONLY <2>1, <2>2
<1>6. G \in [R -> Int] /\ \A i \in 1..m : G[C[i]] = given[i]
  <2>1. PartOf(R, v) \in [R -> Int]
    BY PartsAre DEF R
  <2> QED BY <1>3, <2>1 DEF PartOf
<1> HIDE DEF G
<1>7. Alike(G, C, Same, given) /\ Same \in [Int -> Int]
  BY <1>2, <1>5, <1>6 DEF Alike, Same
<1>8. Weigh(G, C) = Weigh(Same, given)
  <2>1. Same \in [Int -> Int] /\ given \in Seq(Int) /\ Alike(G, C, Same, given)
    BY <1>2, <1>7
  <2>2. AlikeWeigh(G, C, Same, given, Int)
    BY AlikeWeighSame, Zenon
  <2> QED BY <2>1, <2>2, Zenon DEF AlikeWeigh
<1> QED BY <1>5, <1>8 DEF Gives, G, R, C

\* A voter with delegations is given all of its split.
LEMMA SplitGives ==
    ASSUME NEW To, NEW pol \in Seq(Voters), NEW v \in DOMAIN pol, HasOwn(To, v),
           pol[v].delegation > 0, NEW offer, NEW a \in Int
    PROVE  Gives(To, v, SigningSplit(pol, v, offer, a), a)
<1> DEFINE nodes == pol[v].nodes
           staked == SumFunction(nodes)
           total == pol[v].delegation + staked
           sA == Quot(a * staked, total)
           dA == a - sA
           cap == Min({StakingFeeCap, pol[v].fee})
           dF == Quot(dA * pol[v].fee, TotalBips)
           sF == Quot(sA * cap, TotalBips)
           given == Shares(nodes, sA - sF)
           A == IF dF + sF # 0 THEN <<Claim(<<"identity", v>>, "FEE", dF + sF)>> ELSE <<>>
           B == <<Claim(<<"delegation", v>>, "WNAT", dA - dF)>>
           C == [i \in DOMAIN nodes |-> Claim(<<"node", v, i>>, "MIRROR", given[i])]
<1>1. /\ pol[v].delegation \in Nat /\ nodes \in Seq(Nat) /\ pol[v].fee \in 0..TotalBips
      /\ v \in 1..Len(pol) /\ Len(pol) \in Nat
  <2>1. pol[v] \in Voters /\ v \in 1..Len(pol) /\ Len(pol) \in Nat
    OBVIOUS
  <2> QED BY <2>1 DEF Voters
<1>2. staked \in Nat
  BY <1>1, WeightsLeft
<1>3. TotalBips \in Nat \ {0} /\ StakingFeeCap \in 0..TotalBips
  BY SharesAssumption
<1>4. SigningSplit(pol, v, offer, a) = IF total = 0 THEN ClaimBack(offer, a) ELSE A \o B \o C
  BY DEF SigningSplit
<1>5. /\ <<"identity", v>> \in To /\ <<"delegation", v>> \in To
      /\ {"FEE", "WNAT", "DIRECT"} \in SUBSET ClaimTypes
  BY <1>1 DEF HasOwn, ClaimTypes
<1>6. cap \in 0..TotalBips
  <2> DEFINE S == {StakingFeeCap, pol[v].fee}
  <2>1. S \in SUBSET Nat /\ S # {} /\ \A x \in S : x \in 0..TotalBips
    BY <1>1, <1>3
  <2>2. Min(S) \in S
    <3> HIDE DEF S
    <3> QED BY <2>1, MinOfNaturals
  <2> QED BY <2>1, <2>2
<1>8. Gives(To, v, SigningSplit(pol, v, offer, a), a)
  <2>0. total \in Nat \ {0} /\ staked <= total
    BY <1>1, <1>2
  <2>1. PortionFor(sA, staked, a, total)
    <3> HIDE DEF total, staked
    <3> QED BY <1>2, <2>0, QuotOf
  <2>2. sA \in Int /\ dA \in Int
    BY <2>1 DEF PortionFor
  <2>3. PortionFor(dF, pol[v].fee, dA, TotalBips)
    <3> DEFINE f == pol[v].fee
    <3>1. f \in Nat /\ f <= TotalBips /\ dA \in Int
      BY <1>1, <2>2
    <3> HIDE DEF f, dA
    <3>2. PortionFor(Quot(dA * f, TotalBips), f, dA, TotalBips)
      BY <1>3, <3>1, QuotOf
    <3> QED BY <3>2 DEF f
  <2>4. PortionFor(sF, cap, sA, TotalBips)
    <3>1. cap \in Nat /\ cap <= TotalBips /\ sA \in Int
      BY <1>6, <2>2
    <3> HIDE DEF cap, sA
    <3>2. PortionFor(Quot(sA * cap, TotalBips), cap, sA, TotalBips)
      BY <1>3, <3>1, QuotOf
    <3> QED BY <3>2
  <2>5. dF \in Int /\ sF \in Int
    BY <2>3, <2>4 DEF PortionFor
  <2> HIDE DEF dF, sF, dA, sA, cap, total, nodes
  <2>6. dA = a - sA
    BY DEF dA
  <2>7. SharedOut(given, nodes, sA - sF)
    <3>1. sA - sF \in Int
      BY <2>2, <2>5
    <3> QED BY <1>1, <3>1, SharesGive
  <2> HIDE DEF given
  <2>8. Weigh(Same, given) = sA - sF
    <3>1. staked = 0 => sA - sF = 0
      BY <2>1, <2>4 DEF PortionFor
    <3>2. SumFunction(nodes) > 0 \/ sA - sF = 0
      BY <1>2, <3>1
    <3> QED BY <2>7, <3>2 DEF SharedOut
  <2>9. Gives(To, v, C, sA - sF)
    <3>1. sA - sF \in Int
      BY <2>2, <2>5
    <3> QED BY <1>1, <2>7, <2>8, <3>1, NodesGive
  <2>10. Gives(To, v, B, dA - dF)
    <3>1. dA - dF \in Int /\ "WNAT" \in ClaimTypes /\ <<"delegation", v>>[2] = v
      BY <1>5, <2>2, <2>5
    <3> QED BY <1>5, <3>1, GivesOne
  <2>11. Gives(To, v, A, dF + sF)
    <3>1. dF + sF \in Int /\ "FEE" \in ClaimTypes /\ <<"identity", v>>[2] = v
      BY <1>5, <2>5
    <3>2. /\ Gives(To, v, <<Claim(<<"identity", v>>, "FEE", dF + sF)>>, dF + sF)
          /\ Gives(To, v, <<>>, 0)
      BY <1>5, <3>1, GivesOne
    <3> QED BY <3>2
  <2> HIDE DEF A, B, C
  <2>12. Gives(To, v, A \o B, (dF + sF) + (dA - dF))
    BY <2>10, <2>11, GivesConcat
  <2>13. Gives(To, v, (A \o B) \o C, (dF + sF) + (dA - dF) + (sA - sF))
    BY <2>9, <2>12, GivesConcat
  <2>14. (dF + sF) + (dA - dF) + (sA - sF) = a
    BY <2>2, <2>5, <2>6
  <2> QED BY <1>4, <2>0, <2>13, <2>14 DEF total
<1> QED BY <1>8

\* The addresses of a voter, and one of another.
OwnOr(v, other) ==
    {<<"identity", v>>, <<"delegation", v>>, other} \cup {<<"node", v, i>> : i \in Nat}

\* A split gives nobody but its voter and the one the offer goes back to.
LEMMA SplitTargets ==
    ASSUME NEW pol \in Seq(Voters), NEW v \in DOMAIN pol, NEW offer, NEW a \in Int,
           NEW c \in ToSet(SigningSplit(pol, v, offer, a))
    PROVE  c.to[2] = v \/ c.to = offer.claimBack
<1> DEFINE To == OwnOr(v, offer.claimBack)
           split == SigningSplit(pol, v, offer, a)
<1>1. HasOwn(To, v) /\ offer.claimBack \in To
  BY DEF HasOwn, OwnOr
<1>2. \A to \in To : to[2] = v \/ to = offer.claimBack
  BY DEF OwnOr
<1> HIDE DEF To, split
<1>3. split \in Seq(SignedTo(To, a))
  BY <1>1, SplitSigns DEF split
<1>4. c \in SignedTo(To, a)
  BY <1>3 DEF ToSet, split
<1>5. c.to \in To
  BY <1>4 DEF SignedTo, ClaimsTo
<1> QED BY <1>2, <1>5

\* Larger weights have a larger sum.
LEMMA SumsMonotone ==
    ASSUME NEW n \in Nat, NEW f \in Seq(Nat), NEW g \in Seq(Nat), Len(f) = n, Len(g) = n,
           \A i \in 1..n : f[i] <= g[i]
    PROVE  SumFunction(f) <= SumFunction(g)
<1> DEFINE S(k) == SumFunctionOnSet(f, 1..k)
           U(k) == SumFunctionOnSet(g, 1..k)
           T == {k \in 0..n : S(k) <= U(k)}
<1>1. /\ SumFunction(f) = S(n) /\ S(0) = 0 /\ \A k \in 0..n : S(k) \in Nat
      /\ \A k \in 1..n : S(k) = S(k - 1) + f[k]
  BY WeightsLeft
<1>2. /\ SumFunction(g) = U(n) /\ U(0) = 0 /\ \A k \in 0..n : U(k) \in Nat
      /\ \A k \in 1..n : U(k) = U(k - 1) + g[k]
  BY WeightsLeft
<1>3. \A k \in 1..n : f[k] \in Nat /\ g[k] \in Nat
  OBVIOUS
<1> HIDE DEF S, U
<1>4. 0 \in T
  BY <1>1, <1>2
<1>5. ASSUME NEW k \in 1..n, k - 1 \in T PROVE k \in T
  <2>1. S(k - 1) <= U(k - 1) /\ k - 1 \in 0..n /\ k \in 0..n
    BY <1>5
  <2>2. S(k - 1) \in Nat /\ U(k - 1) \in Nat /\ f[k] \in Nat /\ g[k] \in Nat /\ f[k] <= g[k]
    BY <1>1, <1>2, <1>3, <2>1
  <2>3. S(k) = S(k - 1) + f[k] /\ U(k) = U(k - 1) + g[k]
    BY <1>1, <1>2
  <2>4. S(k) <= U(k)
    BY <2>1, <2>2, <2>3
  <2> QED BY <2>1, <2>4
<1>6. n \in T
  <2> HIDE DEF T
  <2>1. \A k \in 0..n : k \in T
    BY <1>4, <1>5, StepByStep
  <2> QED BY <2>1
<1> QED BY <1>1, <1>2, <1>6

\* A larger divisor has a smaller quotient.
LEMMA LargerDivisor ==
    ASSUME NEW x \in Nat, NEW b \in Nat \ {0}, NEW c \in Nat \ {0}, b <= c
    PROVE  x \div c <= x \div b
<1> DEFINE q == x \div c
<1>1. q \in Nat /\ q * c <= x
  BY DivFloor
<1> HIDE DEF q
<1>2. q * b <= q * c
  BY <1>1
<1>3. q * b <= x
  <2>1. q * b \in Nat /\ q * c \in Nat
    BY <1>1
  <2> QED BY <1>1, <1>2, <2>1
<1>4. q <= x \div b
  BY <1>1, <1>3, DivGreatest
<1> QED BY <1>4 DEF q

\* Lists of a kind of claims together are of the kind.
LEMMA FlattenWithin ==
    ASSUME NEW R, NEW n \in Nat, NEW ss, ss = [i \in 1..n |-> ss[i]], \A i \in 1..n : ss[i] \in Seq(R)
    PROVE  FlattenSeq(ss) \in Seq(R)
<1>1. ss \in Seq(Seq(R))
  <2>1. ss \in [1..n -> Seq(R)]
    OBVIOUS
  <2> QED BY <2>1
<1>2. PICK W : W = [r \in R |-> 0]
  OBVIOUS
<1>3. W \in [R -> Int]
  BY <1>2
<1> QED BY <1>1, <1>3, WeighFlatten

-----------------------------------------------------------------------------
(* Who is spared *)

\* Claims of others than a voter.
Spared(To, v) == {c \in ClaimsTo(To) : c.to[2] # v}

\* They give it nothing.
LEMMA SparedAre ==
    ASSUME NEW To, NEW v, NEW claims \in Seq(Spared(To, v))
    PROVE  claims \in Seq(ClaimsTo(To)) /\ \A c \in ToSet(claims) : c.to[2] # v
<1>1. \A c \in ToSet(claims) : c \in Spared(To, v)
  BY DEF ToSet
<1>2. claims \in Seq(ClaimsTo(To))
  <2>1. \A i \in 1..Len(claims) : claims[i] \in ClaimsTo(To)
    BY DEF Spared
  <2> QED BY <2>1
<1> QED BY <1>1, <1>2 DEF Spared

\* The split for another, and what goes back.
LEMMA SplitSpares ==
    ASSUME NEW To, NEW pol \in Seq(Voters), HasAddresses(To, Len(pol)),
           NEW u \in DOMAIN pol, NEW v, u # v,
           NEW offer, offer.claimBack \in To, offer.claimBack[2] # v, NEW a \in Int
    PROVE  SigningSplit(pol, u, offer, a) \in Seq(Spared(To, v))
<1> DEFINE split == SigningSplit(pol, u, offer, a)
           R == ClaimsTo(To)
           S == Spared(To, v)
<1>1. split \in Seq(R)
  BY SplitPays DEF Pays
<1>2. \A c \in ToSet(split) : c.to[2] # v
  BY SplitTargets
<1> HIDE DEF split, R
<1>3. \A i \in 1..Len(split) : split[i] \in S
  <2>1. \A i \in 1..Len(split) : split[i] \in R /\ split[i] \in ToSet(split)
    BY <1>1 DEF ToSet
  <2> QED BY <1>2, <2>1 DEF Spared, R
<1> HIDE DEF S
<1>4. split \in Seq(S)
  BY <1>1, <1>3
<1> QED BY <1>4 DEF split, S

\* What goes back is no voter's.
LEMMA BackSpares ==
    ASSUME NEW To, NEW v, NEW offer, offer.claimBack \in To, offer.claimBack[2] # v, NEW a \in Int
    PROVE  ClaimBack(offer, a) \in Seq(Spared(To, v))
<1> DEFINE c == Claim(offer.claimBack, "DIRECT", a)
<1>1. c \in Spared(To, v)
  BY DEF Spared, Claim, ClaimsTo, ClaimTypes
<1>2. ClaimBack(offer, a) = <<c>>
  BY DEF ClaimBack
<1> HIDE DEF c
<1> QED BY <1>1, <1>2

\* A penalty is at most nothing, and in proportion to the weight.
LEMMA PenaltyIsQuot ==
    ASSUME NEW a \in Nat, NEW x \in Nat, x # 0, NEW total \in Nat, x <= total
    PROVE  /\ Quot(-x * a * PenaltyFactor, total) \in Int
           /\ Quot(-x * a * PenaltyFactor, total) = -((x * a * PenaltyFactor) \div total)
<1> DEFINE y == x * a * PenaltyFactor
<1>1. y \in Nat /\ total \in Nat \ {0}
  <2>1. PenaltyFactor \in Nat
    BY SharesAssumption
  <2>2. x * a \in Nat
    OBVIOUS
  <2> QED BY <2>1, <2>2
<1>2. -x * a * PenaltyFactor = -y
  <2>1. PenaltyFactor \in Nat /\ x * a \in Nat
    BY SharesAssumption
  <2>2. -x * a = -(x * a)
    OBVIOUS
  <2> QED BY <2>1, <2>2
<1> HIDE DEF y
<1>3. Quot(-y, total) \in Int /\ Quot(-y, total) = -(y \div total)
  <2>1. CASE y = 0
    <3>1. 0 \div total = 0
      BY <1>1
    <3>2. -y = 0
      <4>1. y \in Int
        BY <2>1
      <4> QED BY ONLY <4>1, <2>1, MinusNothing
    <3>3. Quot(0, total) = 0
      BY <3>1 DEF Quot
    <3>4. -(y \div total) = 0
      <4> DEFINE z == y \div total
      <4>1. z = 0
        BY <2>1, <3>1
      <4> HIDE DEF z
      <4>2. z \in Int
        BY <4>1
      <4>3. -z = 0
        BY ONLY <4>1, <4>2, MinusNothing
      <4> QED BY <4>3 DEF z
    <3> QED BY <3>2, <3>3, <3>4
  <2>2. CASE y > 0
    <3>1. -y < 0 /\ -(-y) = y /\ y \div total \in Int
      BY <1>1, <2>2, DivFloor
    <3> QED BY <1>1, <3>1 DEF Quot
  <2> QED BY <1>1, <2>1, <2>2
<1> QED BY <1>2, <1>3 DEF y

\* No penalty is of who did not offend.
LEMMA PenaltiesSpare ==
    ASSUME NEW To, NEW pol \in Seq(Voters), HasAddresses(To, Len(pol)),
           NEW offer, offer.claimBack \in To, offer.amount \in Nat,
           NEW v, offer.claimBack[2] # v, NEW offenders, v \notin offenders
    PROVE  /\ PenaltyClaims(pol, offer, offenders) \in Seq(Spared(To, v))
           /\ FdcPenaltyClaims(pol, offer, offenders) \in Seq(Spared(To, v))
<1> DEFINE n == Len(pol)
           a == offer.amount
           S == Spared(To, v)
<1>1. n \in Nat /\ DOMAIN pol = 1..n /\ a \in Nat
  OBVIOUS
<1>2. ASSUME NEW u \in 1..n PROVE pol[u].delegation \in Nat /\ pol[u].signing \in Nat
  <2>1. pol[u] \in Voters
    BY <1>1
  <2> QED BY <2>1 DEF Voters
<1>3. <<>> \in Seq(S)
  OBVIOUS
<1> HIDE DEF S, a, n
<1>4. PenaltyClaims(pol, offer, offenders) \in Seq(S)
  <2> DEFINE f == [u \in DOMAIN pol |-> pol[u].delegation]
             total == SumFunction(f)
             penalty(u) == IF pol[u].delegation = 0 THEN 0
                           ELSE Quot(-pol[u].delegation * a * PenaltyFactor, total)
             ss == [u \in DOMAIN pol |->
                       IF u \in offenders THEN SigningSplit(pol, u, offer, penalty(u)) ELSE <<>>]
  <2>1. PenaltyClaims(pol, offer, offenders) = FlattenSeq(ss)
    BY DEF PenaltyClaims, a
  <2>2. total \in Nat /\ \A u \in 1..n : pol[u].delegation <= total
    <3>1. DOMAIN f = 1..n /\ \A u \in 1..n : f[u] = pol[u].delegation
      BY <1>1
    <3> HIDE DEF f
    <3> QED BY <1>1, <1>2, <3>1, WholeIsMore
  <2> HIDE DEF total
  <2>3. ASSUME NEW u \in 1..n PROVE penalty(u) \in Int
    <3>1. pol[u].delegation \in Nat /\ pol[u].delegation <= total
      BY <1>2, <2>2
    <3>2. CASE pol[u].delegation = 0
      BY <3>2
    <3>3. CASE pol[u].delegation # 0
      <4>1. Quot(-pol[u].delegation * a * PenaltyFactor, total) \in Int
        BY <1>1, <2>2, <3>1, <3>3, PenaltyIsQuot
      <4> QED BY <3>3, <4>1
    <3> QED BY <3>2, <3>3
  <2> HIDE DEF penalty
  <2>4. ASSUME NEW u \in 1..n PROVE ss[u] \in Seq(S)
    <3>1. u \in DOMAIN pol
      BY <1>1
    <3>2. CASE u \in offenders
      <4>1. ss[u] = SigningSplit(pol, u, offer, penalty(u)) /\ u # v
        BY <3>1, <3>2
      <4>2. penalty(u) \in Int
        BY <2>3
      <4> QED BY <3>1, <4>1, <4>2, SplitSpares DEF S, n
    <3>3. CASE u \notin offenders
      BY <1>3, <3>1, <3>3
    <3> QED BY <3>2, <3>3
  <2>5. ss = [u \in 1..n |-> ss[u]]
    BY <1>1
  <2> HIDE DEF ss
  <2> QED BY <1>1, <2>1, <2>4, <2>5, FlattenWithin
<1>5. FdcPenaltyClaims(pol, offer, offenders) \in Seq(S)
  <2> DEFINE f == [u \in DOMAIN pol |-> pol[u].signing]
             total == SumFunction(f)
             penalty(u) == IF pol[u].signing = 0 THEN 0
                           ELSE Quot(-pol[u].signing * a * PenaltyFactor, total)
             ss == [u \in DOMAIN pol |-> IF u \in offenders /\ penalty(u) < 0
                       THEN SigningSplit(pol, u, offer, penalty(u)) ELSE <<>>]
  <2>1. FdcPenaltyClaims(pol, offer, offenders) = FlattenSeq(ss)
    BY DEF FdcPenaltyClaims, a
  <2>2. total \in Nat /\ \A u \in 1..n : pol[u].signing <= total
    <3>1. DOMAIN f = 1..n /\ \A u \in 1..n : f[u] = pol[u].signing
      BY <1>1
    <3> HIDE DEF f
    <3> QED BY <1>1, <1>2, <3>1, WholeIsMore
  <2> HIDE DEF total
  <2>3. ASSUME NEW u \in 1..n PROVE penalty(u) \in Int
    <3>1. pol[u].signing \in Nat /\ pol[u].signing <= total
      BY <1>2, <2>2
    <3>2. CASE pol[u].signing = 0
      BY <3>2
    <3>3. CASE pol[u].signing # 0
      <4>1. Quot(-pol[u].signing * a * PenaltyFactor, total) \in Int
        BY <1>1, <2>2, <3>1, <3>3, PenaltyIsQuot
      <4> QED BY <3>3, <4>1
    <3> QED BY <3>2, <3>3
  <2> HIDE DEF penalty
  <2>4. ASSUME NEW u \in 1..n PROVE ss[u] \in Seq(S)
    <3>1. u \in DOMAIN pol
      BY <1>1
    <3>2. CASE u \in offenders /\ penalty(u) < 0
      <4>1. ss[u] = SigningSplit(pol, u, offer, penalty(u)) /\ u # v
        BY <3>1, <3>2
      <4>2. penalty(u) \in Int
        BY <2>3
      <4> QED BY <3>1, <4>1, <4>2, SplitSpares DEF S, n
    <3>3. CASE ~(u \in offenders /\ penalty(u) < 0)
      BY <1>3, <3>1, <3>3
    <3> QED BY <3>2, <3>3
  <2>5. ss = [u \in 1..n |-> ss[u]]
    BY <1>1
  <2> HIDE DEF ss
  <2> QED BY <1>1, <2>1, <2>4, <2>5, FlattenWithin
<1> QED BY <1>4, <1>5 DEF S

\* An offender's penalty is all of its.
LEMMA PenaltyGives ==
    ASSUME NEW To, NEW pol \in Seq(Voters), HasAddresses(To, Len(pol)),
           NEW offer, offer.claimBack \in To, offer.amount \in Nat,
           NEW v \in DOMAIN pol, offer.claimBack[2] # v, NEW offenders, v \in offenders,
           pol[v].delegation > 0,
           NEW all, all = SumFunction([u \in DOMAIN pol |-> pol[u].delegation])
    PROVE  PaidTo(PenaltyClaims(pol, offer, offenders), v)
              = -((pol[v].delegation * offer.amount * PenaltyFactor) \div all)
<1> DEFINE n == Len(pol)
           a == offer.amount
           S == Spared(To, v)
           penalty(u) == IF pol[u].delegation = 0 THEN 0
                         ELSE Quot(-pol[u].delegation * a * PenaltyFactor, all)
           ss == [u \in DOMAIN pol |->
                     IF u \in offenders THEN SigningSplit(pol, u, offer, penalty(u)) ELSE <<>>]
<1>1. n \in Nat /\ DOMAIN pol = 1..n /\ a \in Nat
  OBVIOUS
<1>2. ASSUME NEW u \in 1..n PROVE pol[u].delegation \in Nat
  <2>1. pol[u] \in Voters
    BY <1>1
  <2> QED BY <2>1 DEF Voters
<1>3. <<>> \in Seq(S)
  OBVIOUS
<1>4. PenaltyClaims(pol, offer, offenders) = FlattenSeq(ss)
  BY DEF PenaltyClaims
<1> HIDE DEF S, a, n
<1>5. all \in Nat /\ \A u \in 1..n : pol[u].delegation <= all
  <2> DEFINE f == [u \in DOMAIN pol |-> pol[u].delegation]
  <2>1. DOMAIN f = 1..n /\ \A u \in 1..n : f[u] = pol[u].delegation
    BY <1>1
  <2>2. all = SumFunction(f)
    OBVIOUS
  <2> HIDE DEF f
  <2>3. SumFunction(f) \in Nat /\ \A u \in 1..n : f[u] <= SumFunction(f)
    BY <1>1, <1>2, <2>1, WholeIsMore
  <2> QED BY <2>1, <2>2, <2>3
<1>6. ASSUME NEW u \in 1..n PROVE penalty(u) \in Int
  <2>1. pol[u].delegation \in Nat /\ pol[u].delegation <= all
    BY <1>2, <1>5
  <2>2. CASE pol[u].delegation = 0
    BY <2>2
  <2>3. CASE pol[u].delegation # 0
    <3>1. Quot(-pol[u].delegation * a * PenaltyFactor, all) \in Int
      BY <1>1, <1>5, <2>1, <2>3, PenaltyIsQuot
    <3> QED BY <2>3, <3>1
  <2> QED BY <2>2, <2>3
<1>7. penalty(v) = -((pol[v].delegation * a * PenaltyFactor) \div all)
  <2>1. pol[v].delegation \in Nat /\ pol[v].delegation <= all /\ pol[v].delegation # 0
    BY <1>1, <1>2, <1>5
  <2>2. Quot(-pol[v].delegation * a * PenaltyFactor, all)
          = -((pol[v].delegation * a * PenaltyFactor) \div all)
    BY <1>1, <1>5, <2>1, PenaltyIsQuot
  <2> QED BY <2>1, <2>2
<1> HIDE DEF penalty
<1>8. OnlyOwnGives(To, v, ss, penalty(v))
  <2>1. HasOwn(To, v) /\ v \in 1..n /\ penalty(v) \in Int
    BY <1>1, <1>6 DEF HasAddresses, HasOwn, n
  <2>2. Gives(To, v, SigningSplit(pol, v, offer, penalty(v)), penalty(v))
    BY <2>1, SplitGives
  <2>3. v \in DOMAIN ss /\ ss[v] = SigningSplit(pol, v, offer, penalty(v))
    OBVIOUS
  <2>4. ASSUME NEW u \in DOMAIN ss \ {v} PROVE ss[u] \in Seq(S)
    <3>1. u \in DOMAIN pol /\ u # v /\ penalty(u) \in Int
      BY <1>1, <1>6
    <3>2. CASE u \in offenders
      <4>1. ss[u] = SigningSplit(pol, u, offer, penalty(u))
        BY <3>1, <3>2
      <4> QED BY <3>1, <4>1, SplitSpares DEF S
    <3>3. CASE u \notin offenders
      BY <1>3, <3>1, <3>3
    <3> QED BY <3>2, <3>3
  <2>5. \A u \in DOMAIN ss \ {v} : ss[u] \in Seq(ClaimsTo(To)) /\ \A c \in ToSet(ss[u]) : c.to[2] # v
    <3> HIDE DEF ss
    <3> QED BY <2>4, SparedAre DEF S
  <2> QED BY <2>2, <2>3, <2>5 DEF OnlyOwnGives
<1>9. ss = [u \in 1..n |-> ss[u]] /\ penalty(v) \in Int
  BY <1>1, <1>6
<1> HIDE DEF ss
<1>10. Gives(To, v, FlattenSeq(ss), penalty(v))
  BY <1>1, <1>8, <1>9, OwnGives
<1>11. PaidTo(FlattenSeq(ss), v) = penalty(v)
  BY <1>10, VoterPaid DEF Gives, PaidTo
<1> QED BY <1>4, <1>7, <1>11 DEF a

-----------------------------------------------------------------------------
(* Who is paid for signing *)

\* Nothing of a signing offer is for a voter that is not rewarded.
LEMMA SigningSpares ==
    ASSUME NEW To, NEW pol \in Seq(Voters), HasAddresses(To, Len(pol)),
           NEW offer, offer.claimBack \in To, offer.amount \in Nat,
           NEW round, NEW signatures, NEW first,
           NEW v, offer.claimBack[2] # v, v \notin RewardedSigners(round, signatures, first)
    PROVE  SigningClaims(pol, offer, round, signatures, first, DOMAIN pol) \in Seq(Spared(To, v))
<1> DEFINE a == offer.amount
           n == Len(pol)
           S == RewardedSigners(round, signatures, first)
           ws == WeightsIn(pol, S)
           given == Shares(ws, a)
           claims(u) == IF u \notin S THEN <<>>
                        ELSE IF u \in DOMAIN pol THEN SigningSplit(pol, u, offer, given[u])
                        ELSE ClaimBack(offer, given[u])
           ss == [u \in DOMAIN pol |-> claims(u)]
           R == Spared(To, v)
<1>1. SigningClaims(pol, offer, round, signatures, first, DOMAIN pol)
        = IF first = Empty THEN ClaimBack(offer, a)
          ELSE IF SumFunction(ws) = 0 THEN ClaimBack(offer, a) ELSE FlattenSeq(ss)
  BY DEF SigningClaims, WeightsIn
<1>2. ws \in Seq(Nat) /\ Len(ws) = n /\ DOMAIN pol = 1..n /\ n \in Nat /\ a \in Int
  BY WeightsInAre
<1>3. ClaimBack(offer, a) \in Seq(R)
  BY <1>2, BackSpares
<1>4. v \notin S
  OBVIOUS
<1>41. <<>> \in Seq(R)
  OBVIOUS
<1> HIDE DEF S, ws, R, a
<1>5. SharedOut(given, ws, a)
  BY <1>2, SharesGive
<1> HIDE DEF given
<1>6. given \in Seq(Int) /\ Len(given) = n
  BY <1>2, <1>5 DEF SharedOut
<1>7. ASSUME NEW u \in 1..n PROVE ss[u] \in Seq(R)
  <2>1. u \in DOMAIN pol /\ given[u] \in Int /\ ss[u] = claims(u)
    BY <1>2, <1>6
  <2>2. CASE u \notin S
    <3>1. ss[u] = <<>>
      BY <2>1, <2>2
    <3> QED BY <1>41, <3>1
  <2>3. CASE u \in S
    <3>1. ss[u] = SigningSplit(pol, u, offer, given[u]) /\ u # v
      BY <1>4, <2>1, <2>3
    <3> QED BY <2>1, <3>1, SplitSpares DEF R
  <2> QED BY <2>2, <2>3
<1>8. ss = [u \in 1..n |-> ss[u]]
  BY <1>2
<1> HIDE DEF ss
<1>9. FlattenSeq(ss) \in Seq(R)
  BY <1>2, <1>7, <1>8, FlattenWithin
<1> QED BY <1>1, <1>3, <1>9 DEF R

\* A rewarded signer with weights is paid its part of all weight at least.
LEMMA SigningGives ==
    ASSUME NEW To, NEW pol \in Seq(Voters), HasAddresses(To, Len(pol)),
           NEW offer, offer.claimBack \in To, offer.amount \in Nat,
           NEW round, NEW signatures, NEW first, first # Empty,
           NEW v \in DOMAIN pol, offer.claimBack[2] # v,
           v \in RewardedSigners(round, signatures, first),
           pol[v].signing > 0, pol[v].delegation > 0,
           NEW all, all = SumFunction([u \in DOMAIN pol |-> pol[u].signing])
    PROVE  PaidTo(SigningClaims(pol, offer, round, signatures, first, DOMAIN pol), v)
              >= (offer.amount * pol[v].signing) \div all
<1> DEFINE a == offer.amount
           n == Len(pol)
           S == RewardedSigners(round, signatures, first)
           ws == WeightsIn(pol, S)
           some == SumFunction(ws)
           given == Shares(ws, a)
           claims(u) == IF u \notin S THEN <<>>
                        ELSE IF u \in DOMAIN pol THEN SigningSplit(pol, u, offer, given[u])
                        ELSE ClaimBack(offer, given[u])
           ss == [u \in DOMAIN pol |-> claims(u)]
           R == Spared(To, v)
           f == [u \in DOMAIN pol |-> pol[u].signing]
           w == pol[v].signing
<1>1. SigningClaims(pol, offer, round, signatures, first, DOMAIN pol)
        = IF first = Empty THEN ClaimBack(offer, a)
          ELSE IF SumFunction(ws) = 0 THEN ClaimBack(offer, a) ELSE FlattenSeq(ss)
  BY DEF SigningClaims, WeightsIn
<1>2. ws \in Seq(Nat) /\ Len(ws) = n /\ DOMAIN pol = 1..n /\ n \in Nat /\ a \in Nat
  BY WeightsInAre
<1>3. v \in S /\ v \in 1..n /\ first # Empty
  BY <1>2
<1>4. ASSUME NEW u \in 1..n PROVE pol[u].signing \in Nat
  <2>1. pol[u] \in Voters
    BY <1>2
  <2> QED BY <2>1 DEF Voters
<1>5. ws[v] = w /\ \A u \in 1..n : ws[u] <= f[u]
  BY <1>2, <1>3, <1>4 DEF WeightsIn
<1>6. f \in Seq(Nat) /\ Len(f) = n /\ all = SumFunction(f)
  BY <1>2, <1>4
<1>7. w \in Nat /\ w > 0
  BY <1>2, <1>4
<1>71. <<>> \in Seq(R)
  OBVIOUS
<1> HIDE DEF S, ws, R, a, f, n, w
<1>8. some <= all /\ some \in Nat \ {0} /\ all \in Nat \ {0}
  <2>1. some <= all
    BY <1>2, <1>5, <1>6, SumsMonotone
  <2>2. some \in Nat /\ all \in Nat
    BY <1>2, <1>6, WeightsLeft
  <2>3. ws[v] <= some
    <3>1. DOMAIN ws = 1..n /\ \A u \in 1..n : ws[u] \in Nat
      BY <1>2
    <3> QED BY <1>2, <1>3, <3>1, WholeIsMore
  <2> HIDE DEF some
  <2> QED BY <1>5, <1>7, <2>1, <2>2, <2>3
<1>9. SharedOut(given, ws, a)
  <2>1. a \in Int
    BY <1>2
  <2> QED BY <1>2, <2>1, SharesGive
<1>10. given[v] >= (a * w) \div all
  <2>1. given[v] >= (ws[v] * a) \div some
    <3>1. v \in 1..Len(ws) /\ some > 0
      BY <1>2, <1>3, <1>8
    <3> QED BY <1>2, <3>1, SharesAreFair
  <2> HIDE DEF given, some
  <2>2. given[v] \in Int
    <3>1. given \in Seq(Int) /\ Len(given) = n
      BY <1>2, <1>9 DEF SharedOut
    <3> QED BY <1>3, <3>1
  <2>3. a * w \in Nat /\ ws[v] * a = a * w
    BY <1>2, <1>5, <1>7
  <2> DEFINE x == a * w
  <2>4. x \in Nat /\ given[v] >= x \div some
    BY <2>1, <2>3
  <2> HIDE DEF x
  <2>5. x \div all <= x \div some /\ x \div all \in Nat /\ x \div some \in Nat
    BY <1>8, <2>4, LargerDivisor, DivFloor
  <2>6. given[v] >= x \div all
    BY <2>2, <2>4, <2>5
  <2> QED BY <2>6 DEF x
<1> HIDE DEF given, some
<1>11. given \in Seq(Int) /\ Len(given) = n
  BY <1>2, <1>9 DEF SharedOut
<1>12. OnlyOwnGives(To, v, ss, given[v])
  <2>1. HasOwn(To, v) /\ given[v] \in Int
    BY <1>2, <1>3, <1>11 DEF HasAddresses, HasOwn, n
  <2>2. Gives(To, v, SigningSplit(pol, v, offer, given[v]), given[v])
    BY <2>1, SplitGives
  <2>3. v \in DOMAIN ss /\ ss[v] = SigningSplit(pol, v, offer, given[v])
    BY <1>3
  <2>4. ASSUME NEW u \in DOMAIN ss \ {v} PROVE ss[u] \in Seq(R)
    <3>1. u \in DOMAIN pol /\ u # v /\ given[u] \in Int /\ ss[u] = claims(u)
      BY <1>2, <1>11
    <3>2. CASE u \notin S
      <4>1. ss[u] = <<>>
        BY <3>1, <3>2
      <4> QED BY <1>71, <4>1
    <3>3. CASE u \in S
      <4>1. ss[u] = SigningSplit(pol, u, offer, given[u])
        BY <3>1, <3>3
      <4> QED BY <3>1, <4>1, SplitSpares DEF R
    <3> QED BY <3>2, <3>3
  <2>5. \A u \in DOMAIN ss \ {v} : ss[u] \in Seq(ClaimsTo(To)) /\ \A c \in ToSet(ss[u]) : c.to[2] # v
    <3> HIDE DEF ss
    <3> QED BY <2>4, SparedAre DEF R
  <2> QED BY <2>2, <2>3, <2>5 DEF OnlyOwnGives
<1>13. ss = [u \in 1..n |-> ss[u]] /\ given[v] \in Int
  BY <1>2, <1>3, <1>11
<1> HIDE DEF ss
<1>14. Gives(To, v, FlattenSeq(ss), given[v])
  BY <1>2, <1>12, <1>13, OwnGives
<1>15. PaidTo(FlattenSeq(ss), v) = given[v]
  BY <1>14, VoterPaid DEF Gives, PaidTo
<1>16. SigningClaims(pol, offer, round, signatures, first, DOMAIN pol) = FlattenSeq(ss)
  BY <1>1, <1>3, <1>8 DEF some
<1> QED BY <1>10, <1>15, <1>16 DEF a, w

-----------------------------------------------------------------------------
(* Who signed in time, and who signed twice *)

\* The rewarded window starts in the first voting epoch and does not end before it.
LEMMA WindowTimes ==
    /\ WindowStart(0) = EpochSeconds + RevealDeadline
    /\ EpochEnd(1) = 2 * EpochSeconds - 1
    /\ EpochEnd(1) <= WindowEnd(0) /\ WindowEnd(0) \in Int
    /\ EpochSeconds + RevealDeadline + SignatureGrace <= 2 * EpochSeconds
<1>1. /\ EpochSeconds \in Nat \ {0} /\ RewardedWindows \in Nat
      /\ RevealDeadline \in Nat /\ SignatureGrace \in Nat
      /\ RevealDeadline + SignatureGrace <= EpochSeconds
  BY ClockAssumption
<1>2. (0 + 1) * EpochSeconds = EpochSeconds /\ (1 + 1) * EpochSeconds = 2 * EpochSeconds
  BY <1>1
<1>3. WindowEnd(0) = (2 + RewardedWindows) * EpochSeconds - 1
  <2>1. (0 + 1 + RewardedWindows) + 1 = 2 + RewardedWindows
    BY <1>1
  <2> QED BY <2>1 DEF WindowEnd, EpochEnd
<1>4. (2 + RewardedWindows) * EpochSeconds = 2 * EpochSeconds + RewardedWindows * EpochSeconds
      /\ RewardedWindows * EpochSeconds \in Nat
  BY <1>1
<1> DEFINE more == RewardedWindows * EpochSeconds
           end == (2 + RewardedWindows) * EpochSeconds
<1>5. end = 2 * EpochSeconds + more /\ more \in Nat /\ WindowEnd(0) = end - 1
  BY <1>3, <1>4
<1> HIDE DEF more, end
<1> QED BY <1>1, <1>2, <1>5 DEF WindowStart, EpochEnd

\* A time in the first voting epoch, from the reveal deadline on.
LEMMA TimeInEpoch ==
    ASSUME NEW t \in Nat, t >= EpochSeconds + RevealDeadline, t < 2 * EpochSeconds
    PROVE  EpochOf(t) = 1 /\ RelativeTime(t) = t - EpochSeconds
<1> DEFINE E == EpochSeconds
           d == t - E
<1>1. E \in Nat \ {0} /\ RevealDeadline \in Nat
  BY ClockAssumption
<1>2. t = E + d /\ d \in Nat /\ d < E
  BY <1>1
<1> HIDE DEF d, E
<1>3. t \div E = 1
  BY <1>1, <1>2
<1>4. t % E = d
  BY <1>1, <1>2
<1> QED BY <1>3, <1>4 DEF EpochOf, RelativeTime, E, d

\* What the round is fixed by, and the transactions in the order of the chain.
Orderly == WellFormed(scenario) /\ sent \in Seq(ToSet(sent)) /\ Chronological(sent)

\* The signatures of a protocol that was finalized.
ExtractsWell(txs, protocol, data) ==
    txs \in Seq(ToSet(txs)) /\ Chronological(txs) /\ data = ProtocolData(txs, protocol)
    /\ data.first # Empty
    => /\ WellExtracted(data.signatures, txs, protocol, data.first)
       /\ DOMAIN data.signatures \subseteq {"consensus", "wrong"}

\* They are found, whatever was sent.
LEMMA AllExtracted == \A txs, protocol, data : ExtractsWell(txs, protocol, data)
<1> SUFFICES ASSUME NEW txs, NEW protocol, NEW data,
                    txs \in Seq(ToSet(txs)), Chronological(txs), data = ProtocolData(txs, protocol),
                    data.first # Empty
             PROVE  /\ WellExtracted(data.signatures, txs, protocol, data.first)
                    /\ DOMAIN data.signatures \subseteq {"consensus", "wrong"}
  BY DEF ExtractsWell
<1> QED BY SignaturesExtracted

\* A protocol that was finalized, and its data.
Finalized(protocol, data) ==
    Orderly /\ data = ProtocolData(sent, protocol) /\ data.first # Empty

\* Its signatures, as they are found.
FoundFor(protocol, data) ==
    Finalized(protocol, data) =>
        /\ WellExtracted(data.signatures, sent, protocol, data.first)
        /\ DOMAIN data.signatures \subseteq {"consensus", "wrong"}

\* They are found for every protocol.
LEMMA FoundAlways == \A protocol, data : FoundFor(protocol, data)
<1> SUFFICES ASSUME NEW protocol, NEW data, Finalized(protocol, data)
             PROVE  /\ WellExtracted(data.signatures, sent, protocol, data.first)
                    /\ DOMAIN data.signatures \subseteq {"consensus", "wrong"}
  BY DEF FoundFor
<1>1. /\ sent \in Seq(ToSet(sent)) /\ Chronological(sent)
      /\ data = ProtocolData(sent, protocol) /\ data.first # Empty
  BY DEF Orderly, Finalized
<1>2. ExtractsWell(sent, protocol, data)
  BY AllExtracted, Zenon
<1> QED BY <1>1, <1>2, Zenon DEF ExtractsWell

\* The signatures of one that signs only what is right are right.
LEMMA RightOnly ==
    ASSUME NEW protocol, NEW data, Finalized(protocol, data),
           NEW v, \A tx \in SignedBy(v, protocol) : SignsRight(tx, data.first),
           NEW key \in DOMAIN data.signatures, NEW s \in ToSet(data.signatures[key]), s.sender = v
    PROVE  key = "consensus" /\ s \in SignedBy(v, protocol)
<1>0. /\ WellExtracted(data.signatures, sent, protocol, data.first)
      /\ DOMAIN data.signatures \subseteq {"consensus", "wrong"}
  <2>1. FoundFor(protocol, data)
    BY FoundAlways, Zenon
  <2> QED BY <2>1 DEF FoundFor
<1>1. s \in ToSet(sent) /\ Counts(s, protocol) /\ key = KeyFor(s, data.first)
  BY <1>0 DEF WellExtracted
<1>2. s \in SignedBy(v, protocol)
  BY <1>1 DEF SignedBy, Counts
<1> QED BY <1>1, <1>2 DEF KeyFor

\* It is no double signer.
LEMMA RightSignsOnce ==
    ASSUME NEW protocol, NEW data, Finalized(protocol, data),
           NEW v, \A tx \in SignedBy(v, protocol) : SignsRight(tx, data.first)
    PROVE  v \notin DoubleSigners(0, data.signatures)
<1> SUFFICES ASSUME v \in DoubleSigners(0, data.signatures) PROVE FALSE
  OBVIOUS
<1>1. PICK g \in DOMAIN data.signatures, h \in DOMAIN data.signatures :
         /\ g # h
         /\ \E s \in ToSet(data.signatures[g]) : s.sender = v
         /\ \E s \in ToSet(data.signatures[h]) : s.sender = v
  BY DEF DoubleSigners
<1>2. g = "consensus" /\ h = "consensus"
  BY <1>1, RightOnly
<1> QED BY <1>1, <1>2

\* Who signs right in the grace period, and nothing else, is rewarded.
LEMMA GraceRewarded ==
    ASSUME NEW protocol, NEW data, Finalized(protocol, data),
           NEW v \in DOMAIN policy, \A tx \in SignedBy(v, protocol) : SignsRight(tx, data.first),
           NEW tx \in SignedBy(v, protocol),
           tx.time >= EpochSeconds + RevealDeadline,
           tx.time < EpochSeconds + RevealDeadline + SignatureGrace
    PROVE  v \in RewardedSigners(0, data.signatures, data.first)
<1>0. /\ WellExtracted(data.signatures, sent, protocol, data.first)
      /\ DOMAIN data.signatures \subseteq {"consensus", "wrong"}
  <2>1. FoundFor(protocol, data)
    BY FoundAlways, Zenon
  <2> QED BY <2>1 DEF FoundFor
<1>1. /\ tx \in ToSet(sent) /\ tx.kind = "sign" /\ tx.sender = v /\ tx.protocol = protocol
      /\ tx.round = 0
  BY DEF SignedBy
<1>2. \A x \in ToSet(sent) : x.time \in Nat
  BY DEF Finalized, Orderly, Chronological, ToSet
<1>3. EpochSeconds \in Nat /\ RevealDeadline \in Nat /\ SignatureGrace \in Nat
  BY ClockAssumption
<1>4. Counts(tx, protocol)
  <2>1. tx.time \in Nat
    BY <1>1, <1>2
  <2>2. tx.time >= WindowStart(0)
    BY WindowTimes
  <2>3. tx.time <= WindowEnd(0)
    <3>1. tx.time < 2 * EpochSeconds
      BY <1>3, <2>1, WindowTimes
    <3>2. tx.time <= EpochEnd(1)
      BY <1>3, <2>1, <3>1, WindowTimes
    <3>3. EpochEnd(1) \in Int /\ WindowEnd(0) \in Int /\ EpochEnd(1) <= WindowEnd(0)
      BY <1>3, WindowTimes
    <3> QED BY <2>1, <3>2, <3>3
  <2> QED BY <1>1, <2>2, <2>3 DEF Counts
<1>5. KeyFor(tx, data.first) = "consensus"
  BY DEF KeyFor
<1>6. PICK s \in ToSet(data.signatures["consensus"]) : s.sender = v /\ s.time <= tx.time
  <2>1. WellExtracted(data.signatures, sent, protocol, data.first)
    BY <1>0
  <2>2. \E s \in ToSet(data.signatures[KeyFor(tx, data.first)]) : s.sender = tx.sender /\ s.time <= tx.time
    BY <1>1, <1>4, <2>1 DEF WellExtracted
  <2> QED BY <1>1, <1>5, <2>2
<1>7. s \in ToSet(sent) /\ Counts(s, protocol)
  <2>1. "consensus" \in DOMAIN data.signatures
    BY <1>1, <1>4, <1>5, <1>0 DEF WellExtracted
  <2> QED BY <1>6, <2>1, <1>0 DEF WellExtracted
<1>8. SignedInGrace(0, s)
  <2>1. s.time \in Nat /\ tx.time \in Nat
    BY <1>1, <1>2, <1>7
  <2>2. s.time >= EpochSeconds + RevealDeadline
    BY <1>7, WindowTimes DEF Counts
  <2>3. s.time < EpochSeconds + RevealDeadline + SignatureGrace
    BY <1>3, <1>6, <2>1
  <2>4. s.time < 2 * EpochSeconds
    BY <1>3, <2>1, <2>3, WindowTimes
  <2>5. EpochOf(s.time) = 1 /\ RelativeTime(s.time) = s.time - EpochSeconds
    BY <2>1, <2>2, <2>4, TimeInEpoch
  <2>6. EpochOf(s.time) = 0 + 1
    BY <2>5
  <2>7. RelativeTime(s.time) >= RevealDeadline /\ RelativeTime(s.time) < RevealDeadline + SignatureGrace
    BY <1>3, <2>1, <2>2, <2>3, <2>5
  <2> QED BY <2>6, <2>7 DEF SignedInGrace
<1>9. v \notin DoubleSigners(0, data.signatures)
  BY RightSignsOnce
<1> QED BY <1>6, <1>8, <1>9 DEF RewardedSigners

\* Who signs right and wrong in the epoch is a double signer.
LEMMA SignsTwice ==
    ASSUME NEW protocol, NEW data, Finalized(protocol, data),
           NEW v \in DOMAIN policy, NEW tx \in SignedBy(v, protocol), NEW other \in SignedBy(v, protocol),
           tx.time >= EpochSeconds + RevealDeadline, tx.time <= EpochEnd(1),
           other.time >= EpochSeconds + RevealDeadline, other.time <= EpochEnd(1),
           SignsRight(tx, data.first), ~SignsRight(other, data.first)
    PROVE  v \in DoubleSigners(0, data.signatures)
<1>0. /\ WellExtracted(data.signatures, sent, protocol, data.first)
      /\ DOMAIN data.signatures \subseteq {"consensus", "wrong"}
  <2>1. FoundFor(protocol, data)
    BY FoundAlways, Zenon
  <2> QED BY <2>1 DEF FoundFor
<1>1. \A x \in ToSet(sent) : x.time \in Nat
  BY DEF Finalized, Orderly, Chronological, ToSet
<1>2. EpochSeconds \in Nat /\ RevealDeadline \in Nat
  BY ClockAssumption
<1>3. EpochEnd(1) \in Int /\ EpochEnd(1) = 2 * EpochSeconds - 1
      /\ WindowEnd(0) \in Int /\ EpochEnd(1) <= WindowEnd(0)
  BY <1>2, WindowTimes
<1>4. ASSUME NEW x \in SignedBy(v, protocol),
             x.time >= EpochSeconds + RevealDeadline, x.time <= EpochEnd(1)
      PROVE  /\ KeyFor(x, data.first) \in DOMAIN data.signatures
             /\ \E s \in ToSet(data.signatures[KeyFor(x, data.first)]) :
                   s.sender = v /\ EpochOf(s.time) = 0 + 1
  <2>1. /\ x \in ToSet(sent) /\ x.kind = "sign" /\ x.sender = v /\ x.protocol = protocol
        /\ x.round = 0 /\ x.time \in Nat
    BY <1>1 DEF SignedBy
  <2>2. Counts(x, protocol)
    <3>1. x.time <= WindowEnd(0)
      BY <1>3, <1>4, <2>1
    <3> QED BY <1>4, <2>1, <3>1, WindowTimes DEF Counts
  <2>3. KeyFor(x, data.first) \in DOMAIN data.signatures
    BY <2>1, <2>2, <1>0 DEF WellExtracted
  <2>4. PICK s \in ToSet(data.signatures[KeyFor(x, data.first)]) : s.sender = v /\ s.time <= x.time
    <3>1. WellExtracted(data.signatures, sent, protocol, data.first)
      BY <1>0
    <3> QED BY <2>1, <2>2, <3>1 DEF WellExtracted
  <2>5. s \in ToSet(sent) /\ Counts(s, protocol)
    BY <2>3, <2>4, <1>0 DEF WellExtracted
  <2>6. s.time \in Nat /\ s.time >= EpochSeconds + RevealDeadline
    BY <1>1, <2>5, WindowTimes DEF Counts
  <2>7. s.time < 2 * EpochSeconds
    BY <1>2, <1>3, <1>4, <2>1, <2>4, <2>6
  <2>8. EpochOf(s.time) = 1
    BY <2>6, <2>7, TimeInEpoch
  <2> QED BY <2>3, <2>4, <2>8
<1> DEFINE g == KeyFor(tx, data.first)
           h == KeyFor(other, data.first)
<1>5. g = "consensus" /\ h = "wrong"
  BY DEF KeyFor
<1>6. /\ g \in DOMAIN data.signatures
      /\ \E s \in ToSet(data.signatures[g]) : s.sender = v /\ EpochOf(s.time) = 0 + 1
  BY <1>4
<1>7. /\ h \in DOMAIN data.signatures
      /\ \E s \in ToSet(data.signatures[h]) : s.sender = v /\ EpochOf(s.time) = 0 + 1
  BY <1>4
<1> HIDE DEF g, h
<1> DEFINE signers(k) == {s.sender : s \in {s \in ToSet(data.signatures[k]) : EpochOf(s.time) = 0 + 1}}
           pairs == {k \in (DOMAIN data.signatures) \X (DOMAIN data.signatures) : k[1] # k[2]}
<1>8. v \in signers(g) \cap signers(h)
  BY <1>6, <1>7
<1>9. <<g, h>> \in pairs
  BY <1>5, <1>6, <1>7
<1>10. v \in UNION {signers(k[1]) \cap signers(k[2]) : k \in pairs}
  <2> HIDE DEF signers, pairs
  <2> QED BY <1>8, <1>9
<1> QED BY <1>10 DEF DoubleSigners

-----------------------------------------------------------------------------
(* The three of them *)

\* Addresses for the voters and the one that claims back the offer of the properties.
Addresses == Beneficiaries(scenario, sent) \cup {<<"owner", 0>>}

\* Its addresses are those of the voters, and the owner is none of them.
LEMMA AddressesAre ==
    ASSUME Orderly
    PROVE  /\ policy \in Seq(Voters) /\ HasAddresses(Addresses, Len(policy))
           /\ ShareOfOffer.claimBack \in Addresses /\ ShareOfOffer.amount \in Nat
           /\ \A v \in DOMAIN policy : ShareOfOffer.claimBack[2] # v
<1>1. WellFormed(scenario)
  BY DEF Orderly
<1>2. policy \in Seq(Voters) /\ HasAddresses(Beneficiaries(scenario, sent), Len(policy))
  BY <1>1, ScenarioHas
<1>3. HasAddresses(Addresses, Len(policy))
  BY <1>2 DEF HasAddresses, Addresses
<1>4. ShareOfOffer.claimBack = <<"owner", 0>> /\ ShareOfOffer.amount = 12 /\ <<"owner", 0>>[2] = 0
  BY DEF ShareOfOffer
<1>5. \A v \in DOMAIN policy : v # 0
  BY <1>2
<1> QED BY <1>2, <1>3, <1>4, <1>5 DEF Addresses

\* Who signs right in the grace period is paid its share at least.
LEMMA GracePaid == Orderly => GraceSignersPaid
<1> SUFFICES ASSUME Orderly PROVE GraceSignersPaid
  OBVIOUS
<1> DEFINE data == ProtocolData(sent, Ftso)
           claims == SigningClaims(policy, ShareOfOffer, 0, data.signatures, data.first, DOMAIN policy)
           all == SumFunction([v \in DOMAIN policy |-> policy[v].signing])
<1>1. ASSUME data.first # Empty, NEW v \in DOMAIN policy,
             policy[v].signing > 0, policy[v].delegation > 0,
             \A tx \in SignedBy(v, Ftso) : SignsRight(tx, data.first),
             NEW tx \in SignedBy(v, Ftso),
             tx.time >= EpochSeconds + RevealDeadline,
             tx.time < EpochSeconds + RevealDeadline + SignatureGrace
      PROVE  PaidTo(claims, v) >= (ShareOfOffer.amount * policy[v].signing) \div all
  <2>1. v \in RewardedSigners(0, data.signatures, data.first)
    <3>1. Finalized(Ftso, data)
      BY <1>1 DEF Finalized
    <3> HIDE DEF data
    <3> QED BY <1>1, <3>1, GraceRewarded
  <2>2. /\ policy \in Seq(Voters) /\ HasAddresses(Addresses, Len(policy))
        /\ ShareOfOffer.claimBack \in Addresses /\ ShareOfOffer.amount \in Nat
        /\ ShareOfOffer.claimBack[2] # v
    BY AddressesAre
  <2> HIDE DEF data, all
  <2>3. all = SumFunction([u \in DOMAIN policy |-> policy[u].signing])
    BY DEF all
  <2> QED BY <1>1, <2>1, <2>2, <2>3, SigningGives
<1> QED BY <1>1 DEF GraceSignersPaid, PaidTo

\* Who signs two things gets nothing for signing, and the penalty.
LEMMA DoubleLose == Orderly => DoubleSignersLose
<1> SUFFICES ASSUME Orderly PROVE DoubleSignersLose
  OBVIOUS
<1> DEFINE data == ProtocolData(sent, Ftso)
           signing == SigningClaims(policy, ShareOfOffer, 0, data.signatures, data.first, DOMAIN policy)
           penalties == PenaltyClaims(policy, ShareOfOffer, DoubleSigners(0, data.signatures))
           all == SumFunction([v \in DOMAIN policy |-> policy[v].delegation])
           inWindow(tx) == tx.time >= EpochSeconds + RevealDeadline /\ tx.time <= EpochEnd(1)
<1>1. ASSUME data.first # Empty, NEW v \in DOMAIN policy,
             NEW tx \in SignedBy(v, Ftso), NEW other \in SignedBy(v, Ftso),
             inWindow(tx), SignsRight(tx, data.first),
             inWindow(other), ~SignsRight(other, data.first)
      PROVE  /\ \A c \in ToSet(signing) : c.to[2] # v
             /\ policy[v].delegation > 0 =>
                   PaidTo(penalties, v) = -((policy[v].delegation * ShareOfOffer.amount * PenaltyFactor) \div all)
  <2>1. v \in DoubleSigners(0, data.signatures)
    <3>1. Finalized(Ftso, data)
      BY <1>1 DEF Finalized
    <3> HIDE DEF data
    <3> QED BY <1>1, <3>1, SignsTwice
  <2>2. /\ policy \in Seq(Voters) /\ HasAddresses(Addresses, Len(policy))
        /\ ShareOfOffer.claimBack \in Addresses /\ ShareOfOffer.amount \in Nat
        /\ ShareOfOffer.claimBack[2] # v
    BY AddressesAre
  <2>3. v \notin RewardedSigners(0, data.signatures, data.first)
    BY <2>1 DEF RewardedSigners
  <2> HIDE DEF data, all
  <2>4. signing \in Seq(Spared(Addresses, v))
    BY <2>2, <2>3, SigningSpares
  <2>5. \A c \in ToSet(signing) : c.to[2] # v
    <3> HIDE DEF signing
    <3> QED BY <2>4, SparedAre
  <2>6. ASSUME policy[v].delegation > 0
        PROVE  PaidTo(penalties, v) = -((policy[v].delegation * ShareOfOffer.amount * PenaltyFactor) \div all)
    <3>1. all = SumFunction([u \in DOMAIN policy |-> policy[u].delegation])
      BY DEF all
    <3> QED BY <2>1, <2>2, <2>6, <3>1, PenaltyGives
  <2> QED BY <2>5, <2>6
<1> QED BY <1>1 DEF DoubleSignersLose, PaidTo

-----------------------------------------------------------------------------
(* Only penalties take: all other claims of an offer are gifts *)

\* Gifts one by one, and together.
LEMMA GiftOne ==
    ASSUME NEW To, NEW to \in To, NEW type \in ClaimTypes, NEW x \in Int, x >= 0
    PROVE  <<Claim(to, type, x)>> \in Seq(GiftsTo(To))
<1> DEFINE c == Claim(to, type, x)
<1>1. c \in GiftsTo(To)
  BY DEF Claim, ClaimsTo, GiftsTo
<1> HIDE DEF c
<1>2. <<c>> \in Seq(GiftsTo(To))
  BY <1>1
<1> QED BY <1>2 DEF c

\* What goes back.
LEMMA BackGifts ==
    ASSUME NEW To, NEW offer, offer.claimBack \in To, NEW a \in Int, a >= 0
    PROVE  ClaimBack(offer, a) \in Seq(GiftsTo(To))
<1>1. "DIRECT" \in ClaimTypes
  BY DEF ClaimTypes
<1> QED BY <1>1, GiftOne DEF ClaimBack

\* The split of an amount.
LEMMA SplitGifts ==
    ASSUME NEW To, NEW pol \in Seq(Voters), HasAddresses(To, Len(pol)), NEW v \in DOMAIN pol,
           NEW offer, offer.claimBack \in To, NEW a \in Int, a >= 0
    PROVE  SigningSplit(pol, v, offer, a) \in Seq(GiftsTo(To))
<1> DEFINE split == SigningSplit(pol, v, offer, a)
<1>1. HasOwn(To, v)
  <2>1. v \in 1..Len(pol)
    OBVIOUS
  <2> QED BY <2>1 DEF HasOwn, HasAddresses
<1>2. SignedTo(To, a) \subseteq GiftsTo(To)
  BY DEF SignedTo, GiftsTo
<1>3. split \in Seq(SignedTo(To, a))
  BY <1>1, SplitSigns
<1> HIDE DEF split
<1>4. split \in Seq(GiftsTo(To))
  BY <1>2, <1>3
<1> QED BY <1>4 DEF split

\* A voter's fee and the rest for its delegators.
LEMMA FeeGifts ==
    ASSUME NEW To, NEW pol \in Seq(Voters), HasAddresses(To, Len(pol)), NEW v \in DOMAIN pol,
           NEW a \in Nat, NEW fee, fee = Quot(a * pol[v].fee, TotalBips)
    PROVE  <<Claim(<<"identity", v>>, "FEE", fee), Claim(<<"delegation", v>>, "WNAT", a - fee)>>
              \in Seq(GiftsTo(To))
<1> DEFINE f == pol[v].fee
           s == <<Claim(<<"identity", v>>, "FEE", fee)>>
           t == <<Claim(<<"delegation", v>>, "WNAT", a - fee)>>
<1>1. f \in 0..TotalBips /\ TotalBips \in Nat \ {0} /\ v \in 1..Len(pol)
  <2>1. pol[v] \in Voters /\ v \in 1..Len(pol)
    OBVIOUS
  <2> QED BY <2>1, SharesAssumption DEF Voters
<1>2. /\ <<"identity", v>> \in To /\ <<"delegation", v>> \in To
      /\ "FEE" \in ClaimTypes /\ "WNAT" \in ClaimTypes
  BY <1>1 DEF HasAddresses, ClaimTypes
<1>3. PortionFor(Quot(a * f, TotalBips), f, a, TotalBips)
  <2>1. f \in Nat /\ f <= TotalBips /\ a \in Int
    BY <1>1
  <2> HIDE DEF f
  <2> QED BY <1>1, <2>1, QuotOf
<1>4. fee \in Int /\ fee >= 0 /\ a - fee \in Int /\ a - fee >= 0
  <2>1. fee \in Int /\ fee >= 0 /\ fee <= a
    BY <1>3 DEF PortionFor
  <2> QED BY <2>1
<1>5. s \in Seq(GiftsTo(To)) /\ t \in Seq(GiftsTo(To))
  <2> DEFINE rest == a - fee
  <2>1. rest \in Int /\ rest >= 0
    BY <1>4
  <2> HIDE DEF rest
  <2>2. s \in Seq(GiftsTo(To))
    BY <1>2, <1>4, GiftOne
  <2>3. <<Claim(<<"delegation", v>>, "WNAT", rest)>> \in Seq(GiftsTo(To))
    BY <1>2, <2>1, GiftOne
  <2> QED BY <2>2, <2>3 DEF rest
<1>6. s \o t = <<Claim(<<"identity", v>>, "FEE", fee), Claim(<<"delegation", v>>, "WNAT", a - fee)>>
  BY TwoTogether, Zenon
<1> HIDE DEF s, t
<1>7. s \o t \in Seq(GiftsTo(To))
  BY <1>5
<1> QED BY <1>6, <1>7

\* What Shares gives of an offer.
LEMMA PartsGiven ==
    ASSUME NEW ws \in Seq(Nat), NEW a \in Nat
    PROVE  /\ Shares(ws, a) \in Seq(Int) /\ Len(Shares(ws, a)) = Len(ws)
           /\ Weigh(Same, Shares(ws, a)) <= a
           /\ \A i \in 1..Len(ws) : Shares(ws, a)[i] \in Nat
<1> DEFINE given == Shares(ws, a)
           n == Len(ws)
<1>1. n \in Nat /\ DOMAIN ws = 1..n /\ a \in Int /\ a >= 0
  OBVIOUS
<1>2. SharedOut(given, ws, a)
  BY <1>1, SharesGive
<1> HIDE DEF given
<1>3. /\ given \in Seq(Int) /\ Len(given) = n /\ Weigh(Same, given) <= a
      /\ \A i \in 1..n : given[i] >= 0
  BY <1>1, <1>2 DEF SharedOut
<1>4. \A i \in 1..n : given[i] \in Nat
  <2>1. DOMAIN given = 1..n
    BY <1>1, <1>3
  <2>2. \A i \in 1..n : given[i] \in Int
    BY <1>3, <2>1
  <2> QED BY <1>3, <2>2
<1> QED BY <1>3, <1>4 DEF given

\* The claims for the median.
LEMMA MedianGifts ==
    ASSUME NEW To, NEW pol \in Seq(Voters), HasAddresses(To, Len(pol)),
           NEW offer, offer.claimBack \in To, offer.amount \in Nat,
           offer.primaryShare \in 0..TotalPpm, NEW values, NEW result, NEW coin
    PROVE  MedianClaims(pol, offer, values, result, coin) \in Seq(GiftsTo(To))
<1> DEFINE ws == MedianWeights(pol, offer, values, result, coin)
           a == offer.amount
           given == Shares(ws, a)
           n == Len(pol)
           R == GiftsTo(To)
           ss == [v \in DOMAIN pol |-> MedianClaimsFor(pol, v, given[v])]
           some == \/ result.participating * TotalBips
                         < SumFunction([v \in DOMAIN pol |-> pol[v].delegation]) * offer.minTurnout
                   \/ result.median = Empty
<1>1. MedianClaims(pol, offer, values, result, coin)
        = IF some THEN ClaimBack(offer, a)
          ELSE IF SumFunction(ws) = 0 THEN ClaimBack(offer, a) ELSE FlattenSeq(ss)
  BY DEF MedianClaims
<1>2. ws \in Seq(Nat) /\ Len(ws) = n /\ DOMAIN pol = 1..n /\ n \in Nat
  BY MedianWeightsAre
<1>3. ClaimBack(offer, a) \in Seq(R)
  BY BackGifts
<1>31. a \in Nat
  OBVIOUS
<1> HIDE DEF a, ws, some
<1>4. \A v \in 1..n : given[v] \in Nat
  BY <1>2, <1>31, PartsGiven
<1> HIDE DEF given
<1>5. ASSUME NEW v \in 1..n PROVE ss[v] \in Seq(R)
  <2> DEFINE x == given[v]
             fee == Quot(x * pol[v].fee, TotalBips)
             two == <<Claim(<<"identity", v>>, "FEE", fee), Claim(<<"delegation", v>>, "WNAT", x - fee)>>
             indices == {i \in DOMAIN two : two[i].amount > 0}
  <2>1. v \in DOMAIN pol /\ x \in Nat
    BY <1>2, <1>4
  <2>2. ss[v] = MedianClaimsFor(pol, v, x)
    BY <2>1
  <2> HIDE DEF x
  <2>3. MedianClaimsFor(pol, v, x) = Picked(two, indices)
    BY DEF MedianClaimsFor, Select
  <2>4. two \in Seq(R)
    <3> HIDE DEF fee
    <3>1. fee = Quot(x * pol[v].fee, TotalBips)
      BY DEF fee
    <3> QED BY <2>1, <3>1, FeeGifts
  <2> HIDE DEF two, indices, R
  <2>5. Picked(two, indices) \in Seq(R)
    BY <2>4, PickedElements
  <2> QED BY <2>2, <2>3, <2>5
<1>6. ss = [v \in 1..n |-> ss[v]]
  BY <1>2
<1> HIDE DEF ss, R
<1>7. FlattenSeq(ss) \in Seq(R)
  BY <1>2, <1>5, <1>6, FlattenWithin
<1> QED BY <1>1, <1>3, <1>7 DEF R

\* The claims for signing.
LEMMA SigningGifts ==
    ASSUME NEW To, NEW pol \in Seq(Voters), HasAddresses(To, Len(pol)),
           NEW offer, offer.claimBack \in To, offer.amount \in Nat,
           NEW round, NEW signatures, NEW first, NEW eligible
    PROVE  SigningClaims(pol, offer, round, signatures, first, eligible) \in Seq(GiftsTo(To))
<1> DEFINE a == offer.amount
           n == Len(pol)
           S == RewardedSigners(round, signatures, first)
           ws == WeightsIn(pol, S)
           given == Shares(ws, a)
           claims(u) == IF u \notin S THEN <<>>
                        ELSE IF u \in eligible THEN SigningSplit(pol, u, offer, given[u])
                        ELSE ClaimBack(offer, given[u])
           ss == [u \in DOMAIN pol |-> claims(u)]
           R == GiftsTo(To)
<1>1. SigningClaims(pol, offer, round, signatures, first, eligible)
        = IF first = Empty THEN ClaimBack(offer, a)
          ELSE IF SumFunction(ws) = 0 THEN ClaimBack(offer, a) ELSE FlattenSeq(ss)
  BY DEF SigningClaims, WeightsIn
<1>2. ws \in Seq(Nat) /\ Len(ws) = n /\ DOMAIN pol = 1..n /\ n \in Nat /\ a \in Nat
  BY WeightsInAre
<1>3. ClaimBack(offer, a) \in Seq(R)
  BY <1>2, BackGifts
<1>41. <<>> \in Seq(R)
  OBVIOUS
<1> HIDE DEF S, ws, R, a
<1>4. \A v \in 1..n : given[v] \in Nat
  BY <1>2, PartsGiven
<1> HIDE DEF given
<1>7. ASSUME NEW u \in 1..n PROVE ss[u] \in Seq(R)
  <2>1. u \in DOMAIN pol /\ given[u] \in Int /\ given[u] >= 0 /\ ss[u] = claims(u)
    BY <1>2, <1>4
  <2>2. CASE u \notin S
    <3>1. ss[u] = <<>>
      BY <2>1, <2>2
    <3> QED BY <1>41, <3>1
  <2>3. CASE u \in S /\ u \in eligible
    <3>1. ss[u] = SigningSplit(pol, u, offer, given[u])
      BY <2>1, <2>3
    <3> QED BY <2>1, <3>1, SplitGifts DEF R
  <2>4. CASE u \in S /\ u \notin eligible
    <3>1. ss[u] = ClaimBack(offer, given[u])
      BY <2>1, <2>4
    <3> QED BY <2>1, <3>1, BackGifts DEF R
  <2> QED BY <2>2, <2>3, <2>4
<1>8. ss = [u \in 1..n |-> ss[u]]
  BY <1>2
<1> HIDE DEF ss
<1>9. FlattenSeq(ss) \in Seq(R)
  BY <1>2, <1>7, <1>8, FlattenWithin
<1> QED BY <1>1, <1>3, <1>9 DEF R

\* What the first of some parts leave of an amount.
LEMMA RestIs ==
    ASSUME NEW a \in Nat, NEW given \in Seq(Int), NEW n \in Nat, Len(given) = n,
           \A i \in 1..n : given[i] \in Nat, Weigh(Same, given) <= a,
           NEW m \in Nat, m <= n, NEW xs, xs = [i \in 1..m |-> given[i]]
    PROVE  SumFunction(xs) \in Int /\ a - SumFunction(xs) \in Int /\ a - SumFunction(xs) >= 0
<1>1. DOMAIN given = 1..n /\ \A i \in DOMAIN given : given[i] >= 0
  OBVIOUS
<1>2. /\ xs \in Seq(Int)
      /\ Weigh(Same, xs) \in Int
      /\ Weigh(Same, xs) <= Weigh(Same, given)
      /\ Weigh(Same, given) \in Int
  BY <1>1, FirstParts
<1>3. SumFunction(xs) = Weigh(Same, xs)
  BY <1>2, SumIsWeight
<1> QED BY <1>2, <1>3

\* The claims for finalizing.
LEMMA FinalizationGifts ==
    ASSUME NEW To, NEW pol \in Seq(Voters), HasAddresses(To, Len(pol)),
           NEW offer, offer.claimBack \in To, offer.amount \in Nat, NEW round, NEW first,
           first # Empty => <<"signing", first.sender>> \in To,
           NEW R, NEW fs \in Seq(R), SendersDistinct(fs),
           NEW finalizers \in SUBSET DOMAIN pol, NEW eligible
    PROVE  FinalizationClaims(pol, offer, round, first, fs, finalizers, eligible) \in Seq(GiftsTo(To))
<1> DEFINE a == offer.amount
           list == RewardedOf(fs, round, finalizers, eligible)
           given == GraceParts(finalizers, a)
           inGrace == InGraceOf(fs, round, finalizers)
           ss == SplitsOf(pol, offer, list, given)
           xs == [i \in DOMAIN list |-> given[i]]
           rest == a - SumFunction(xs)
           back == IF rest # 0 THEN ClaimBack(offer, rest) ELSE <<>>
           late == <<Claim(<<"signing", first.sender>>, "DIRECT", a)>>
           claims == FinalizationClaims(pol, offer, round, first, fs, finalizers, eligible)
           G == GiftsTo(To)
<1>1. claims = IF first = Empty THEN ClaimBack(offer, a)
               ELSE IF FinalizedOutsideGrace(round, first) THEN late
               ELSE IF inGrace = <<>> \/ eligible = {} THEN ClaimBack(offer, a)
               ELSE FlattenSeq(ss) \o back
  BY DEF FinalizationClaims, Select, InGraceOf, RewardedOf, GraceParts, SplitsOf
<1>2. IsFiniteSet(DOMAIN pol)
  <2> DEFINE n == Len(pol)
  <2>1. n \in Nat /\ DOMAIN pol = 1..n
    OBVIOUS
  <2> HIDE DEF n
  <2>2. IsFiniteSet(1..n)
    <3>1. n \in Int /\ 1 \in Int
      BY <2>1
    <3> QED BY <3>1, FS_Interval
  <2> QED BY <2>1, <2>2
<1>20. a \in Nat
  OBVIOUS
<1>21. ClaimBack(offer, a) \in Seq(G)
  <2>1. a \in Int /\ a >= 0
    BY <1>20
  <2> QED BY <2>1, BackGifts
<1>22. first # Empty => late \in Seq(G)
  <2>1. "DIRECT" \in ClaimTypes /\ a \in Int /\ a >= 0
    BY <1>20 DEF ClaimTypes
  <2> QED BY <2>1, GiftOne
<1> HIDE DEF a, late
<1>3. /\ list \in Seq(R) /\ Len(list) <= Len(given) /\ given \in Seq(Nat)
      /\ \A i \in DOMAIN list : list[i].sender \in finalizers
  BY <1>2, <1>20, RewardedFew
<1>4. CanSplit(To, pol, offer, list, given)
  BY <1>3 DEF CanSplit
<1>5. given \in Seq(Int) /\ Weigh(Same, given) <= a
  <2> DEFINE n == Cardinality(finalizers)
             ones == [i \in 1..n |-> 1]
  <2>1. n \in Nat
    <3>1. IsFiniteSet(finalizers)
      BY <1>2, FS_Subset
    <3> QED BY <3>1, FS_CardinalityType
  <2>2. given = Shares(ones, a)
    BY DEF GraceParts
  <2> HIDE DEF n, given
  <2>3. ones \in Seq(Nat)
    BY <2>1
  <2> HIDE DEF ones
  <2> QED BY <1>20, <2>2, <2>3, PartsGiven
<1> HIDE DEF inGrace, list, given
<1>6. rest \in Int /\ rest >= 0
  <2> DEFINE m == Len(list)
             n == Len(given)
  <2>1. m \in Nat /\ DOMAIN list = 1..m /\ n \in Nat /\ m <= n /\ \A i \in 1..n : given[i] \in Nat
    BY <1>3
  <2>2. xs = [i \in 1..m |-> given[i]]
    BY <2>1
  <2> HIDE DEF m, xs
  <2>3. Len(given) = n
    OBVIOUS
  <2> HIDE DEF n
  <2> QED BY <1>5, <1>20, <2>1, <2>2, <2>3, RestIs
<1> HIDE DEF rest
<1>7. back \in Seq(G)
  <2>1. <<>> \in Seq(G)
    OBVIOUS
  <2>2. ClaimBack(offer, rest) \in Seq(G)
    BY <1>6, BackGifts
  <2> HIDE DEF G
  <2> QED BY <2>1, <2>2
<1>8. ss \in Seq(Seq(G))
  BY <1>3, <1>4, SplitsGive
<1> HIDE DEF ss, back, claims, G
<1>9. FlattenSeq(ss) \in Seq(G)
  <2> DEFINE n == Len(ss)
  <2>1. n \in Nat /\ ss = [i \in 1..n |-> ss[i]] /\ \A i \in 1..n : ss[i] \in Seq(G)
    BY <1>8
  <2> HIDE DEF n
  <2> QED BY <2>1, FlattenWithin
<1>10. FlattenSeq(ss) \o back \in Seq(G)
  BY <1>7, <1>9
<1> QED BY <1>1, <1>21, <1>22, <1>10 DEF claims, G

\* The claims for fast updates.
LEMMA UpdatesGifts ==
    ASSUME NEW To, NEW pol \in Seq(Voters), HasAddresses(To, Len(pol)),
           NEW offer, offer.amount \in Nat, NEW median, NEW value,
           NEW submitted \in Seq(DOMAIN pol)
    PROVE  /\ FastUpdateClaims(pol, offer, median, value, submitted) \in Seq(GiftsTo(To))
           /\ <<Claim(BurnAddress, "DIRECT", offer.amount)>> \in Seq(GiftsTo(To))
<1> DEFINE a == offer.amount
           n == Len(submitted)
           part(i) == (a \div n) + (IF i <= a % n THEN 1 ELSE 0)
           fee(i) == Quot(part(i) * pol[submitted[i]].fee, TotalBips)
           burn == <<Claim(BurnAddress, "DIRECT", a)>>
           delta == Quot(median * offer.rewardBand, TotalPpm)
           G == GiftsTo(To)
           ss == [i \in 1..n |->
                    <<Claim(<<"identity", submitted[i]>>, "FEE", fee(i)),
                      Claim(<<"delegation", submitted[i]>>, "WNAT", part(i) - fee(i))>>]
<1>1. FastUpdateClaims(pol, offer, median, value, submitted)
        = IF offer.burn \/ n = 0 \/ median = Empty THEN burn
          ELSE IF value < median - delta \/ value > median + delta THEN burn ELSE FlattenSeq(ss)
  BY DEF FastUpdateClaims
<1>2. a \in Nat /\ n \in Nat
  OBVIOUS
<1>3. burn \in Seq(G)
  <2>1. BurnAddress \in To /\ "DIRECT" \in ClaimTypes /\ a \in Int /\ a >= 0
    BY DEF HasAddresses, ClaimTypes
  <2> QED BY <2>1, GiftOne
<1>4. CASE n # 0
  <2>1. \A i \in 1..n : Part(a, n, i) \in Nat
    <3>1. a \in Nat /\ n \in Nat \ {0}
      BY <1>2, <1>4
    <3> HIDE DEF a, n
    <3> QED BY <3>1, PartsAddUp
  <2>2. \A i \in 1..n : part(i) = Part(a, n, i)
    BY DEF Part
  <2> HIDE DEF part
  <2>3. ASSUME NEW i \in 1..n PROVE ss[i] \in Seq(G)
    <3> DEFINE v == submitted[i]
               x == part(i)
               f == fee(i)
    <3>1. v \in DOMAIN pol /\ x \in Nat
      BY <2>1, <2>2
    <3>2. f = Quot(x * pol[v].fee, TotalBips)
      OBVIOUS
    <3>3. ss[i] = <<Claim(<<"identity", v>>, "FEE", f), Claim(<<"delegation", v>>, "WNAT", x - f)>>
      OBVIOUS
    <3> HIDE DEF v, x, f, ss
    <3> QED BY <3>1, <3>2, <3>3, FeeGifts
  <2>4. ss = [i \in 1..n |-> ss[i]]
    OBVIOUS
  <2> HIDE DEF ss, G, n
  <2>5. FlattenSeq(ss) \in Seq(G)
    BY <1>2, <2>3, <2>4, FlattenWithin
  <2> HIDE DEF burn
  <2> QED BY <1>1, <1>3, <2>5 DEF G, burn
<1>5. CASE n = 0
  BY <1>1, <1>3, <1>5
<1> QED BY <1>3, <1>4, <1>5

\* The claims for signing for the FDC.
LEMMA FdcSigningGifts ==
    ASSUME NEW To, NEW pol \in Seq(Voters), HasAddresses(To, Len(pol)),
           NEW offer, offer.claimBack \in To, offer.amount \in Nat, NEW round, NEW signers,
           NEW first, NEW bitVote
    PROVE  FdcSigningClaims(pol, offer, round, signers, first, bitVote) \in Seq(GiftsTo(To))
<1> DEFINE a == offer.amount
           deadline == Min({first.time, EpochEnd(round + 1)})
           rewarded == {v \in DOMAIN signers : \/ SignedInGrace(round, signers[v])
                                               \/ SignedBefore(round, signers[v], deadline)}
           ids == [v \in DOMAIN pol |-> v]
           places == {i \in DOMAIN ids : ids[i] \in rewarded}
           order == Picked(ids, places)
           others == SumFunction([v \in DOMAIN pol |-> IF v \in rewarded THEN 0 ELSE pol[v].signing])
           ws == [i \in DOMAIN order |-> pol[order[i]].signing] \o <<others>>
           given == Shares(ws, a)
           burnt(i) == IF signers[order[i]].dominates THEN 0 ELSE BurntPart(given[i])
           claims(i) == (IF burnt(i) > 0 THEN ClaimBack(offer, burnt(i)) ELSE <<>>)
                        \o SigningSplit(pol, order[i], offer, given[i] - burnt(i))
           xs == [i \in DOMAIN order |-> given[i]]
           rest == a - SumFunction(xs)
           ss == [i \in DOMAIN order |-> claims(i)]
           back == IF rest > 0 THEN ClaimBack(offer, rest) ELSE <<>>
           G == GiftsTo(To)
<1>1. FdcSigningClaims(pol, offer, round, signers, first, bitVote)
        = IF first = Empty \/ bitVote = Empty \/ bitVote = {} THEN ClaimBack(offer, a)
          ELSE FlattenSeq(ss) \o back
  BY DEF FdcSigningClaims, Select
<1>2. /\ Len(pol) \in Nat /\ DOMAIN pol = 1..Len(pol)
      /\ \A v \in DOMAIN pol : pol[v].signing \in Nat
  <2>1. \A v \in DOMAIN pol : pol[v] \in Voters
    OBVIOUS
  <2> QED BY <2>1 DEF Voters
<1>3. order \in Seq(DOMAIN pol)
  <2>1. ids \in Seq(DOMAIN pol)
    BY <1>2
  <2> HIDE DEF places, ids
  <2> QED BY <2>1, PickedElements
<1>4. others \in Nat
  <2> DEFINE f == [v \in DOMAIN pol |-> IF v \in rewarded THEN 0 ELSE pol[v].signing]
             n == Len(pol)
  <2> HIDE DEF rewarded
  <2>1. DOMAIN f = 1..n /\ n \in Nat /\ \A v \in 1..n : f[v] \in Nat
    BY <1>2
  <2> HIDE DEF f, n
  <2>2. SumFunction(f) \in Nat
    BY <2>1, WholeIsMore
  <2> QED BY <2>2 DEF f
<1>5. a \in Nat /\ ClaimBack(offer, a) \in Seq(G) /\ <<>> \in Seq(G)
  <2>1. a \in Int /\ a >= 0 /\ <<>> \in Seq(G)
    OBVIOUS
  <2> QED BY <2>1, BackGifts
<1> HIDE DEF a, others, order, places, ids, rewarded
<1> DEFINE m == Len(order)
<1>6. /\ m \in Nat /\ DOMAIN order = 1..m /\ ws \in Seq(Nat) /\ Len(ws) = m + 1
      /\ \A i \in 1..m : order[i] \in DOMAIN pol
  <2>1. m \in Nat /\ DOMAIN order = 1..m /\ \A i \in 1..m : order[i] \in DOMAIN pol
    BY <1>3
  <2> DEFINE first_ == [i \in DOMAIN order |-> pol[order[i]].signing]
  <2>2. first_ \in Seq(Nat) /\ Len(first_) = m
    BY <1>2, <2>1
  <2>3. <<others>> \in Seq(Nat) /\ Len(<<others>>) = 1
    BY <1>4
  <2> HIDE DEF first_, m
  <2>4. first_ \o <<others>> \in Seq(Nat) /\ Len(first_ \o <<others>>) = m + 1
    BY <2>2, <2>3
  <2>5. ws \in Seq(Nat) /\ Len(ws) = m + 1
    BY <2>4 DEF first_
  <2> HIDE DEF ws
  <2> QED BY <2>1, <2>5
<1> HIDE DEF m, ws
<1>7. /\ given \in Seq(Int) /\ Len(given) = m + 1 /\ Weigh(Same, given) <= a
      /\ \A i \in 1..(m + 1) : given[i] \in Nat
  BY <1>5, <1>6, PartsGiven
<1> HIDE DEF given, G
<1>9. ASSUME NEW i \in 1..m PROVE ss[i] \in Seq(G)
  <2> DEFINE x == given[i]
             b == burnt(i)
             s == IF b > 0 THEN ClaimBack(offer, b) ELSE <<>>
             t == SigningSplit(pol, order[i], offer, x - b)
  <2>1. i \in DOMAIN order /\ order[i] \in DOMAIN pol /\ x \in Nat
    <3>1. i \in 1..(m + 1) /\ i \in DOMAIN order
      BY <1>6
    <3> QED BY <1>6, <1>7, <3>1
  <2>2. b \in Int /\ b >= 0 /\ b <= x
    <3> DEFINE z == BurntPart(x)
    <3>1. z \in Nat /\ z <= x
      <4> HIDE DEF x
      <4> QED BY <2>1, BurntPartIs
    <3>2. b = 0 \/ b = z
      OBVIOUS
    <3> HIDE DEF b, z, x
    <3> QED BY <2>1, <3>1, <3>2
  <2>3. ss[i] = s \o t
    BY <2>1
  <2> HIDE DEF b, x
  <2>4. s \in Seq(G)
    <3>1. ClaimBack(offer, b) \in Seq(G)
      BY <2>2, BackGifts DEF G
    <3> QED BY <1>5, <3>1
  <2>5. t \in Seq(G)
    <3> DEFINE y == x - b
    <3>1. y \in Int /\ y >= 0
      BY <2>1, <2>2
    <3> HIDE DEF y
    <3>2. SigningSplit(pol, order[i], offer, y) \in Seq(G)
      BY <2>1, <3>1, SplitGifts DEF G
    <3> QED BY <3>2 DEF y
  <2> HIDE DEF s, t
  <2>6. s \o t \in Seq(G)
    BY <2>4, <2>5
  <2> QED BY <2>3, <2>6
<1>10. xs = [i \in 1..m |-> given[i]] /\ ss = [i \in 1..m |-> ss[i]]
  <2>1. m \in Nat /\ DOMAIN order = 1..m
    BY <1>6
  <2> HIDE DEF claims
  <2> QED BY <2>1
<1> HIDE DEF ss, xs
<1>11. rest \in Int /\ rest >= 0
  <2> DEFINE n == m + 1
  <2>1. n \in Nat /\ m <= n /\ Len(given) = n
    BY <1>6, <1>7
  <2>2. \A i \in 1..n : given[i] \in Nat
    BY <1>7
  <2> HIDE DEF n
  <2> QED BY <1>5, <1>6, <1>7, <1>10, <2>1, <2>2, RestIs
<1> HIDE DEF rest
<1>12. back \in Seq(G)
  <2>1. ClaimBack(offer, rest) \in Seq(G)
    BY <1>11, BackGifts DEF G
  <2> QED BY <1>5, <2>1
<1>13. FlattenSeq(ss) \in Seq(G)
  BY <1>6, <1>9, <1>10, FlattenWithin
<1> HIDE DEF back
<1>14. FlattenSeq(ss) \o back \in Seq(G)
  BY <1>12, <1>13
<1> QED BY <1>1, <1>5, <1>14 DEF G

\* Claims that take nothing from a voter.
Sparing(To, v) == {c \in ClaimsTo(To) : c.amount >= 0 \/ c.to[2] # v}

\* Gifts do not, nor do the claims of others.
LEMMA TheseSpare ==
    ASSUME NEW To, NEW v, NEW claims, claims \in Seq(GiftsTo(To)) \/ claims \in Seq(Spared(To, v))
    PROVE  claims \in Seq(Sparing(To, v))
<1>1. GiftsTo(To) \subseteq Sparing(To, v) /\ Spared(To, v) \subseteq Sparing(To, v)
  BY DEF GiftsTo, Spared, Sparing
<1>2. \A i \in 1..Len(claims) : claims[i] \in Sparing(To, v)
  BY <1>1
<1>3. claims = [i \in 1..Len(claims) |-> claims[i]] /\ Len(claims) \in Nat
  OBVIOUS
<1> QED BY <1>2, <1>3

\* The claims of an FTSO offer spare who did not offend.
LEMMA FtsoOfferSpares ==
    ASSUME NEW To, policy \in Seq(Voters), HasAddresses(To, Len(policy)),
           scenario.finalizers \in SUBSET DOMAIN policy,
           NEW offer, {"amount", "claimBack"} \subseteq DOMAIN offer, offer.amount \in Nat,
           offer.claimBack \in To, "primaryShare" \in DOMAIN offer, offer.primaryShare \in 0..TotalPpm,
           NEW data, FinalizedBy(To, data),
           NEW v, offer.claimBack[2] # v, v \notin scenario.revealOffenders,
           v \notin DoubleSigners(0, data.signatures)
    PROVE  FtsoOfferClaims(offer, data) \in Seq(Sparing(To, v))
<1> DEFINE split == SplitOffer(offer)
           values == RevealedValues
           result == RoundMedian
           coin == scenario.coin
           A == MedianClaims(policy, split.median, values, result, coin)
           eligible == MedianEligible(A)
           B == SigningClaims(policy, split.signing, 0, data.signatures, data.first, eligible)
           C == FinalizationClaims(policy, split.finalization, 0, data.first, data.finalizations,
                                   scenario.finalizers, eligible)
           D == PenaltyClaims(policy, offer, scenario.revealOffenders)
           E == PenaltyClaims(policy, offer, DoubleSigners(0, data.signatures))
           S == Sparing(To, v)
<1>1. FtsoOfferClaims(offer, data) = IF offer.burn THEN ClaimBack(offer, offer.amount)
                                     ELSE A \o B \o C \o D \o E
  BY DEF FtsoOfferClaims
<1>2. split.signing.amount \in Nat /\ split.finalization.amount \in Nat /\ split.median.amount \in Nat
  <2> DEFINE fdcSplit == SplitFdcOffer(offer)
  <2>1. split = SplitOffer(offer) /\ fdcSplit = SplitFdcOffer(offer)
    OBVIOUS
  <2> HIDE DEF split, fdcSplit
  <2> QED BY <2>1, SplitsAddUp
<1>3. /\ split.signing.claimBack \in To /\ split.finalization.claimBack \in To
      /\ split.median.claimBack \in To /\ split.median.primaryShare \in 0..TotalPpm
  <2>1. /\ split.signing.claimBack = offer.claimBack /\ split.finalization.claimBack = offer.claimBack
        /\ split.median.claimBack = offer.claimBack
    BY DEF SplitOffer
  <2>2. split.median.primaryShare = offer.primaryShare
    BY DEF SplitOffer
  <2> HIDE DEF split
  <2> QED BY <2>1, <2>2
<1> HIDE DEF split, values, result, coin
<1>4. A \in Seq(S)
  <2>1. A \in Seq(GiftsTo(To))
    BY <1>2, <1>3, MedianGifts
  <2> HIDE DEF A, S
  <2> QED BY <2>1, TheseSpare DEF S
<1> HIDE DEF A, eligible
<1>5. B \in Seq(S)
  <2>1. B \in Seq(GiftsTo(To))
    BY <1>2, <1>3, SigningGifts
  <2> HIDE DEF B, S
  <2> QED BY <2>1, TheseSpare DEF S
<1>6. C \in Seq(S)
  <2>1. PICK R : data.finalizations \in Seq(R)
    BY DEF FinalizedBy
  <2>2. /\ data.first # Empty => <<"signing", data.first.sender>> \in To
        /\ SendersDistinct(data.finalizations)
    BY DEF FinalizedBy
  <2>3. C \in Seq(GiftsTo(To))
    BY <1>2, <1>3, <2>1, <2>2, FinalizationGifts
  <2> HIDE DEF C, S
  <2> QED BY <2>3, TheseSpare DEF S
<1>7. D \in Seq(S) /\ E \in Seq(S)
  <2>1. D \in Seq(Spared(To, v)) /\ E \in Seq(Spared(To, v))
    BY PenaltiesSpare
  <2> HIDE DEF D, E, S
  <2> QED BY <2>1, TheseSpare DEF S
<1>8. ClaimBack(offer, offer.amount) \in Seq(S)
  <2>1. offer.amount \in Int /\ offer.amount >= 0
    OBVIOUS
  <2>2. ClaimBack(offer, offer.amount) \in Seq(GiftsTo(To))
    BY <2>1, BackGifts
  <2> HIDE DEF S
  <2> QED BY <2>2, TheseSpare DEF S
<1> HIDE DEF B, C, D, E, S
<1>9. A \o B \o C \o D \o E \in Seq(S)
  <2>1. A \o B \in Seq(S)
    BY <1>4, <1>5
  <2>2. A \o B \o C \in Seq(S)
    BY <1>6, <2>1
  <2>3. A \o B \o C \o D \in Seq(S)
    BY <1>7, <2>2
  <2> QED BY <1>7, <2>3
<1> QED BY <1>1, <1>8, <1>9 DEF S

\* The claims of a fast update offer spare everybody.
LEMMA UpdateOfferSpares ==
    ASSUME NEW To, policy \in Seq(Voters), HasAddresses(To, Len(policy)),
           scenario.updates # Empty => scenario.updates.submitted \in Seq(DOMAIN policy),
           NEW offer, offer.amount \in Nat, NEW v
    PROVE  FastUpdateOfferClaims(offer) \in Seq(Sparing(To, v))
<1> DEFINE median == RoundMedian.median
           value == scenario.updates.value
           submitted == scenario.updates.submitted
           claims == FastUpdateOfferClaims(offer)
<1>1. claims
        = IF scenario.updates = Empty THEN <<Claim(BurnAddress, "DIRECT", offer.amount)>>
          ELSE FastUpdateClaims(policy, offer, median, value, submitted)
  BY DEF FastUpdateOfferClaims
<1> HIDE DEF median, value
<1>2. CASE scenario.updates = Empty
  <2>1. <<>> \in Seq(DOMAIN policy)
    OBVIOUS
  <2>2. <<Claim(BurnAddress, "DIRECT", offer.amount)>> \in Seq(GiftsTo(To))
    BY <2>1, UpdatesGifts
  <2>3. claims \in Seq(GiftsTo(To))
    BY <1>1, <1>2, <2>2
  <2> HIDE DEF claims
  <2>4. claims \in Seq(Sparing(To, v))
    BY <2>3, TheseSpare
  <2> QED BY <2>4 DEF claims
<1>3. CASE scenario.updates # Empty
  <2>1. submitted \in Seq(DOMAIN policy)
    BY <1>3
  <2> HIDE DEF submitted
  <2>2. FastUpdateClaims(policy, offer, median, value, submitted) \in Seq(GiftsTo(To))
    BY <2>1, UpdatesGifts
  <2>3. claims \in Seq(GiftsTo(To))
    BY <1>1, <1>3, <2>2
  <2> HIDE DEF claims
  <2>4. claims \in Seq(Sparing(To, v))
    BY <2>3, TheseSpare
  <2> QED BY <2>4 DEF claims
<1> QED BY <1>2, <1>3

\* The claims of an FDC offer spare who did not offend.
LEMMA FdcOfferSpares ==
    ASSUME NEW To, policy \in Seq(Voters), HasAddresses(To, Len(policy)),
           scenario.finalizers \in SUBSET DOMAIN policy,
           NEW fdcOffer, {"amount", "claimBack"} \subseteq DOMAIN fdcOffer, fdcOffer.amount \in Nat,
           NEW data, FinalizedBy(To, data), NEW fdc,
           NEW v, BurnAddress[2] # v, v \notin FdcOffenders(fdc)
    PROVE  FdcOfferClaims(fdcOffer, data, fdc) \in Seq(Sparing(To, v))
<1> DEFINE offer == [fdcOffer EXCEPT !.claimBack = BurnAddress]
           split == SplitFdcOffer(offer)
           C == FinalizationClaims(policy, split.finalization, 0, data.first, data.finalizations,
                                   scenario.finalizers, scenario.finalizers)
           B == FdcSigningClaims(policy, split.signing, 0, fdc.signers, data.first, fdc.consensus)
           D == FdcPenaltyClaims(policy, offer, FdcOffenders(fdc))
           S == Sparing(To, v)
<1>1. FdcOfferClaims(fdcOffer, data, fdc) = IF offer.burn THEN ClaimBack(offer, offer.amount)
                                            ELSE C \o B \o D
  BY DEF FdcOfferClaims
<1>2. /\ offer.amount = fdcOffer.amount /\ offer.claimBack = BurnAddress
      /\ {"amount", "claimBack"} \subseteq DOMAIN offer
      /\ BurnAddress \in To
  BY DEF HasAddresses
<1> HIDE DEF offer
<1>3. split.signing.amount \in Nat /\ split.finalization.amount \in Nat
  <2> DEFINE ftsoSplit == SplitOffer(offer)
  <2>1. split = SplitFdcOffer(offer) /\ ftsoSplit = SplitOffer(offer)
    OBVIOUS
  <2> HIDE DEF split, ftsoSplit
  <2> QED BY <1>2, <2>1, SplitsAddUp
<1>4. split.signing.claimBack \in To /\ split.finalization.claimBack \in To
  <2>1. split.signing.claimBack = offer.claimBack /\ split.finalization.claimBack = offer.claimBack
    BY <1>2 DEF SplitFdcOffer
  <2> HIDE DEF split
  <2> QED BY <1>2, <2>1
<1> HIDE DEF split
<1>5. B \in Seq(S)
  <2> DEFINE signers == fdc.signers
             bitVote == fdc.consensus
             first == data.first
             claims == FdcSigningClaims(policy, split.signing, 0, signers, first, bitVote)
  <2> HIDE DEF signers, bitVote, first
  <2>1. claims \in Seq(GiftsTo(To))
    BY <1>3, <1>4, FdcSigningGifts
  <2> HIDE DEF claims, S
  <2>2. claims \in Seq(S)
    BY <2>1, TheseSpare DEF S
  <2> QED BY <2>2 DEF claims, signers, bitVote, first
<1>6. C \in Seq(S)
  <2>1. PICK R : data.finalizations \in Seq(R)
    BY DEF FinalizedBy
  <2>2. /\ data.first # Empty => <<"signing", data.first.sender>> \in To
        /\ SendersDistinct(data.finalizations)
    BY DEF FinalizedBy
  <2>3. C \in Seq(GiftsTo(To))
    BY <1>3, <1>4, <2>1, <2>2, FinalizationGifts
  <2> HIDE DEF C, S
  <2> QED BY <2>3, TheseSpare DEF S
<1>7. D \in Seq(S)
  <2>1. D \in Seq(Spared(To, v))
    BY <1>2, PenaltiesSpare
  <2> HIDE DEF D, S
  <2> QED BY <2>1, TheseSpare DEF S
<1>8. ClaimBack(offer, offer.amount) \in Seq(S)
  <2>1. offer.amount \in Int /\ offer.amount >= 0 /\ offer.claimBack \in To
    BY <1>2
  <2>2. ClaimBack(offer, offer.amount) \in Seq(GiftsTo(To))
    BY <2>1, BackGifts
  <2> HIDE DEF S
  <2> QED BY <2>2, TheseSpare DEF S
<1> HIDE DEF B, C, D, S
<1>9. C \o B \o D \in Seq(S)
  <2>1. C \o B \in Seq(S)
    BY <1>5, <1>6
  <2> QED BY <1>7, <2>1
<1> QED BY <1>1, <1>8, <1>9 DEF S

\* Merging spares whom the claims spare.
LEMMA MergeSpares ==
    ASSUME NEW To, NEW v, NEW list \in Seq(Sparing(To, v))
    PROVE  Merge(list) \in Seq(Sparing(To, v))
<1> DEFINE merged == Merge(list)
<1>1. list \in Seq(ClaimsTo(To))
  <2>1. Sparing(To, v) \subseteq ClaimsTo(To)
    BY DEF Sparing
  <2> HIDE DEF merged
  <2> QED BY <2>1
<1>2. merged \in Seq(ClaimsTo(To)) /\ KeysOf(merged) = KeysOf(list)
  BY <1>1, MergeKeeps DEF MergedTo
<1> HIDE DEF merged
<1>3. ASSUME NEW i \in 1..Len(merged) PROVE merged[i] \in Sparing(To, v)
  <2>1. merged[i] \in ClaimsTo(To) /\ i \in DOMAIN merged
    BY <1>2
  <2>2. PICK j \in DOMAIN list : Key(list[j]) = Key(merged[i])
    <3>1. Key(merged[i]) \in KeysOf(list)
      BY <1>2, <2>1 DEF KeysOf
    <3> QED BY <3>1 DEF KeysOf
  <2> DEFINE c == merged[i]
             d == list[j]
  <2>3. d \in Sparing(To, v)
    OBVIOUS
  <2>4. c \in ClaimsTo(To) /\ d \in ClaimsTo(To) /\ Key(d) = Key(c)
    BY <2>1, <2>2, <2>3 DEF Sparing
  <2> HIDE DEF c, d
  <2>5. c.to = d.to /\ (c.amount < 0 <=> d.amount < 0) /\ c.amount \in Int /\ d.amount \in Int
    BY <2>4, KeyOfClaim
  <2>6. c.amount >= 0 \/ c.to[2] # v
    BY <2>3, <2>5 DEF Sparing
  <2> QED BY <2>4, <2>6 DEF Sparing, c
<1>4. merged = [i \in 1..Len(merged) |-> merged[i]] /\ Len(merged) \in Nat
  BY <1>2
<1>5. merged \in Seq(Sparing(To, v))
  BY <1>3, <1>4
<1> QED BY <1>5 DEF merged

\* So does adding the claims of pieces.
LEMMA AddedSpares ==
    ASSUME NEW To, NEW v, NEW ps, ps \in Seq(ToSet(ps)),
           \A i \in DOMAIN ps : ps[i].claims \in Seq(Sparing(To, v))
    PROVE  AddPieces(ps) \in Seq(Sparing(To, v))
<1> DEFINE n == Len(ps)
           S == Sparing(To, v)
<1>1. n \in Nat /\ DOMAIN ps = 1..n
  OBVIOUS
<1>2. \A i \in DOMAIN ps : ps[i].claims \in Seq(ClaimsTo(To))
  <2>1. S \subseteq ClaimsTo(To)
    BY DEF Sparing
  <2>2. \A i \in DOMAIN ps : ps[i].claims \in Seq(S)
    OBVIOUS
  <2> HIDE DEF S
  <2> QED BY <2>1, <2>2
<1>3. PICK w : AddSteps(w, ps) /\ AddPieces(ps) = w[n]
  BY <1>2, AddInSteps
<1> HIDE DEF S
<1> DEFINE T == {k \in 0..n : w[k] \in Seq(S)}
<1>4. 0 \in T
  <2>1. w[0] = <<>> /\ 0 \in 0..n
    BY <1>1, <1>3 DEF AddSteps
  <2>2. <<>> \in Seq(S)
    OBVIOUS
  <2> QED BY <2>1, <2>2
<1>5. ASSUME NEW k \in 1..n, k - 1 \in T PROVE k \in T
  <2> DEFINE all == w[k - 1]
             claims == ps[k].claims
             new == all \o claims
  <2>1. w[k] = AddClaims(all, claims, ps[k].merge)
    BY <1>3 DEF AddSteps
  <2>2. all \in Seq(S) /\ claims \in Seq(S) /\ k \in 0..n
    BY <1>1, <1>5 DEF S
  <2> HIDE DEF all, claims
  <2>3. new \in Seq(S)
    BY <2>2
  <2> HIDE DEF new
  <2>4. Merge(new) \in Seq(S)
    BY <2>3, MergeSpares DEF S
  <2>5. w[k] = Merge(new) \/ w[k] = new
    BY <2>1 DEF AddClaims, new
  <2> QED BY <2>2, <2>3, <2>4, <2>5
<1>6. n \in T
  <2> HIDE DEF T, n
  <2>1. \A k \in 0..n : k \in T
    BY <1>1, <1>4, <1>5, StepByStep
  <2> QED BY <1>1, <2>1
<1> QED BY <1>3, <1>6 DEF S

\* Pieces whose claims spare a voter.
PiecesSpare(To, v, ps) ==
    ps \in Seq(ToSet(ps)) /\ \A i \in DOMAIN ps : ps[i].claims \in Seq(Sparing(To, v))

\* They do together.
LEMMA SparingConcat ==
    ASSUME NEW To, NEW v, NEW ps, PiecesSpare(To, v, ps), NEW qs, PiecesSpare(To, v, qs)
    PROVE  PiecesSpare(To, v, ps \o qs)
<1> DEFINE m == Len(ps)
           n == Len(qs)
           pq == ps \o qs
           S == Seq(Sparing(To, v))
<1>1. /\ m \in Nat /\ DOMAIN ps = 1..m /\ n \in Nat /\ DOMAIN qs = 1..n
      /\ ps \in Seq(ToSet(ps)) /\ qs \in Seq(ToSet(qs))
  BY DEF PiecesSpare
<1>2. /\ \A i \in 1..m : ps[i].claims \in S
      /\ \A i \in 1..n : qs[i].claims \in S
  BY <1>1 DEF PiecesSpare
<1>3. /\ DOMAIN pq = 1..(m + n)
      /\ \A i \in 1..m : pq[i] = ps[i]
      /\ \A i \in (m + 1)..(m + n) : pq[i] = qs[i - m] /\ i - m \in 1..n
      /\ pq \in Seq(ToSet(pq))
  <2> DEFINE R == ToSet(ps) \cup ToSet(qs)
  <2>1. ps \in Seq(R) /\ qs \in Seq(R)
    BY <1>1
  <2> HIDE DEF R, m, n
  <2>2. /\ ps \o qs \in Seq(R) /\ Len(ps \o qs) = m + n /\ DOMAIN (ps \o qs) = 1..(m + n)
        /\ \A i \in 1..m : (ps \o qs)[i] = ps[i]
        /\ \A i \in (m + 1)..(m + n) : (ps \o qs)[i] = qs[i - m] /\ i - m \in 1..n
    BY <2>1, ConcatPlaces DEF m, n
  <2> HIDE DEF pq
  <2>3. pq \in Seq(R)
    BY <2>2 DEF pq
  <2>4. pq \in Seq(ToSet(pq))
    BY <2>3, OwnList
  <2> QED BY <2>2, <2>4 DEF pq
<1> HIDE DEF pq, m, n, S
<1>4. ASSUME NEW i \in DOMAIN pq PROVE pq[i].claims \in S
  <2>1. CASE i \in 1..m
    BY <1>2, <1>3, <2>1
  <2>2. CASE i \notin 1..m
    <3>1. i \in (m + 1)..(m + n)
      BY <1>1, <1>3, <2>2
    <3> QED BY <1>2, <1>3, <3>1
  <2> QED BY <2>1, <2>2
<1> QED BY <1>3, <1>4 DEF PiecesSpare, pq, S

\* The pieces of offers, when the claims of every offer spare the voter.
LEMMA OffersSpare ==
    ASSUME NEW To, NEW v, NEW offers, offers \in Seq(ToSet(offers)),
           NEW ps, ps = [i \in DOMAIN offers |-> ps[i]],
           \A i \in DOMAIN offers : ps[i].claims \in Seq(Sparing(To, v))
    PROVE  PiecesSpare(To, v, ps)
<1> DEFINE n == Len(offers)
<1>1. n \in Nat /\ DOMAIN offers = 1..n
  OBVIOUS
<1> HIDE DEF n
<1>2. DOMAIN ps = 1..n /\ ps = [i \in 1..n |-> ps[i]] /\ \A i \in 1..n : ps[i] \in ToSet(ps)
  BY <1>1 DEF ToSet
<1> DEFINE R == ToSet(ps)
<1> HIDE DEF R
<1>3. \A i \in 1..n : ps[i] \in R
  BY <1>2 DEF R
<1>4. ps \in Seq(R)
  BY <1>1, <1>2, <1>3
<1> QED BY <1>1, <1>2, <1>4 DEF PiecesSpare, R

\* What the chain and the configuration guarantee of who claims back.
LEMMA BackIsNoVoter ==
    ASSUME WellFormed(scenario), NEW v \in DOMAIN policy
    PROVE  /\ BurnAddress[2] # v
           /\ \A o \in ToSet(scenario.ftsoOffers) : o.claimBack[2] # v
BY DEF WellFormed, policy

\* The claims of a round spare who did not offend.
LEMMA RoundSpares ==
    ASSUME WellFormed(scenario), NEW txs, txs \in Seq(ToSet(txs)),
           NEW To, To = Beneficiaries(scenario, txs),
           NEW v \in DOMAIN policy, v \notin scenario.revealOffenders,
           v \notin DoubleSigners(0, ProtocolData(txs, Ftso).signatures),
           v \notin FdcOffenders(FdcData(txs))
    PROVE  RoundClaims(txs) \in Seq(Sparing(To, v))
<1> DEFINE ftso == ProtocolData(txs, Ftso)
           data == ProtocolData(txs, Fdc)
           fdc == FdcData(txs)
           F == FtsoPieces(ftso)
           U == FastUpdatePieces
           D == FdcPieces(data, fdc)
<1>1. RoundClaims(txs) = AddPieces(F \o U \o D)
  BY DEF RoundClaims, AddPieces
<1>2. FinalizedBy(To, ftso) /\ FinalizedBy(To, data)
  BY DataFinalized
<1>3. /\ policy \in Seq(Voters) /\ HasAddresses(To, Len(policy)) /\ BurnAddress \in To
      /\ scenario.finalizers \in SUBSET DOMAIN policy
      /\ scenario.updates # Empty => scenario.updates.submitted \in Seq(DOMAIN policy)
  BY ScenarioHas
<1>4. /\ \A o \in ToSet(scenario.ftsoOffers) : "primaryShare" \in DOMAIN o /\ o.primaryShare \in 0..TotalPpm
      /\ \A offers \in {scenario.ftsoOffers, scenario.updateOffers, scenario.fdcOffers} :
            /\ offers \in Seq(ToSet(offers))
            /\ \A o \in ToSet(offers) : /\ {"amount", "claimBack"} \subseteq DOMAIN o
                                        /\ o.amount \in Nat /\ o.claimBack \in To
  BY ScenarioHas
<1>5. BurnAddress[2] # v /\ \A o \in ToSet(scenario.ftsoOffers) : o.claimBack[2] # v
  BY BackIsNoVoter
<1>6. v \notin DoubleSigners(0, ftso.signatures) /\ v \notin FdcOffenders(fdc)
  OBVIOUS
<1> HIDE DEF ftso, data, fdc
<1>7. PiecesSpare(To, v, F)
  <2> DEFINE offers == scenario.ftsoOffers
  <2>1. /\ offers \in Seq(ToSet(offers))
        /\ \A o \in ToSet(offers) : /\ {"amount", "claimBack"} \subseteq DOMAIN o
                                    /\ o.amount \in Nat /\ o.claimBack \in To /\ o.claimBack[2] # v
                                    /\ "primaryShare" \in DOMAIN o /\ o.primaryShare \in 0..TotalPpm
    BY <1>4, <1>5
  <2>2. F = [i \in DOMAIN offers |-> F[i]] /\ \A i \in DOMAIN offers : F[i].claims = FtsoOfferClaims(offers[i], ftso)
    BY DEF FtsoPieces
  <2> HIDE DEF offers, F
  <2>3. ASSUME NEW i \in DOMAIN offers PROVE F[i].claims \in Seq(Sparing(To, v))
    <3> DEFINE o == offers[i]
    <3>1. o \in ToSet(offers)
      BY DEF ToSet
    <3>2. F[i].claims = FtsoOfferClaims(o, ftso)
      BY <2>2
    <3> HIDE DEF o
    <3>3. FtsoOfferClaims(o, ftso) \in Seq(Sparing(To, v))
      BY <1>2, <1>3, <1>6, <2>1, <3>1, FtsoOfferSpares
    <3> QED BY <3>2, <3>3
  <2> QED BY <2>1, <2>2, <2>3, OffersSpare
<1>8. PiecesSpare(To, v, U)
  <2> DEFINE offers == scenario.updateOffers
  <2>1. offers \in Seq(ToSet(offers)) /\ \A o \in ToSet(offers) : o.amount \in Nat
    BY <1>4
  <2>2. U = [i \in DOMAIN offers |-> U[i]] /\ \A i \in DOMAIN offers : U[i].claims = FastUpdateOfferClaims(offers[i])
    BY DEF FastUpdatePieces
  <2> HIDE DEF offers, U
  <2>3. ASSUME NEW i \in DOMAIN offers PROVE U[i].claims \in Seq(Sparing(To, v))
    <3> DEFINE o == offers[i]
    <3>1. o \in ToSet(offers)
      BY DEF ToSet
    <3>2. U[i].claims = FastUpdateOfferClaims(o)
      BY <2>2
    <3> HIDE DEF o
    <3>3. FastUpdateOfferClaims(o) \in Seq(Sparing(To, v))
      BY <1>3, <2>1, <3>1, UpdateOfferSpares
    <3> QED BY <3>2, <3>3
  <2> QED BY <2>1, <2>2, <2>3, OffersSpare
<1>9. PiecesSpare(To, v, D)
  <2> DEFINE offers == scenario.fdcOffers
  <2>1. /\ offers \in Seq(ToSet(offers))
        /\ \A o \in ToSet(offers) : {"amount", "claimBack"} \subseteq DOMAIN o /\ o.amount \in Nat
    BY <1>4
  <2>2. D = [i \in DOMAIN offers |-> D[i]] /\ \A i \in DOMAIN offers : D[i].claims = FdcOfferClaims(offers[i], data, fdc)
    BY DEF FdcPieces
  <2> HIDE DEF offers, D
  <2>3. ASSUME NEW i \in DOMAIN offers PROVE D[i].claims \in Seq(Sparing(To, v))
    <3> DEFINE o == offers[i]
    <3>1. o \in ToSet(offers)
      BY DEF ToSet
    <3>2. D[i].claims = FdcOfferClaims(o, data, fdc)
      BY <2>2
    <3> HIDE DEF o
    <3>3. FdcOfferClaims(o, data, fdc) \in Seq(Sparing(To, v))
      BY <1>2, <1>3, <1>5, <1>6, <2>1, <3>1, FdcOfferSpares
    <3> QED BY <3>2, <3>3
  <2> QED BY <2>1, <2>2, <2>3, OffersSpare
<1> HIDE DEF F, U, D
<1>10. PiecesSpare(To, v, F \o U \o D)
  <2>1. PiecesSpare(To, v, F \o U)
    BY <1>7, <1>8, SparingConcat
  <2> QED BY <1>9, <2>1, SparingConcat
<1> DEFINE all == F \o U \o D
<1>11. PiecesSpare(To, v, all) /\ RoundClaims(txs) = AddPieces(all)
  BY <1>1, <1>10
<1> HIDE DEF all
<1> QED BY <1>11, AddedSpares DEF PiecesSpare

\* What is never finalized has no signatures.
LEMMA NoneSigned ==
    ASSUME NEW protocol, ProtocolData(sent, protocol).first = Empty
    PROVE  DoubleSigners(0, ProtocolData(sent, protocol).signatures) = {}
<1>1. ProtocolData(sent, protocol).signatures = <<>>
  BY DEF ProtocolData
<1>2. DOMAIN <<>> = {}
  OBVIOUS
<1> QED BY <1>1, <1>2 DEF DoubleSigners

\* Who is honest signed nothing wrong, and the bit vote of the consensus.
LEMMA HonestBy ==
    ASSUME NEW v, Honest(v)
    PROVE  /\ v \notin scenario.revealOffenders
           /\ \A protocol \in {Ftso, Fdc} : ProtocolData(sent, protocol).first # Empty =>
                 \A tx \in SignedBy(v, protocol) : SignsRight(tx, ProtocolData(sent, protocol).first)
           /\ \A tx \in SignedBy(v, Fdc) : tx.candidate = FdcData(sent).consensus
           /\ \A votes : votes = BitVotes(BitVoteSubmissions(scenario.bitVotes, policy)) =>
                 (/\ FdcData(sent).consensus # Empty /\ v \in DOMAIN votes
                  /\ FdcData(sent).consensus \subseteq votes[v]
                  => \E tx \in SignedBy(v, Fdc) : tx.time \in WindowStart(0)..WindowEnd(0))
BY DEF Honest

\* An honest voter does not offend in the FDC.
LEMMA HonestForFdc ==
    ASSUME Orderly, NEW v \in DOMAIN policy, Honest(v)
    PROVE  v \notin FdcOffenders(FdcData(sent))
<1> DEFINE data == ProtocolData(sent, Fdc)
           first == data.first
           votes == BitVotes(BitVoteSubmissions(scenario.bitVotes, policy))
           signatures == data.signatures
           signed == signatures["consensus"]
           signers == {s.sender : s \in ToSet(signed)}
           signatureOf(u) == CHOOSE s \in ToSet(signed) : s.sender = u
           consensus == ConsensusBitVote(signed, policy)
           dominates(u) == consensus # Empty /\ u \in DOMAIN votes /\ consensus \subseteq votes[u]
           fdc == FdcData(sent)
<1>1. CASE first = Empty \/ "consensus" \notin DOMAIN signatures
  <2>1. fdc = NoFdcData
    BY <1>1 DEF FdcData, FdcRewardData
  <2> QED BY <2>1 DEF FdcOffenders, NoFdcData
<1>2. CASE first # Empty /\ "consensus" \in DOMAIN signatures
  <2>1. /\ fdc.consensus = consensus
        /\ fdc.unrevealed = {u \in DOMAIN votes : dominates(u) /\ u \notin signers}
        /\ fdc.wrong = IF "wrong" \in DOMAIN signatures
                       THEN {s.sender : s \in ToSet(signatures["wrong"])} ELSE {}
        /\ fdc.bad = {u \in signers : signatureOf(u).candidate \notin {Empty, consensus}}
    <3>1. fdc = FdcRewardData(signatures, policy, votes)
      BY <1>2 DEF FdcData
    <3> HIDE DEF signatures, votes, fdc
    <3> QED BY <1>2, <3>1 DEF FdcRewardData
  <2>2. \A tx \in SignedBy(v, Fdc) : SignsRight(tx, first)
    BY <1>2, HonestBy
  <2>3. \A tx \in SignedBy(v, Fdc) : tx.candidate = consensus
    BY <2>1, HonestBy
  <2>4. dominates(v) => \E tx \in SignedBy(v, Fdc) : tx.time \in WindowStart(0)..WindowEnd(0)
    BY <2>1, HonestBy
  <2>5. Finalized(Fdc, data)
    BY <1>2 DEF Finalized
  <2>6. WellExtracted(signatures, sent, Fdc, first)
    <3>1. FoundFor(Fdc, data)
      BY FoundAlways, Zenon
    <3> QED BY <2>5, <3>1 DEF FoundFor
  <2>7. ASSUME NEW key \in DOMAIN signatures, NEW s \in ToSet(signatures[key]), s.sender = v
        PROVE  key = "consensus" /\ s \in SignedBy(v, Fdc)
    <3> HIDE DEF data
    <3> QED BY <2>2, <2>5, <2>7, RightOnly
  <2> HIDE DEF fdc, consensus, signatures, first, votes, data
  <2>8. v \notin fdc.wrong
    <3> SUFFICES ASSUME v \in fdc.wrong PROVE FALSE
      OBVIOUS
    <3>1. "wrong" \in DOMAIN signatures /\ \E s \in ToSet(signatures["wrong"]) : s.sender = v
      BY <2>1
    <3>2. "wrong" = "consensus"
      BY <2>7, <3>1
    <3> QED BY <3>2
  <2>9. v \notin fdc.bad
    <3> SUFFICES ASSUME v \in signers PROVE signatureOf(v).candidate = consensus
      BY <2>1
    <3>1. signatureOf(v) \in ToSet(signed) /\ signatureOf(v).sender = v
      <4>1. \E s \in ToSet(signed) : s.sender = v
        OBVIOUS
      <4> QED BY <4>1
    <3>2. signatureOf(v) \in SignedBy(v, Fdc)
      <4> HIDE DEF signatureOf
      <4> QED BY <1>2, <2>7, <3>1
    <3> HIDE DEF signatureOf
    <3> QED BY <2>3, <3>2
  <2>10. v \notin fdc.unrevealed
    <3> SUFFICES ASSUME dominates(v) PROVE v \in signers
      BY <2>1
    <3>1. PICK tx \in SignedBy(v, Fdc) : tx.time \in WindowStart(0)..WindowEnd(0)
      BY <2>4
    <3>2. /\ tx \in ToSet(sent) /\ tx.kind = "sign" /\ tx.sender = v /\ tx.protocol = Fdc
          /\ tx.round = 0
      BY DEF SignedBy
    <3>3. tx.time >= WindowStart(0) /\ tx.time <= WindowEnd(0)
      <4>1. WindowStart(0) \in Int /\ WindowEnd(0) \in Int
        BY ClockAssumption, WindowTimes
      <4> QED BY <3>1, <4>1
    <3>4. Counts(tx, Fdc)
      BY <3>2, <3>3 DEF Counts
    <3>5. KeyFor(tx, first) = "consensus"
      BY <2>2 DEF KeyFor
    <3>6. \E s \in ToSet(signatures[KeyFor(tx, first)]) : s.sender = tx.sender /\ s.time <= tx.time
      BY <2>6, <3>2, <3>4 DEF WellExtracted
    <3> QED BY <3>2, <3>5, <3>6
  <2> QED BY <2>8, <2>9, <2>10 DEF FdcOffenders, fdc
<1> QED BY <1>1, <1>2

\* Nor does it sign two things for the FTSO.
LEMMA HonestForFtso ==
    ASSUME Orderly, NEW v \in DOMAIN policy, Honest(v)
    PROVE  v \notin DoubleSigners(0, ProtocolData(sent, Ftso).signatures)
<1> DEFINE data == ProtocolData(sent, Ftso)
<1>1. CASE data.first = Empty
  BY <1>1, NoneSigned
<1>2. CASE data.first # Empty
  <2>1. \A tx \in SignedBy(v, Ftso) : SignsRight(tx, data.first)
    BY <1>2, HonestBy
  <2>2. Finalized(Ftso, data)
    BY <1>2 DEF Finalized
  <2> HIDE DEF data
  <2>3. v \notin DoubleSigners(0, data.signatures)
    BY <2>1, <2>2, RightSignsOnce
  <2> QED BY <2>3 DEF data
<1> QED BY <1>1, <1>2

\* So none of the penalties is an honest voter's.
LEMMA HonestSpared == Orderly => HonestNeverPenalised
<1> SUFFICES ASSUME Orderly, NEW v \in DOMAIN policy, Honest(v),
                    NEW c \in ToSet(Negative(RoundClaims(sent)))
             PROVE  c.to[2] # v
  BY DEF HonestNeverPenalised
<1> DEFINE To == Beneficiaries(scenario, sent)
           claims == RoundClaims(sent)
           S == Sparing(To, v)
           places == {i \in DOMAIN claims : claims[i].amount < 0}
           picked == Picked(claims, places)
<1>1. claims \in Seq(S)
  <2>1. WellFormed(scenario) /\ sent \in Seq(ToSet(sent)) /\ v \notin scenario.revealOffenders
    BY HonestBy DEF Orderly
  <2> QED BY <2>1, HonestForFtso, HonestForFdc, RoundSpares
<1>2. Negative(claims) = picked
  BY DEF Negative, Select
<1> HIDE DEF claims, To
<1>3. PICK k \in DOMAIN picked : c = picked[k]
  BY <1>2 DEF ToSet, claims
<1>4. PICK i \in DOMAIN claims : i \in places /\ picked[k] = claims[i]
  <2> HIDE DEF places, S
  <2>1. \A l \in DOMAIN picked : \E i \in DOMAIN claims : i \in places /\ picked[l] = claims[i]
    BY <1>1, PickedElements
  <2> QED BY <2>1
<1>5. c \in S /\ c.amount < 0
  BY <1>1, <1>3, <1>4
<1>6. c.amount \in Int
  BY <1>5 DEF Sparing, ClaimsTo
<1> QED BY <1>5, <1>6 DEF Sparing

\* Signers get their due of what was sent in the order of the chain.
LEMMA DueWhenOrderly == Orderly => GraceSignersPaid /\ DoubleSignersLose /\ HonestNeverPenalised
BY GracePaid, DoubleLose, HonestSpared

\* Transactions get on chain in the order of the clock, which does not go back.
SentInOrder == Chronological(sent) /\ \A i \in DOMAIN sent : sent[i].time <= clock

\* Nothing is sent at first.
LEMMA InOrderInit == CalcInit => SentInOrder
<1> SUFFICES ASSUME CalcInit PROVE SentInOrder
  OBVIOUS
<1>1. sent = <<>>
  BY DEF CalcInit, RoundInit, RoundRests
<1>2. DOMAIN sent = {}
  BY <1>1
<1> QED BY <1>2 DEF SentInOrder, Chronological

\* What is sent now is the last.
LEMMA InOrderNext == RoundInv /\ ClockInv /\ SentInOrder /\ [CalcNext]_calcVars => SentInOrder'
<1> SUFFICES ASSUME RoundInv, ClockInv, SentInOrder, [CalcNext]_calcVars PROVE SentInOrder'
  OBVIOUS
<1>1. clock \in Nat /\ clock' \in Nat /\ clock <= clock'
  <2>1. clock' = clock \/ clock' = clock + 1
    BY DEF CalcNext, calcVars, roundVars, RoundNext, RoundTick, Send
  <2> QED BY <2>1 DEF ClockInv
<1> DEFINE n == Len(sent)
<1>2. n \in Nat /\ DOMAIN sent = 1..n
  BY DEF RoundInv
<1>3. /\ \A i \in 1..n : sent[i].time \in Nat /\ sent[i].time <= clock
      /\ \A i, j \in 1..n : i <= j => sent[i].time <= sent[j].time
  BY <1>2 DEF SentInOrder, Chronological
<1>4. CASE sent' = sent
  <2>1. DOMAIN sent' = 1..n /\ \A i \in 1..n : sent'[i] = sent[i]
    BY <1>2, <1>4
  <2>2. \A i \in 1..n : sent[i].time <= clock'
    BY <1>1, <1>3
  <2> HIDE DEF n
  <2> QED BY <1>3, <2>1, <2>2 DEF SentInOrder, Chronological
<1>5. CASE sent' # sent
  <2>1. PICK x : x.time = clock /\ sent' = Append(sent, x)
    BY <1>5, SentNow
  <2>2. /\ DOMAIN sent' = 1..(n + 1) /\ sent'[n + 1] = x
        /\ \A i \in 1..n : sent'[i] = sent[i]
    <3>1. sent \in Seq(ToSet(sent))
      BY DEF RoundInv
    <3>2. sent \in Seq(ToSet(sent) \cup {x})
      <4> DEFINE R == ToSet(sent)
                 Q == R \cup {x}
      <4>1. R \subseteq Q
        OBVIOUS
      <4> HIDE DEF R, Q
      <4>2. sent \in Seq(Q)
        BY <3>1, <4>1 DEF R
      <4> QED BY <4>2 DEF R, Q
    <3> DEFINE Q == ToSet(sent) \cup {x}
    <3>3. x \in Q /\ sent \in Seq(Q)
      BY <3>2
    <3> HIDE DEF Q
    <3> QED BY <2>1, <3>3
  <2> HIDE DEF n
  <2>3. \A i \in 1..(n + 1) : i \in 1..n \/ i = n + 1
    BY <1>2
  <2>4. ASSUME NEW i \in 1..(n + 1)
        PROVE  sent'[i].time \in Nat /\ sent'[i].time <= clock /\ sent'[i].time <= clock'
    <3> DEFINE t == sent'[i].time
    <3>1. CASE i \in 1..n
      <4>1. t = sent[i].time
        BY <2>2, <3>1
      <4>2. t \in Nat /\ t <= clock
        BY <1>3, <3>1, <4>1
      <4> HIDE DEF t
      <4>3. t <= clock'
        BY <1>1, <4>2
      <4> QED BY <4>2, <4>3 DEF t
    <3>2. CASE i = n + 1
      <4>1. t = clock
        BY <2>1, <2>2, <3>2
      <4> QED BY <1>1, <4>1
    <3> QED BY <2>3, <3>1, <3>2
  <2>5. ASSUME NEW i \in 1..(n + 1), NEW j \in 1..(n + 1), i <= j
        PROVE  sent'[i].time <= sent'[j].time
    <3>1. CASE j = n + 1
      <4>1. sent'[j].time = clock
        BY <2>1, <2>2, <3>1
      <4>2. sent'[i].time <= clock
        BY <2>4
      <4> QED BY <4>1, <4>2
    <3>2. CASE j # n + 1
      <4>1. j \in 1..n /\ i \in 1..n
        BY <1>2, <2>3, <2>5, <3>2
      <4> QED BY <1>3, <2>2, <2>5, <4>1
    <3> QED BY <3>1, <3>2
  <2> QED BY <2>2, <2>4, <2>5 DEF SentInOrder, Chronological
<1> QED BY <1>4, <1>5

\* What was sent is always in order.
LEMMA OrderInvariant == CalcSpec => []SentInOrder
BY InOrderInit, InOrderNext, RoundInvariant, ClockInvariant, PTL DEF CalcSpec

\* Signers get their due, whatever the others send.
THEOREM SignersAreGivenTheirDue == CalcSpec => []SignersGetTheirDue
<1>1. CalcSpec => []SentInOrder
  BY OrderInvariant
<1>2. RoundInv /\ SentInOrder => Orderly
  BY DEF RoundInv, SentInOrder, Orderly
<1>3. SharesAgree /\ Orderly => SignersGetTheirDue
  BY DueWhenOrderly DEF SignersGetTheirDue
<1> QED BY <1>1, <1>2, <1>3, RoundInvariant, LoopsDivideAlike, PTL

-----------------------------------------------------------------------------
(* What stops a round *)

\* All voters have signing weight.
AllWeigh == \A v \in DOMAIN policy : policy[v].signing > 0

\* Right signatures are those that were sent, count and sign what is finalized.
LEMMA RightSignaturesAre ==
    ASSUME NEW txs, txs \in Seq(ToSet(txs)), Chronological(txs), NEW protocol,
           NEW first, first = ProtocolData(txs, protocol).first, NEW tx
    PROVE  tx \in RightSignatures(txs, protocol)
           <=> tx \in ToSet(txs) /\ Counts(tx, protocol) /\ first # Empty /\ SignsRight(tx, first)
<1> DEFINE R == ToSet(txs)
           In(x) == x.kind = "sign" /\ x.time >= WindowStart(0) /\ x.time <= WindowEnd(0)
           inWindow == {i \in DOMAIN txs : In(txs[i])}
           window == WindowOf(txs, "sign", 0)
<1>1. window = Picked(txs, inWindow)
  BY DEF WindowOf, InRange, Select
<1>2. \A i \in DOMAIN txs : i \in inWindow <=> In(txs[i])
  OBVIOUS
<1> HIDE DEF inWindow, In
<1>3. /\ \A k \in DOMAIN window : \E i \in DOMAIN txs : i \in inWindow /\ window[k] = txs[i]
      /\ \A i \in DOMAIN txs : i \in inWindow => \E k \in DOMAIN window : window[k] = txs[i]
  <2>1. txs \in Seq(R) /\ Chronological(txs)
    OBVIOUS
  <2> HIDE DEF R, window
  <2> QED BY ONLY <1>1, <2>1, PickedWhere
<1> HIDE DEF window
<1>4. tx \in ToSet(window) <=> tx \in ToSet(txs) /\ In(tx)
  BY <1>1, <1>2, <1>3 DEF ToSet
<1>5. tx \in RightSignatures(txs, protocol)
      <=> /\ tx \in ToSet(window) /\ tx.round = 0 /\ tx.protocol = protocol /\ tx.sender \in DOMAIN policy
          /\ first # Empty /\ SignsRight(tx, first)
  BY DEF RightSignatures, SignsRight, window
<1>6. Counts(tx, protocol)
      <=> In(tx) /\ tx.round = 0 /\ tx.protocol = protocol /\ tx.sender \in DOMAIN policy
  BY DEF Counts, In
<1> QED BY <1>4, <1>5, <1>6

\* More voters weigh no less.
LEMMA MoreWeigh ==
    ASSUME policy \in Seq(Voters), NEW S, NEW U, S \subseteq U, U \subseteq DOMAIN policy
    PROVE  /\ SigningWeight(S) \in Nat /\ SigningWeight(U) \in Nat
           /\ SigningWeight(S) <= SigningWeight(U)
<1> DEFINE f == [v \in DOMAIN policy |-> policy[v].signing]
<1>1. DOMAIN policy = 1..Len(policy) /\ Len(policy) \in Nat
  <2> HIDE DEF policy
  <2> QED OBVIOUS
<1>2. IsFiniteSet(DOMAIN policy)
  BY <1>1, FS_Interval
<1>3. \A v \in DOMAIN policy : f[v] \in Nat
  <2>1. \A v \in DOMAIN policy : policy[v] \in Voters
    <3> HIDE DEF policy
    <3> QED OBVIOUS
  <2> QED BY <2>1 DEF Voters
<1>4. \A T : T \subseteq DOMAIN policy => SigningWeight(T) = SumFunctionOnSet(f, T) /\ IsFiniteSet(T)
  <2> SUFFICES ASSUME NEW T, T \subseteq DOMAIN policy
               PROVE  SigningWeight(T) = SumFunctionOnSet(f, T) /\ IsFiniteSet(T)
    OBVIOUS
  <2> DEFINE g == [v \in T |-> policy[v].signing]
  <2>1. IsFiniteSet(T)
    BY <1>2, FS_Subset
  <2>2. \A v \in T : g[v] = f[v] /\ f[v] \in Int
    BY <1>3
  <2>3. SigningWeight(T) = SumFunctionOnSet(g, T)
    BY DEF SigningWeight, SumFunction
  <2> HIDE DEF f, g
  <2>4. SumFunctionOnSet(g, T) = SumFunctionOnSet(f, T)
    BY <2>1, <2>2, SumSame
  <2> QED BY <2>1, <2>3, <2>4
<1> HIDE DEF f
<1>5. IntegersOn(f, U) /\ S \in SUBSET U /\ IsFiniteSet(U) /\ IsFiniteSet(U \ S) /\ IsFiniteSet(S)
  <2>1. IntegersOn(f, U)
    BY <1>3 DEF IntegersOn
  <2> QED BY <2>1, <1>4
<1>6. SumFunctionOnSet(f, U) = SumFunctionOnSet(f, S) + SumFunctionOnSet(f, U \ S)
  BY <1>5, SumSplit
<1>7. \A T : T \subseteq DOMAIN policy => SumFunctionOnSet(f, T) \in Nat
  <2> SUFFICES ASSUME NEW T, T \subseteq DOMAIN policy PROVE SumFunctionOnSet(f, T) \in Nat
    OBVIOUS
  <2>1. IsFiniteSet(T) /\ \A v \in T : f[v] \in Nat
    BY <1>3, <1>4
  <2> QED BY <2>1, NaturalSum
<1>8. /\ SumFunctionOnSet(f, S) \in Nat /\ SumFunctionOnSet(f, U) \in Nat
      /\ SumFunctionOnSet(f, U \ S) \in Nat
  BY <1>7
<1> QED BY <1>4, <1>6, <1>8

\* The voters behind a candidate in a list of signatures.
Behind(signed, c) == {s.sender : s \in {s \in ToSet(signed) : s.candidate = c}}

\* The consensus is a candidate that no other outweighs.
LEMMA ConsensusWeighs ==
    ASSUME policy \in Seq(Voters), NEW signed,
           \A s \in ToSet(signed) : s.sender \in DOMAIN policy,
           NEW candidates, candidates = {s.candidate : s \in ToSet(signed)} \ {Empty, Short},
           \A c \in candidates : AsNumber(c) \in Nat,
           NEW c, c = ConsensusBitVote(signed, policy), c # Empty
    PROVE  /\ c \in candidates
           /\ \A d \in candidates : SigningWeight(Behind(signed, c)) >= SigningWeight(Behind(signed, d))
<1> DEFINE weight(d) == SigningWeight(Behind(signed, d))
           best == {d \in candidates : \A e \in candidates : weight(d) >= weight(e)}
           W == {weight(d) : d \in candidates}
           total == SigningWeight(DOMAIN policy)
           numbers == {AsNumber(d) : d \in best}
<1>1. /\ candidates # {}
      /\ c = CHOOSE d \in best : \A e \in best : AsNumber(d) <= AsNumber(e)
  <2> HIDE DEF policy
  <2> QED BY DEF ConsensusBitVote, SigningWeight, Behind
<1>2. \A d : weight(d) \in Nat /\ total \in Nat /\ weight(d) <= total
  <2> SUFFICES ASSUME NEW d PROVE weight(d) \in Nat /\ total \in Nat /\ weight(d) <= total
    OBVIOUS
  <2> DEFINE S == Behind(signed, d)
             U == DOMAIN policy
  <2>1. S \subseteq U /\ U \subseteq DOMAIN policy
    BY DEF Behind
  <2> HIDE DEF S, U
  <2>2. /\ SigningWeight(S) \in Nat /\ SigningWeight(U) \in Nat
        /\ SigningWeight(S) <= SigningWeight(U)
    BY <2>1, MoreWeigh
  <2> QED BY <2>2 DEF S, U
<1> HIDE DEF weight, total
<1>3. W \in SUBSET Nat /\ W # {} /\ total \in Nat /\ \A m \in W : m <= total
  <2> HIDE DEF best
  <2>1. PICK d \in candidates : TRUE
    BY <1>1
  <2>2. weight(d) \in W /\ total \in Nat
    BY <1>2, <2>1
  <2>3. \A m \in W : m \in Nat /\ m <= total
    BY <1>2
  <2> HIDE DEF W
  <2> QED BY <2>2, <2>3
<1>4. PICK m \in W : \A n \in W : n <= m
  <2> HIDE DEF W
  <2> QED BY <1>3, MaxOfNaturals
<1>5. best # {}
  BY <1>2, <1>4
<1> HIDE DEF best
<1>6. numbers \in SUBSET Nat /\ numbers # {}
  <2>1. best \subseteq candidates
    BY DEF best
  <2> QED BY <1>5, <2>1
<1>7. PICK least \in numbers : \A n \in numbers : least <= n
  <2> HIDE DEF numbers
  <2> QED BY <1>6, LeastNatural
<1>8. \E d \in best : \A e \in best : AsNumber(d) <= AsNumber(e)
  BY <1>7
<1>9. c \in best
  BY <1>1, <1>8
<1> QED BY <1>9 DEF best, weight

\* Signatures of a protocol, of which the first of every sender are in a list.
FirstsOf(signed, right) ==
    /\ \A s \in ToSet(signed) : s \in right
    /\ \A tx \in right : \E s \in ToSet(signed) : s.sender = tx.sender

\* The list of the consensus has the right signatures, of each sender one.
LEMMA ConsensusList ==
    ASSUME Orderly, NEW protocol, NEW data, data = ProtocolData(sent, protocol), data.first # Empty
    PROVE  /\ RightSignatures(sent, protocol) # {} => "consensus" \in DOMAIN data.signatures
           /\ "consensus" \in DOMAIN data.signatures =>
                 FirstsOf(data.signatures["consensus"], RightSignatures(sent, protocol))
<1> DEFINE right == RightSignatures(sent, protocol)
           first == data.first
           signatures == data.signatures
<1>1. WellExtracted(signatures, sent, protocol, first)
  <2>1. Finalized(protocol, data)
    BY DEF Finalized
  <2>2. FoundFor(protocol, data)
    BY FoundAlways, Zenon
  <2> QED BY <2>1, <2>2 DEF FoundFor
<1>2. \A tx : tx \in right <=> tx \in ToSet(sent) /\ Counts(tx, protocol) /\ SignsRight(tx, first)
  <2> SUFFICES ASSUME NEW tx
               PROVE  tx \in right <=> tx \in ToSet(sent) /\ Counts(tx, protocol) /\ SignsRight(tx, first)
    OBVIOUS
  <2>1. sent \in Seq(ToSet(sent)) /\ Chronological(sent) /\ first = ProtocolData(sent, protocol).first
    BY DEF Orderly
  <2> HIDE DEF first
  <2>2. tx \in RightSignatures(sent, protocol)
        <=> tx \in ToSet(sent) /\ Counts(tx, protocol) /\ first # Empty /\ SignsRight(tx, first)
    BY <2>1, RightSignaturesAre
  <2> QED BY <2>2 DEF first
<1> HIDE DEF right, first, signatures
<1>3. \A tx \in right : /\ "consensus" \in DOMAIN signatures
                        /\ \E s \in ToSet(signatures["consensus"]) : s.sender = tx.sender
  <2> SUFFICES ASSUME NEW tx \in right
               PROVE  /\ "consensus" \in DOMAIN signatures
                      /\ \E s \in ToSet(signatures["consensus"]) : s.sender = tx.sender
    OBVIOUS
  <2>1. tx \in ToSet(sent) /\ Counts(tx, protocol) /\ KeyFor(tx, first) = "consensus"
    BY <1>2 DEF KeyFor
  <2> QED BY <1>1, <2>1 DEF WellExtracted
<1>4. ASSUME "consensus" \in DOMAIN signatures, NEW s \in ToSet(signatures["consensus"])
      PROVE  s \in right
  <2>1. s \in ToSet(sent) /\ Counts(s, protocol) /\ "consensus" = KeyFor(s, first)
    BY <1>1, <1>4 DEF WellExtracted
  <2>2. SignsRight(s, first)
    BY <2>1 DEF KeyFor
  <2> QED BY <1>2, <2>1, <2>2
<1> QED BY <1>3, <1>4 DEF FirstsOf, right, signatures

\* A bit vote for more than was requested, of those with most weight behind it.
Overlong(c) ==
    /\ c \in Candidates \ {Empty, Short}
    /\ BitVoteThrows(scenario.requests, c)
    /\ \A d \in Candidates \ {Empty, Short} :
          SigningWeight(SignedWith(c)) >= SigningWeight(SignedOnlyWith(d))

\* The consensus of a list of the first right signatures is such a bit vote, if
\* it is one for more than was requested.
LEMMA ConsensusOverlong ==
    ASSUME Orderly, CandidatesCount, NoBits \notin Candidates,
           NEW signed, FirstsOf(signed, RightSignatures(sent, Fdc)),
           NEW c, c = ConsensusBitVote(signed, policy), BitVoteThrows(scenario.requests, c)
    PROVE  Overlong(c)
<1> DEFINE right == RightSignatures(sent, Fdc)
           candidates == {s.candidate : s \in ToSet(signed)} \ {Empty, Short}
<1>1. /\ \A s \in ToSet(signed) : s \in right
      /\ \A tx \in right : \E s \in ToSet(signed) : s.sender = tx.sender
  BY DEF FirstsOf
<1>2. \A tx \in right : tx.sender \in DOMAIN policy /\ tx \in ToSet(sent)
  <2> DEFINE first == ProtocolData(sent, Fdc).first
  <2>1. sent \in Seq(ToSet(sent)) /\ Chronological(sent)
    BY DEF Orderly
  <2> HIDE DEF first
  <2>2. ASSUME NEW tx \in right PROVE tx \in ToSet(sent) /\ Counts(tx, Fdc)
    BY <2>1, RightSignaturesAre DEF first
  <2> QED BY <2>2 DEF Counts
<1>3. policy \in Seq(Voters)
  BY DEF Orderly, WellFormed, policy
<1>4. \A tx \in right : tx.candidate \in Candidates
  BY DEF Candidates
<1>5. \A v, d : v \in SignedWith(d) <=> \E tx \in right : tx.candidate = d /\ tx.sender = v
  BY DEF SignedWith
<1> HIDE DEF right
<1>6. \A d \in candidates : d \in Candidates \ {Empty, Short} /\ AsNumber(d) \in Nat
  <2> SUFFICES ASSUME NEW s \in ToSet(signed), s.candidate \notin {Empty, Short}
               PROVE  s.candidate \in Candidates /\ AsNumber(s.candidate) \in Nat
    OBVIOUS
  <2>1. s \in right /\ s \in ToSet(sent) /\ s.candidate \in Candidates
    BY <1>1, <1>2, <1>4
  <2>2. s.candidate \notin {Empty, Short, NoBits}
    BY <2>1
  <2> QED BY <2>1, <2>2 DEF CandidatesCount
<1>7. \A s \in ToSet(signed) : s.sender \in DOMAIN policy
  BY <1>1, <1>2
<1>8. c # Empty
  BY DEF BitVoteThrows
<1>9. /\ c \in candidates
      /\ \A d \in candidates : SigningWeight(Behind(signed, c)) >= SigningWeight(Behind(signed, d))
  <2>1. \A d \in candidates : AsNumber(d) \in Nat
    BY <1>6
  <2>2. candidates = {s.candidate : s \in ToSet(signed)} \ {Empty, Short}
    OBVIOUS
  <2> HIDE DEF candidates
  <2> QED BY <1>3, <1>7, <1>8, <2>1, <2>2, ConsensusWeighs
<1>10. \A d : Behind(signed, d) \subseteq SignedWith(d) /\ SignedWith(d) \subseteq DOMAIN policy
              /\ SignedOnlyWith(d) \subseteq SignedWith(d)
  <2> SUFFICES ASSUME NEW d
               PROVE  /\ Behind(signed, d) \subseteq SignedWith(d) /\ SignedWith(d) \subseteq DOMAIN policy
                      /\ SignedOnlyWith(d) \subseteq SignedWith(d)
    OBVIOUS
  <2>1. ASSUME NEW v \in Behind(signed, d) PROVE v \in SignedWith(d)
    BY <1>1, <1>5 DEF Behind
  <2>2. ASSUME NEW v \in SignedWith(d) PROVE v \in DOMAIN policy
    BY <1>2, <1>5
  <2>3. SignedOnlyWith(d) \subseteq SignedWith(d)
    BY DEF SignedOnlyWith
  <2> QED BY <2>1, <2>2, <2>3
<1>11. \A d : SignedOnlyWith(d) \subseteq Behind(signed, d)
  <2> SUFFICES ASSUME NEW d, NEW v \in SignedOnlyWith(d) PROVE v \in Behind(signed, d)
    OBVIOUS
  <2>1. v \in SignedWith(d) /\ \A e \in Candidates : v \in SignedWith(e) => e = d
    BY DEF SignedOnlyWith
  <2>2. PICK s \in ToSet(signed) : s.sender = v
    BY <1>1, <1>5, <2>1
  <2>3. s.candidate \in Candidates /\ v \in SignedWith(s.candidate)
    BY <1>1, <1>4, <1>5, <2>2
  <2>4. s.candidate = d
    BY <2>1, <2>3
  <2> QED BY <2>2, <2>4 DEF Behind
<1> HIDE DEF candidates
<1>12. ASSUME NEW d \in Candidates \ {Empty, Short}
       PROVE  SigningWeight(SignedWith(c)) >= SigningWeight(SignedOnlyWith(d))
  <2> DEFINE all == SignedWith(c)
             some == Behind(signed, c)
             other == Behind(signed, d)
             only == SignedOnlyWith(d)
  <2>1. some \subseteq all /\ all \subseteq DOMAIN policy /\ only \subseteq other /\ other \subseteq DOMAIN policy
    <3>1. other \subseteq SignedWith(d) /\ SignedWith(d) \subseteq DOMAIN policy
      BY <1>10
    <3> QED BY <1>10, <1>11, <3>1
  <2>2. CASE d \in candidates
    <3>1. SigningWeight(some) >= SigningWeight(other)
      BY <1>9, <2>2
    <3> HIDE DEF all, some, other, only
    <3>2. /\ SigningWeight(some) \in Nat /\ SigningWeight(all) \in Nat
          /\ SigningWeight(some) <= SigningWeight(all)
      BY <1>3, <2>1, MoreWeigh
    <3>3. /\ SigningWeight(only) \in Nat /\ SigningWeight(other) \in Nat
          /\ SigningWeight(only) <= SigningWeight(other)
      BY <1>3, <2>1, MoreWeigh
    <3>4. SigningWeight(all) >= SigningWeight(only)
      BY <3>1, <3>2, <3>3
    <3> QED BY <3>4 DEF all, only
  <2>3. CASE d \notin candidates
    <3>1. other = {}
      BY <2>3 DEF Behind, candidates
    <3>2. only \subseteq all
      BY <2>1, <3>1
    <3> HIDE DEF all, some, other, only
    <3>3. SigningWeight(all) \in Nat /\ SigningWeight(only) \in Nat /\ SigningWeight(only) <= SigningWeight(all)
      BY <1>3, <2>1, <3>2, MoreWeigh
    <3>4. SigningWeight(all) >= SigningWeight(only)
      BY <3>3
    <3> QED BY <3>4 DEF all, only
  <2> QED BY <2>2, <2>3
<1> QED BY <1>6, <1>9, <1>12 DEF Overlong

\* The data of the FDC cannot be read only for messages without bits and for
\* such bit votes.
LEMMA FdcDataStops ==
    ASSUME Orderly, CandidatesCount, FdcDataThrows(sent)
    PROVE  NoBits \in Candidates \/ \E c : Overlong(c)
<1> DEFINE data == ProtocolData(sent, Fdc)
           signatures == data.signatures
           signed == signatures["consensus"]
           votes == BitVotes(BitVoteSubmissions(scenario.bitVotes, policy))
<1>1. /\ data.first # Empty
      /\ FdcRewardDataThrows(signatures) \/ BitVoteThrows(scenario.requests, FdcData(sent).consensus)
  BY DEF FdcDataThrows
<1>2. "consensus" \in DOMAIN signatures => FirstsOf(signed, RightSignatures(sent, Fdc))
  <2>1. data = ProtocolData(sent, Fdc)
    OBVIOUS
  <2> HIDE DEF data
  <2> QED BY <1>1, <2>1, ConsensusList
<1>3. FdcData(sent) = FdcRewardData(signatures, policy, votes)
  BY <1>1 DEF FdcData
<1> HIDE DEF votes, data, signatures
<1>4. CASE FdcRewardDataThrows(signatures)
  <2>1. PICK s \in ToSet(signed) : "consensus" \in DOMAIN signatures /\ s.candidate = NoBits
    BY <1>4 DEF FdcRewardDataThrows
  <2>2. s \in RightSignatures(sent, Fdc)
    BY <1>2, <2>1 DEF FirstsOf
  <2> QED BY <2>1, <2>2 DEF Candidates
<1>5. CASE BitVoteThrows(scenario.requests, FdcData(sent).consensus)
  <2> DEFINE c == FdcData(sent).consensus
  <2>1. c # Empty
    BY <1>5 DEF BitVoteThrows
  <2>2. "consensus" \in DOMAIN signatures /\ c = ConsensusBitVote(signed, policy)
    <3>1. CASE "consensus" \notin DOMAIN signatures
      BY <1>3, <2>1, <3>1 DEF FdcRewardData, NoFdcData
    <3>2. CASE "consensus" \in DOMAIN signatures
      BY <1>3, <3>2 DEF FdcRewardData
    <3> QED BY <3>1, <3>2
  <2>3. BitVoteThrows(scenario.requests, c)
    BY <1>5
  <2> HIDE DEF c, signed
  <2>4. NoBits \in Candidates \/ Overlong(c)
    BY <1>2, <2>2, <2>3, ConsensusOverlong
  <2> QED BY <2>4
<1> QED BY <1>1, <1>4, <1>5

\* Who signs for the FDC is a voter, and has weight.
LEMMA SignersWeigh ==
    ASSUME Orderly, AllWeigh
    PROVE  ~FdcSigningThrows(policy, 0, FdcData(sent).signers, ProtocolData(sent, Fdc).first,
                             FdcData(sent).consensus)
<1> DEFINE data == ProtocolData(sent, Fdc)
           first == data.first
           signatures == data.signatures
           bits == FdcData(sent).consensus
           signers == FdcData(sent).signers
           votes == BitVotes(BitVoteSubmissions(scenario.bitVotes, policy))
<1> SUFFICES ASSUME FdcSigningThrows(policy, 0, signers, first, bits) PROVE FALSE
  OBVIOUS
<1>1. first # Empty
  BY DEF FdcSigningThrows
<1>2. FdcData(sent) = FdcRewardData(signatures, policy, votes)
  BY <1>1 DEF FdcData
<1>3. WellExtracted(signatures, sent, Fdc, first)
  <2>1. Finalized(Fdc, data)
    BY <1>1 DEF Finalized
  <2>2. FoundFor(Fdc, data)
    BY FoundAlways, Zenon
  <2> QED BY <2>1, <2>2 DEF FoundFor
<1> HIDE DEF votes, data, signatures, first
<1>4. DOMAIN signers \subseteq DOMAIN policy
  <2>1. CASE "consensus" \notin DOMAIN signatures
    BY <1>2, <2>1 DEF FdcRewardData, NoFdcData
  <2>2. CASE "consensus" \in DOMAIN signatures
    <3>1. DOMAIN signers = {s.sender : s \in ToSet(signatures["consensus"])}
      BY <1>2, <2>2 DEF FdcRewardData
    <3>2. \A s \in ToSet(signatures["consensus"]) : s.sender \in DOMAIN policy
      BY <1>3, <2>2 DEF WellExtracted, Counts
    <3> QED BY <3>1, <3>2
  <2> QED BY <2>1, <2>2
<1>5. DOMAIN policy \subseteq Nat
  <2>1. policy \in Seq(Voters)
    BY DEF Orderly, WellFormed, policy
  <2> HIDE DEF policy
  <2> QED BY <2>1
<1> HIDE DEF signers, bits
<1>6. PICK v \in DOMAIN signers : \A u \in DOMAIN policy : policy[u].signing > 0 => u < v
  BY DEF FdcSigningThrows
<1>7. v \in DOMAIN policy /\ v \in Nat /\ v < v
  BY <1>4, <1>5, <1>6 DEF AllWeigh
<1> QED BY <1>7

\* A calculation that throws has the FTSO finalized without a right signature, or
\* such messages of the FDC.
LEMMA OnlySilenceStops ==
    ASSUME Orderly, CandidatesCount, AllWeigh
    PROVE  RoundCalculable
<1> SUFFICES ASSUME RoundThrows(sent) PROVE RoundCalculable
  BY DEF RoundCalculable
<1>1. CASE FdcDataThrows(sent)
  BY <1>1, FdcDataStops DEF RoundCalculable, Overlong
<1>2. CASE ~FdcDataThrows(sent)
  <2> DEFINE data == ProtocolData(sent, Ftso)
  <2>1. SigningThrows(data.signatures, data.first)
    BY <1>2, SignersWeigh DEF RoundThrows
  <2>2. data.first # Empty /\ "consensus" \notin DOMAIN data.signatures
    BY <2>1 DEF SigningThrows
  <2>3. RightSignatures(sent, Ftso) = {}
    <3>1. data = ProtocolData(sent, Ftso)
      OBVIOUS
    <3> HIDE DEF data
    <3> QED BY <2>2, <3>1, ConsensusList
  <2> QED BY <2>2, <2>3 DEF RoundCalculable
<1> QED BY <1>1, <1>2

\* A round stops with an error only without a right signature of a voter for the
\* FTSO, or for right signatures of the FDC with a message without bits or with a
\* bit vote for more than was requested.
THEOREM RoundsCalculable ==
    ASSUME \A s \in Scenarios : \A v \in DOMAIN s.policy : s.policy[v].signing > 0
    PROVE  CalcSpec => []RoundCalculable
<1>1. CalcInit => AllWeigh
  <2>1. DOMAIN QuietRound.policy = {}
    BY DEF QuietRound
  <2>2. CalcInit => scenario \in Scenarios \/ scenario = QuietRound
    BY DEF CalcInit, RoundInit, RoundRests
  <2> QED BY <2>1, <2>2 DEF AllWeigh, policy
<1>2. AllWeigh /\ [CalcNext]_calcVars => AllWeigh'
  BY RoundSteps DEF AllWeigh, policy
<1>3. RoundInv /\ SentInOrder /\ AllWeigh => RoundCalculable
  BY OnlySilenceStops DEF RoundInv, SentInOrder, Orderly
<1> QED BY <1>1, <1>2, <1>3, RoundInvariant, OrderInvariant, PTL DEF CalcSpec

-----------------------------------------------------------------------------
(* Offers that are conserved *)

\* Requests of rounds, in lists.
HasRequests(rounds) ==
    /\ rounds \in Seq(ToSet(rounds))
    /\ \A i \in DOMAIN rounds : rounds[i] \in Seq(ToSet(rounds[i]))

\* Those of a round that count, with some types.
OfTypes(rounds, i, U) ==
    {k \in DOMAIN rounds[i] : /\ rounds[i][k].confirmed /\ ~rounds[i][k].duplicate
                              /\ rounds[i][k].type \in U}

CountsPerRound(rounds, U) == [i \in DOMAIN rounds |-> Cardinality(OfTypes(rounds, i, U))]

AllTypes(rounds) == {r.type : r \in UNION {ToSet(rounds[i]) : i \in DOMAIN rounds}}

\* All of these are finite.
LEMMA TypesAreFinite ==
    ASSUME NEW rounds, HasRequests(rounds)
    PROVE  IsFiniteSet(DOMAIN rounds) /\ IsFiniteSet(AllTypes(rounds))
<1> DEFINE D == DOMAIN rounds
           f == [i \in D |-> ToSet(rounds[i])]
           U == {f[i] : i \in D}
           all == UNION U
           g == [r \in all |-> r.type]
<1>1. IsFiniteSet(D)
  <2>1. D = 1..Len(rounds) /\ Len(rounds) \in Nat
    BY DEF HasRequests
  <2> HIDE DEF D
  <2> QED BY <2>1, FS_Interval
<1>2. IsFiniteSet(U)
  <2> HIDE DEF D, f
  <2> QED BY <1>1, ImageIsFinite
<1>3. \A T \in U : IsFiniteSet(T)
  BY ElementsAreFinite DEF HasRequests
<1>4. IsFiniteSet(all)
  <2> HIDE DEF U
  <2> QED BY <1>2, <1>3, FS_UNION
<1>5. IsFiniteSet({g[r] : r \in all})
  <2> HIDE DEF all, g
  <2> QED BY <1>4, ImageIsFinite
<1>6. {g[r] : r \in all} = AllTypes(rounds)
  BY DEF AllTypes
<1> QED BY <1>1, <1>5, <1>6

\* Requests of one type more.
LEMMA OneTypeMore ==
    ASSUME NEW rounds, HasRequests(rounds), NEW i \in DOMAIN rounds, NEW U, NEW t, t \notin U
    PROVE  /\ Cardinality(OfTypes(rounds, i, U)) \in Nat /\ Cardinality(OfTypes(rounds, i, {t})) \in Nat
           /\ Cardinality(OfTypes(rounds, i, U \cup {t}))
                = Cardinality(OfTypes(rounds, i, U)) + Cardinality(OfTypes(rounds, i, {t}))
<1> DEFINE A == OfTypes(rounds, i, U)
           B == OfTypes(rounds, i, {t})
           D == DOMAIN rounds[i]
<1>1. IsFiniteSet(D)
  <2> DEFINE n == Len(rounds[i])
  <2>1. D = 1..n /\ n \in Nat
    BY DEF HasRequests
  <2> HIDE DEF D, n
  <2> QED BY <2>1, FS_Interval
<1>2. A \in SUBSET D /\ B \in SUBSET D /\ A \cap B = {} /\ OfTypes(rounds, i, U \cup {t}) = A \cup B
  BY DEF OfTypes
<1> HIDE DEF A, B, D
<1>3. IsFiniteSet(A) /\ IsFiniteSet(B)
  BY <1>1, <1>2, FS_Subset
<1>4. Cardinality(A) \in Nat /\ Cardinality(B) \in Nat
  BY <1>3, FS_CardinalityType
<1>5. Cardinality(A \cup B) = Cardinality(A) + Cardinality(B)
  <2>1. Cardinality(A \cup B) = Cardinality(A) + Cardinality(B) - Cardinality(A \cap B)
    BY <1>3, FS_Union
  <2>2. Cardinality(A \cap B) = 0
    BY <1>2, FS_EmptySet
  <2> QED BY <1>4, <2>1, <2>2
<1> QED BY <1>2, <1>4, <1>5 DEF A, B

\* The appearances of types, summed up, are the requests that count in the rounds.
LEMMA AppearancesAre ==
    ASSUME NEW rounds, HasRequests(rounds)
    PROVE  SumFunction([t \in AllTypes(rounds) |-> Appearances(rounds, rounds, t)])
             = SumFunction(CountsPerRound(rounds, AllTypes(rounds)))
<1> DEFINE T == AllTypes(rounds)
           D == DOMAIN rounds
           f == [t \in T |-> Appearances(rounds, rounds, t)]
           count(U) == CountsPerRound(rounds, U)
<1>1. IsFiniteSet(D) /\ IsFiniteSet(T)
  BY TypesAreFinite
<1>2. ASSUME NEW U, NEW t, t \notin U
      PROVE  /\ IntegersOn(count(U), D) /\ IntegersOn(count({t}), D)
             /\ \A i \in D : count(U \cup {t})[i] = count(U)[i] + count({t})[i]
  <2> SUFFICES ASSUME NEW i \in D
               PROVE  /\ count(U)[i] \in Int /\ count({t})[i] \in Int
                      /\ count(U \cup {t})[i] = count(U)[i] + count({t})[i]
    BY DEF IntegersOn
  <2>1. /\ Cardinality(OfTypes(rounds, i, U)) \in Nat /\ Cardinality(OfTypes(rounds, i, {t})) \in Nat
        /\ Cardinality(OfTypes(rounds, i, U \cup {t}))
             = Cardinality(OfTypes(rounds, i, U)) + Cardinality(OfTypes(rounds, i, {t}))
    BY <1>2, OneTypeMore
  <2>2. \A V : count(V)[i] = Cardinality(OfTypes(rounds, i, V))
    BY DEF CountsPerRound
  <2> HIDE DEF count
  <2> QED BY <2>1, <2>2
<1>3. \A U : DOMAIN count(U) = D
  BY DEF CountsPerRound
<1>4. ASSUME NEW t \in T PROVE f[t] = SumFunctionOnSet(count({t}), D)
  <2>1. count({t}) = [i \in D |-> Cardinality({k \in DOMAIN rounds[i] :
                        /\ rounds[i][k].confirmed /\ ~rounds[i][k].duplicate
                        /\ rounds[i][k].type = t})]
    BY DEF CountsPerRound, OfTypes
  <2>2. f[t] = SumFunction(count({t}))
    BY <2>1 DEF Appearances
  <2> QED BY <1>3, <2>2 DEF SumFunction
<1> HIDE DEF D, T, f, count
<1> DEFINE P == {U \in SUBSET T : SumFunctionOnSet(f, U) = SumFunctionOnSet(count(U), D)}
<1>5. ASSUME NEW U, NEW t \in T, t \notin U
      PROVE  /\ SumFunctionOnSet(count(U), D) \in Int /\ f[t] \in Int
             /\ SumFunctionOnSet(count(U \cup {t}), D) = SumFunctionOnSet(count(U), D) + f[t]
  <2> DEFINE a == count(U)
             b == count({t})
             c == count(U \cup {t})
  <2>1. IntegersOn(a, D) /\ IntegersOn(b, D) /\ \A i \in D : c[i] = a[i] + b[i]
    BY <1>2, <1>5
  <2> HIDE DEF a, b, c
  <2>2. /\ SumFunctionOnSet(a, D) \in Int /\ SumFunctionOnSet(b, D) \in Int
        /\ SumFunctionOnSet(c, D) = SumFunctionOnSet(a, D) + SumFunctionOnSet(b, D)
    BY <1>1, <2>1, SumPlus
  <2>3. f[t] = SumFunctionOnSet(b, D)
    BY <1>4 DEF b
  <2> QED BY <2>2, <2>3 DEF a, c
<1>6. IntegersOn(f, T)
  <2> SUFFICES ASSUME NEW t \in T PROVE f[t] \in Int
    BY DEF IntegersOn
  <2>1. t \notin {}
    OBVIOUS
  <2> QED BY <1>5, <2>1
<1>7. {} \in P
  <2>1. \A i \in D : count({})[i] = 0
    <3>1. \A i : OfTypes(rounds, i, {}) = {}
      BY DEF OfTypes
    <3> QED BY <3>1, FS_EmptySet DEF count, CountsPerRound, D
  <2> DEFINE a == count({})
  <2>2. \A i \in D : a[i] \in Int /\ a[i] = 0 + a[i]
    BY <2>1
  <2> HIDE DEF a
  <2>3. SumFunctionOnSet(a, D) = 0
    <3>1. IntegersOn(a, D) /\ \A i \in D : a[i] = a[i] + a[i]
      BY <2>1, <2>2 DEF IntegersOn, a
    <3>2. SumFunctionOnSet(a, D) \in Int /\ SumFunctionOnSet(a, D) = SumFunctionOnSet(a, D) + SumFunctionOnSet(a, D)
      BY ONLY <1>1, <3>1, SumPlus
    <3> DEFINE x == SumFunctionOnSet(a, D)
    <3>3. x \in Int /\ x = x + x
      BY <3>2
    <3> HIDE DEF x
    <3>4. x = 0
      BY <3>3
    <3> QED BY <3>4 DEF x
  <2>4. SumFunctionOnSet(f, {}) = 0
    BY SumNothing
  <2> QED BY <2>3, <2>4 DEF a
<1>8. ASSUME NEW U \in SUBSET T, NEW t \in T, t \notin U, U \in P
      PROVE  U \cup {t} \in P
  <2> DEFINE V == U \cup {t}
  <2>1. IsFiniteSet(V) /\ IntegersOn(f, V) /\ t \in V /\ V \ {t} = U /\ V \in SUBSET T
    <3>1. V \in SUBSET T /\ t \in V /\ V \ {t} = U
      BY <1>8
    <3>2. IsFiniteSet(V)
      BY <1>1, <3>1, FS_Subset
    <3> QED BY <1>6, <3>1, <3>2 DEF IntegersOn
  <2> HIDE DEF V
  <2>2. /\ f[t] \in Int /\ SumFunctionOnSet(f, U) \in Int
        /\ SumFunctionOnSet(f, V) = f[t] + SumFunctionOnSet(f, U)
    BY <2>1, SumOne
  <2>3. SumFunctionOnSet(count(V), D) = SumFunctionOnSet(count(U), D) + f[t]
    BY <1>5, <1>8 DEF V
  <2>4. SumFunctionOnSet(f, U) = SumFunctionOnSet(count(U), D)
    BY <1>8
  <2>5. SumFunctionOnSet(f, V) = SumFunctionOnSet(count(V), D)
    BY <2>2, <2>3, <2>4
  <2> QED BY <2>1, <2>5 DEF V
<1>9. T \in P
  <2> HIDE DEF P
  <2> QED BY <1>1, <1>7, <1>8, ElementByElement
<1>10. SumFunctionOnSet(f, T) = SumFunctionOnSet(count(T), D)
  BY <1>9
<1>11. DOMAIN f = T /\ DOMAIN count(T) = D
  BY <1>3 DEF f
<1>12. SumFunction(f) = SumFunction(count(T))
  BY <1>10, <1>11 DEF SumFunction
<1> QED BY <1>12 DEF f, count, T

\* An input of one of the calculations is one of the inputs.
LEMMA OffersAreMade ==
    InputInv => /\ input.subject = "offers" => MadeOffers(input)
                /\ input.subject = "sides" => MadeSides(input)
BY OffersAssumption DEF InputInv, NoInput

\* The offers of an epoch have feeds to choose from.
LEMMA OfferedAre ==
    ASSUME MadeOffers(input)
    PROVE  /\ HasFeeds(input.inflation) /\ HasAmounts(input.community)
           /\ OfferedFeeds \in Seq(ToSet(OfferedFeeds)) /\ OfferedFeeds # <<>>
<1> DEFINE inflation == input.inflation
           community == input.community
           n == Len(inflation)
           lists == [i \in DOMAIN inflation |-> inflation[i].feeds]
<1>1. /\ inflation \in Seq(ToSet(inflation)) /\ community \in Seq(ToSet(community))
      /\ \A o \in ToSet(inflation) : o.amount \in Nat /\ o.feeds \in Seq(ToSet(o.feeds)) /\ o.feeds # <<>>
      /\ \A o \in ToSet(community) : o.amount \in Nat
      /\ inflation # <<>> \/ community # <<>>
  BY DEF MadeOffers
<1> HIDE DEF inflation, community
<1>2. n \in Nat /\ DOMAIN inflation = 1..n /\ \A i \in 1..n : inflation[i] \in ToSet(inflation)
  BY <1>1
<1>3. lists = [i \in 1..n |-> lists[i]] /\ \A i \in 1..n : lists[i] = inflation[i].feeds
  BY <1>2
<1> DEFINE Q == ToSet(lists)
<1>4. \A i \in 1..n : lists[i] \in Q
  BY <1>2 DEF ToSet
<1>5. \A l \in Q : \E i \in 1..n : l = inflation[i].feeds
  BY <1>2, <1>3 DEF ToSet
<1>6. n > 0 => lists # <<>>
  <2>1. n > 0 => 1 \in DOMAIN lists
    BY <1>2
  <2>2. 1 \notin DOMAIN <<>>
    OBVIOUS
  <2> HIDE DEF lists
  <2> QED BY <2>1, <2>2
<1> HIDE DEF lists, n, Q
<1>7. lists \in Seq(Q)
  BY ONLY <1>2, <1>3, <1>4
<1>8. \A l \in Q : l \in Seq(ToSet(l)) /\ l # <<>>
  BY <1>1, <1>2, <1>5
<1>9. lists # <<>> \/ community # <<>>
  <2>1. inflation # <<>> => n > 0
    BY <1>1, <1>2 DEF n
  <2> QED BY <1>1, <1>6, <2>1
<1>10. LET feeds == FeedSequence(lists, community)
       IN  feeds \in Seq(ToSet(feeds)) /\ feeds # <<>>
  BY <1>1, <1>7, <1>8, <1>9, FeedSequenceIs DEF Q
<1>11. OfferedFeeds = FeedSequence(lists, community)
  BY DEF OfferedFeeds, lists, inflation, community
<1>12. HasFeeds(inflation) /\ HasAmounts(community)
  BY <1>1 DEF HasFeeds, HasAmounts
<1> QED BY <1>10, <1>11, <1>12 DEF inflation, community

\* The offers of the rounds of an epoch are complete, made at once or fixed later.
LEMMA RoundOffersAdd ==
    InputInv => EpochOffersComplete /\ FixingCommutes
<1> SUFFICES ASSUME InputInv, input.subject = "offers"
             PROVE  EpochOffersComplete /\ FixingCommutes
  BY DEF EpochOffersComplete, FixingCommutes
<1> DEFINE inflation == input.inflation
           community == input.community
           randoms == input.randoms
           n == Len(randoms)
           X == Nat \cup {Empty}
           feeds == OfferedFeeds
           offers == GranulatedOffers(inflation, community, feeds, randoms)
           total == Total(inflation) + Total(community)
<1>1. MadeOffers(input)
  BY OffersAreMade
<1>2. /\ HasFeeds(inflation) /\ HasAmounts(community)
      /\ feeds \in Seq(ToSet(feeds)) /\ feeds # <<>>
  BY <1>1, OfferedAre
<1>3. randoms \in Seq(X) /\ randoms # <<>>
  BY <1>1 DEF MadeOffers
<1> HIDE DEF inflation, community, randoms, X, feeds
<1>4. OffersOf(offers, total, randoms)
  BY <1>2, <1>3, GranulatedAre
<1>5. total \in Nat
  <2>1. HasAmounts(inflation)
    BY <1>2 DEF HasFeeds
  <2>2. Total(inflation) \in Nat /\ Total(community) \in Nat
    BY <1>2, <2>1, TotalIs
  <2> QED BY <2>2
<1>6. n \in Nat \ {0} /\ DOMAIN randoms = 1..n
  BY <1>3
<1> HIDE DEF offers, total, n
<1>7. /\ offers \in Seq(ToSet(offers)) /\ Len(offers) = n /\ DOMAIN offers = 1..n
      /\ \A i \in 1..n : offers[i].amount = Part(total, n, i) /\ offers[i].burn = (randoms[i] = Empty)
  BY <1>4, <1>6 DEF OffersOf, n
<1>8. Total(offers) = total
  BY <1>5, <1>6, <1>7, TotalOfParts
<1>9. \A i, j \in DOMAIN offers : offers[i].amount <= offers[j].amount + 1
  <2> SUFFICES ASSUME NEW i \in 1..n, NEW j \in 1..n
               PROVE  offers[i].amount <= offers[j].amount + 1
    BY <1>7
  <2>1. Part(total, n, i) <= Part(total, n, j) + 1
    BY <1>5, <1>6, PartsAreClose
  <2> QED BY <1>7, <2>1
<1>10. \A i \in DOMAIN offers : offers[i].burn <=> randoms[i] = Empty
  BY <1>7
<1>11. EpochOffersComplete
  BY <1>8, <1>9, <1>10 DEF EpochOffersComplete, offers, total, inflation, community, randoms, feeds
<1>12. FixOffers(OfferTemplates(inflation, community, feeds, Len(randoms)), feeds, randoms) = offers
  BY <1>2, <1>3, FixedAre DEF X, offers
<1>13. FixingCommutes
  BY <1>12 DEF FixingCommutes, offers, inflation, community, randoms, feeds
<1> QED BY <1>11, <1>13

\* The requests of a round with their marks, and what counts of them.
DataOf(i) == [k \in DOMAIN input.requests[i] |-> input.requests[i][k].data]

LEMMA MarkedAre ==
    ASSUME MadeSides(input), NEW i \in DOMAIN input.requests
    PROVE  /\ Marked(i) \in Seq(ToSet(Marked(i))) /\ HasFees(Marked(i))
           /\ \A U : (\A k \in DOMAIN Marked(i) : Marked(i)[k].type \in U) =>
                 Cardinality({k \in DOMAIN Marked(i) :
                     /\ Marked(i)[k].confirmed /\ ~Marked(i)[k].duplicate /\ Marked(i)[k].type \in U})
                   = IF input.bits[i] = Empty THEN 0 ELSE Cardinality(input.bits[i])
<1> DEFINE requests == input.requests[i]
           bits == input.bits[i]
           n == Len(requests)
           data == DataOf(i)
           marks == MarkRequests(data, bits)
           marked == Marked(i)
           X == ToSet(data)
           R == ToSet(marked)
<1>1. /\ requests \in Seq(ToSet(requests)) /\ \A r \in ToSet(requests) : r.fee \in Nat
      /\ bits = Empty \/ bits \in SUBSET Nat
      /\ ~BitVoteThrows(data, bits)
  BY DEF MadeSides, DataOf
<1>2. data = [k \in DOMAIN requests |-> requests[k].data]
  BY DEF DataOf
<1>3. marked = [k \in DOMAIN requests |->
                  [type |-> requests[k].type, fee |-> requests[k].fee,
                   confirmed |-> marks[k].confirmed, duplicate |-> marks[k].duplicate]]
  BY DEF Marked, DataOf
<1>4. /\ DOMAIN marks = DOMAIN data
      /\ \A k \in DOMAIN data : marks[k].confirmed \in BOOLEAN
  BY DEF MarkRequests
<1>5. CountedOnce(data, bits) = {k \in DOMAIN data : marks[k].confirmed /\ ~marks[k].duplicate}
  BY DEF CountedOnce
<1> HIDE DEF requests, bits, data, marks, marked
<1>6. n \in Nat /\ DOMAIN requests = 1..n /\ \A k \in 1..n : requests[k] \in ToSet(requests)
  BY <1>1
<1>7. data \in Seq(X) /\ DOMAIN data = 1..n
  <2>1. DOMAIN data = 1..n /\ data = [k \in 1..n |-> data[k]]
    BY <1>2, <1>6
  <2>2. \A k \in 1..n : data[k] \in X
    BY <2>1 DEF ToSet
  <2> HIDE DEF X, n
  <2> QED BY ONLY <1>6, <2>1, <2>2
<1>8. marked \in Seq(R) /\ DOMAIN marked = 1..n
  <2>1. DOMAIN marked = 1..n /\ marked = [k \in 1..n |-> marked[k]]
    BY <1>3, <1>6
  <2>2. \A k \in 1..n : marked[k] \in R
    BY <2>1 DEF ToSet
  <2> HIDE DEF R, n
  <2> QED BY ONLY <1>6, <2>1, <2>2
<1>9. \A k \in 1..n : /\ marked[k].fee = requests[k].fee
                      /\ marked[k].confirmed = marks[k].confirmed
                      /\ marked[k].duplicate = marks[k].duplicate
  BY <1>3, <1>6
<1>10. HasFees(marked)
  <2>1. \A k \in 1..n : marked[k].fee \in Nat /\ marked[k].confirmed \in BOOLEAN
    BY <1>1, <1>4, <1>6, <1>7, <1>9
  <2> QED BY <1>8, <2>1 DEF HasFees
<1>11. ASSUME NEW U, \A k \in DOMAIN marked : marked[k].type \in U
       PROVE  Cardinality({k \in DOMAIN marked :
                     /\ marked[k].confirmed /\ ~marked[k].duplicate /\ marked[k].type \in U})
                = IF bits = Empty THEN 0 ELSE Cardinality(bits)
  <2>1. {k \in DOMAIN marked : /\ marked[k].confirmed /\ ~marked[k].duplicate /\ marked[k].type \in U}
          = CountedOnce(data, bits)
    BY <1>5, <1>7, <1>8, <1>9, <1>11
  <2>2. Cardinality(CountedOnce(data, bits)) = IF bits = Empty THEN 0 ELSE Cardinality(bits)
    BY <1>1, <1>7, CountedAre
  <2> QED BY <2>1, <2>2
<1>12. \A U : (\A k \in DOMAIN marked : marked[k].type \in U) =>
                 Cardinality({k \in DOMAIN marked :
                     /\ marked[k].confirmed /\ ~marked[k].duplicate /\ marked[k].type \in U})
                   = IF bits = Empty THEN 0 ELSE Cardinality(bits)
  BY <1>11
<1> QED BY <1>8, <1>10, <1>12 DEF marked, bits

\* The rounds of requests with their marks.
Rounds == [i \in DOMAIN input.requests |-> Marked(i)]

LEMMA RoundsAre ==
    ASSUME MadeSides(input)
    PROVE  /\ HasRequests(Rounds) /\ Rounds # <<>> /\ DOMAIN Rounds = DOMAIN input.requests
           /\ \A i \in DOMAIN Rounds : Rounds[i] = Marked(i) /\ HasFees(Rounds[i])
<1> DEFINE requests == input.requests
           n == Len(requests)
           rounds == Rounds
           R == ToSet(rounds)
<1>1. requests \in Seq(ToSet(requests)) /\ requests # <<>>
  BY DEF MadeSides
<1>2. rounds = [i \in DOMAIN requests |-> Marked(i)]
  BY DEF Rounds
<1>3. \A i \in DOMAIN requests : Marked(i) \in Seq(ToSet(Marked(i))) /\ HasFees(Marked(i))
  BY MarkedAre
<1> HIDE DEF requests, rounds
<1>4. n \in Nat \ {0} /\ DOMAIN requests = 1..n
  BY <1>1
<1>5. DOMAIN rounds = 1..n /\ rounds = [i \in 1..n |-> rounds[i]] /\ \A i \in 1..n : rounds[i] = Marked(i)
  BY <1>2, <1>4
<1>6. \A i \in 1..n : rounds[i] \in R
  BY <1>5 DEF ToSet
<1>7. rounds \in Seq(R)
  <2> HIDE DEF R, n
  <2> QED BY ONLY <1>4, <1>5, <1>6
<1>8. rounds # <<>>
  BY <1>4, <1>5
<1>9. \A i \in DOMAIN rounds : rounds[i] = Marked(i) /\ rounds[i] \in Seq(ToSet(rounds[i])) /\ HasFees(rounds[i])
  BY <1>3, <1>4, <1>5
<1> QED BY <1>4, <1>5, <1>7, <1>8, <1>9 DEF HasRequests, rounds, requests

\* The attestation types with their appearances.
TypesShared ==
    [type \in DOMAIN input.configurations |->
        [share |-> input.configurations[type].share,
         minRequests |-> input.configurations[type].minRequests,
         appearances |-> Appearances(Rounds, Rounds, type)]]

LEMMA TypesSharedAre ==
    ASSUME MadeSides(input)
    PROVE  HasShares(TypesShared)
<1> DEFINE configurations == input.configurations
           n == Len(configurations)
           typed == TypesShared
           R == ToSet(typed)
<1>1. /\ configurations \in Seq(ToSet(configurations))
      /\ \A c \in ToSet(configurations) : c.share \in Nat
      /\ \E c \in ToSet(configurations) : c.share > 0
  BY DEF MadeSides
<1>2. DOMAIN typed = DOMAIN configurations /\ typed = [i \in DOMAIN configurations |-> typed[i]]
  BY DEF TypesShared
<1>3. \A i \in DOMAIN configurations : typed[i].share = configurations[i].share
  BY DEF TypesShared
<1> HIDE DEF configurations, typed
<1>4. n \in Nat /\ DOMAIN configurations = 1..n
  BY <1>1
<1>5. DOMAIN typed = 1..n /\ \A i \in 1..n : typed[i] \in R
  BY <1>2, <1>4 DEF ToSet
<1>6. typed \in Seq(R)
  <2>1. typed = [i \in 1..n |-> typed[i]]
    BY <1>2, <1>4
  <2> HIDE DEF R, n
  <2> QED BY ONLY <1>4, <1>5, <2>1
<1>7. \A c \in ToSet(typed) : c.share \in Nat
  BY <1>1, <1>3, <1>4, <1>5 DEF ToSet
<1>8. \E c \in ToSet(typed) : c.share > 0
  <2>1. PICK i \in 1..n : configurations[i].share > 0
    BY <1>1, <1>4 DEF ToSet
  <2> QED BY <1>3, <1>4, <1>5, <2>1
<1> QED BY <1>6, <1>7, <1>8 DEF HasShares, typed

\* The offers for fast updates and the FDC are complete.
LEMMA SideOffersAdd == InputInv => SideOffersComplete
<1> SUFFICES ASSUME InputInv, input.subject = "sides"
             PROVE  SideOffersComplete
  BY DEF SideOffersComplete
<1> DEFINE a == input.amount
           incentives == input.incentives
           randoms == input.randoms
           fees == FlattenSeq([i \in DOMAIN Rounds |-> [k \in DOMAIN Rounds[i] |-> Rounds[i][k].fee]])
<1>1. MadeSides(input)
  BY OffersAreMade
<1>2. a \in Nat /\ incentives \in Seq(Nat) /\ randoms \in Seq(ToSet(randoms)) /\ randoms # <<>>
  BY <1>1 DEF MadeSides
<1> HIDE DEF a, incentives, randoms
<1>3. Total(FastUpdateOffers(a, incentives, input.updateFeeds, randoms)) = a + SumFunction(incentives)
  BY <1>2, FastUpdatesTotal
<1>4. HasShares(TypesShared)
  BY <1>1, TypesSharedAre
<1>5. Rounds \in Seq(ToSet(Rounds)) /\ Rounds # <<>> /\ \A i \in DOMAIN Rounds : HasFees(Rounds[i])
  BY <1>1, RoundsAre DEF HasRequests
<1>6. Total(FlattenSeq(FdcOffers(a, TypesShared, Rounds))) = a + SumFunction(FlattenSeq(FeesOfRounds(Rounds)))
  BY <1>2, <1>4, <1>5, FdcTotal
<1>7. fees = FlattenSeq(FeesOfRounds(Rounds))
  BY DEF FeesOfRounds, FeeList
<1> HIDE DEF fees
<1>8. Total(FlattenSeq(FdcOffers(a, TypesShared, Rounds))) = a + SumFunction(fees)
  BY <1>6, <1>7
<1> QED BY <1>3, <1>8 DEF SideOffersComplete, TypesShared, Rounds, fees, a, incentives, randoms

\* Every bit of the bit votes counts once.
LEMMA BitsCountOnce == InputInv => ConfirmedOnce
<1> SUFFICES ASSUME InputInv, input.subject = "sides"
             PROVE  ConfirmedOnce
  BY DEF ConfirmedOnce
<1> DEFINE bitsOf(i) == IF input.bits[i] = Empty THEN 0 ELSE Cardinality(input.bits[i])
           T == AllTypes(Rounds)
           sum == SumFunction([i \in DOMAIN Rounds |-> bitsOf(i)])
<1>1. MadeSides(input)
  BY OffersAreMade
<1>2. /\ HasRequests(Rounds) /\ DOMAIN Rounds = DOMAIN input.requests
      /\ \A i \in DOMAIN Rounds : Rounds[i] = Marked(i)
  BY <1>1, RoundsAre
<1>3. SumFunction([t \in T |-> Appearances(Rounds, Rounds, t)]) = SumFunction(CountsPerRound(Rounds, T))
  BY <1>2, AppearancesAre
<1>4. ASSUME NEW i \in DOMAIN Rounds PROVE Cardinality(OfTypes(Rounds, i, T)) = bitsOf(i)
  <2>1. \A k \in DOMAIN Marked(i) : Marked(i)[k].type \in T
    <3>1. \A k \in DOMAIN Rounds[i] : Rounds[i][k].type \in T
      BY DEF AllTypes, ToSet
    <3> QED BY <1>2, <3>1
  <2>2. OfTypes(Rounds, i, T)
          = {k \in DOMAIN Marked(i) :
               /\ Marked(i)[k].confirmed /\ ~Marked(i)[k].duplicate /\ Marked(i)[k].type \in T}
    BY <1>2 DEF OfTypes
  <2>3. \A U : (\A k \in DOMAIN Marked(i) : Marked(i)[k].type \in U) =>
           Cardinality({k \in DOMAIN Marked(i) :
               /\ Marked(i)[k].confirmed /\ ~Marked(i)[k].duplicate /\ Marked(i)[k].type \in U}) = bitsOf(i)
    BY <1>1, <1>2, MarkedAre
  <2> HIDE DEF T, bitsOf
  <2> QED BY <2>1, <2>2, <2>3
<1> HIDE DEF T, bitsOf
<1>5. CountsPerRound(Rounds, T) = [i \in DOMAIN Rounds |-> bitsOf(i)]
  BY <1>4 DEF CountsPerRound
<1>6. SumFunction([t \in T |-> Appearances(Rounds, Rounds, t)]) = sum
  BY <1>3, <1>5
<1> QED BY <1>6 DEF ConfirmedOnce, Rounds, AllTypes, T, sum, bitsOf

(***************************************************************************)
(* From the offers of an epoch to those of its rounds nothing is lost or   *)
(* made up: the rounds' offers add up to what was offered, differ by one   *)
(* at most and are burnt where there is no random number; fixed later they *)
(* are the offers made at once; those for fast updates and the FDC hold    *)
(* all inflation, incentives and fees; and one request counts for every    *)
(* bit of the bit votes, however often it was made.  (reward-offers.ts,    *)
(* uniqueRequestsIndices, calculateAttestationTypeAppearances)             *)
(***************************************************************************)
THEOREM OffersAreConserved == CalcSpec => []OffersConserved
<1>1. InputInv => OffersConserved
  BY RoundOffersAdd, SideOffersAdd, BitsCountOnce DEF OffersConserved
<1> QED BY <1>1, InputInvariant, PTL
=============================================================================
