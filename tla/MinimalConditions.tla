-------------------------- MODULE MinimalConditions --------------------------
(***************************************************************************)
(* The minimal conditions of participation (minimal-conditions.ts): what a *)
(* data provider must have done in a reward epoch, the passes it earns or  *)
(* uses up, and the claims of those without passes left, which are burnt.  *)
(*                                                                         *)
(* Voters are 1..n in the order of the signing policy.  An epoch is        *)
(*   weights   signing weights by voter                                    *)
(*   nodes     nodes[v]: a list of [stake, selfBond, uptime]               *)
(*   rounds    a list of [updates, feeds, signing, finalization, offense]: *)
(*             the voters of the fast updates or Empty, for each feed its  *)
(*             median and the voters' values, and the voters with a FEE    *)
(*             claim of the three FDC kinds                                *)
(* Names and addresses of providers, which are only written down, are left *)
(* out.                                                                    *)
(***************************************************************************)
EXTENDS RewardShares

CONSTANTS
    Availability, Closeness, UpdatesShare, LowWeight,   \* in parts of TotalPpm
    UptimeShare, FdcShare,
    MinSelfBond, DesiredSelfBond, DesiredStake,
    MaxPasses,
    StakingIncluded    \* is it the Flare network

ASSUME ConditionsAssumption ==
    /\ {Availability, UpdatesShare, UptimeShare, FdcShare} \subseteq 0..TotalPpm
    /\ {Closeness, LowWeight, MinSelfBond, DesiredSelfBond, DesiredStake, MaxPasses} \subseteq Nat
    /\ MinSelfBond <= DesiredSelfBond

\* An epoch as its files describe it, with so many feeds in every round.
IsEpoch(epoch, feeds) ==
    /\ epoch.weights \in Seq(Nat) /\ SumFunction(epoch.weights) > 0
    /\ \A v \in DOMAIN epoch.weights :
          epoch.nodes[v] \in Seq([stake : Nat, selfBond : Nat, uptime : BOOLEAN])
    /\ epoch.rounds \in Seq(ToSet(epoch.rounds))
    /\ \A i \in DOMAIN epoch.rounds :
          LET round == epoch.rounds[i]
          IN  /\ round.updates = Empty \/ round.updates \in Seq(DOMAIN epoch.weights)
              /\ DOMAIN round.feeds = 1..feeds
              /\ \A k \in 1..feeds : round.feeds[k].median \in Int \cup {Empty}

-----------------------------------------------------------------------------
\* Mutant: the borders of the band are left out.
HitsStrictly(feed, v) ==
    LET delta == Quot(feed.median * Closeness, TotalPpm)
        value == IF feed.values[v] = Empty THEN 0 ELSE feed.values[v]
    IN  /\ feed.median # Empty
        /\ value > feed.median - delta /\ value < feed.median + delta

\* An empty value has the number 0, which counts as any other.
Hits(feed, v) ==
    LET delta == Quot(feed.median * Closeness, TotalPpm)
        value == IF feed.values[v] = Empty THEN 0 ELSE feed.values[v]
    IN  /\ feed.median # Empty
        /\ value >= feed.median - delta /\ value <= feed.median + delta

\* The rounds that are looked at, for all conditions: those with fast updates.
Considered(epoch) == Select(epoch.rounds, LAMBDA r : r.updates # Empty)

CountRounds(epoch, Counts(_)) == Len(Select(Considered(epoch), Counts))

\* FTSO Scaling: hits among all feeds of all rounds, skipped ones included.
ScalingMet(epoch, v, feeds) ==
    LET rounds == Considered(epoch)
        hits == SumFunction([i \in DOMAIN rounds |->
                    Cardinality({k \in DOMAIN rounds[i].feeds : Hits(rounds[i].feeds[k], v)})])
    IN  TotalPpm * hits >= Availability * Len(epoch.rounds) * feeds

\* Fast updates: updates compared with those expected of the voter's weight.
\*
\* Mutant: exactly the updates expected are not enough.
UpdatesMetStrictly(epoch, v) ==
    LET weight == SumFunction(epoch.weights)
        all == FlattenSeq([i \in DOMAIN Considered(epoch) |-> Considered(epoch)[i].updates])
        updates == Len(Select(all, LAMBDA u : u = v))
        expected == (epoch.weights[v] * UpdatesShare) \div weight
    IN  \/ (epoch.weights[v] * TotalPpm) \div weight < LowWeight
        \/ TotalPpm * updates > expected * Len(all)

UpdatesMet(epoch, v) ==
    LET weight == SumFunction(epoch.weights)
        all == FlattenSeq([i \in DOMAIN Considered(epoch) |-> Considered(epoch)[i].updates])
        updates == Len(Select(all, LAMBDA u : u = v))
        expected == (epoch.weights[v] * UpdatesShare) \div weight
    IN  \/ (epoch.weights[v] * TotalPpm) \div weight < LowWeight
        \/ TotalPpm * updates >= expected * Len(all)

StakeOf(nodes) == SumFunction([k \in DOMAIN nodes |-> nodes[k].stake])
BondOf(nodes) == SumFunction([k \in DOMAIN nodes |-> nodes[k].selfBond])

\* Staking: stake with uptime, and the providers' own bond.
StakingMet(epoch, v) ==
    LET nodes == epoch.nodes[v]
        up == Select(nodes, LAMBDA n : n.uptime)
    IN  ~StakingIncluded \/ (/\ TotalPpm * StakeOf(up) >= UptimeShare * StakeOf(nodes)
                             /\ BondOf(nodes) >= MinSelfBond)

StakingObstructs(epoch, v) ==
    StakingIncluded /\ (\/ BondOf(epoch.nodes[v]) < DesiredSelfBond
                        \/ StakeOf(epoch.nodes[v]) < DesiredStake)

\* FDC: among the rounds with somebody's fee, those with one's own fee and
\* without an offense.
FdcMet(epoch, v) ==
    LET rewarded == CountRounds(epoch, LAMBDA r : r.signing \cup r.finalization # {})
        own == CountRounds(epoch, LAMBDA r : v \in (r.signing \cup r.finalization) \ r.offense)
    IN  TotalPpm * own >= FdcShare * rewarded

-----------------------------------------------------------------------------
\* The four conditions: [scaling, updates, staking, fdc, obstructed].
ConditionsOf(epoch, v, feeds) ==
    [scaling |-> ScalingMet(epoch, v, feeds), updates |-> UpdatesMet(epoch, v),
     staking |-> StakingMet(epoch, v), fdc |-> FdcMet(epoch, v),
     obstructed |-> StakingObstructs(epoch, v)]

Strikes(c) == Cardinality({k \in {"scaling", "updates", "staking", "fdc"} : ~c[k]})

PassEarned(c) == c.scaling /\ c.updates /\ c.staking /\ ~c.obstructed /\ c.fdc

Eligible(held, c) == held - Strikes(c) >= 0

\* newNumberOfPasses of the conditions file ...
NewPasses(held, c) ==
    Min({MaxPasses, Max({held - Strikes(c), 0}) + (IF PassEarned(c) THEN 1 ELSE 0)})

\* ... and what extractNewPasses writes for the next epoch.
\*
\* Mutant: strikes of the eligible are not taken off.
ExtractNewPassesKept(held, c) ==
    Min({MaxPasses, IF PassEarned(c) THEN held + 1
                    ELSE IF Eligible(held, c) THEN held ELSE 0})

ExtractNewPasses(held, c) ==
    Min({MaxPasses, IF PassEarned(c) THEN held + 1 ELSE Max({held - Strikes(c), 0})})

-----------------------------------------------------------------------------
\* updateClaimsForMinimalConditions: all that goes to a provider that is not
\* eligible, its delegators and its nodes is burnt.
ToBurn(ineligible, c) ==
    \/ c.to = BurnAddress
    \/ c.to[1] \in {"identity", "delegation", "node"} /\ c.to[2] \in ineligible

\* Mutant: the burn claim there is already is left as it is.
BurnIneligibleTwice(claims, ineligible) ==
    LET burnt(c) == c.to # BurnAddress /\ ToBurn(ineligible, c)
    IN  <<Claim(BurnAddress, "DIRECT", Amount(Select(claims, burnt)))>>
        \o Select(claims, LAMBDA c : ~burnt(c))

BurnIneligible(claims, ineligible) ==
    LET burnt(c) == ToBurn(ineligible, c)
    IN  <<Claim(BurnAddress, "DIRECT", Amount(Select(claims, burnt)))>>
        \o Select(claims, LAMBDA c : ~burnt(c))

\* The sanity check: two claims of one beneficiary, whatever their types.
BurnIneligibleThrows(claims, ineligible) ==
    LET new == BurnIneligible(claims, ineligible)
    IN  \E i, j \in DOMAIN new : i # j /\ new[i].to = new[j].to

-----------------------------------------------------------------------------
(***************************************************************************)
(* The passes of providers from epoch to epoch.  The files of an epoch     *)
(* list the voters registered for it: who is not registered is forgotten.  *)
(***************************************************************************)
CONSTANTS Providers, MaxEpochs   \* bound: the epochs looked at

VARIABLES epochs,      \* the number of epochs calculated
          passes,      \* the passes file of the last one, by provider
          earned,      \* passes a provider earned so far
          forgiven,    \* strikes of epochs it was rewarded in
          outcome      \* of the last epoch: what the two files say of a provider
passesVars == <<epochs, passes, earned, forgiven, outcome>>

PassesInit ==
    /\ epochs = 0 /\ outcome = <<>>
    /\ passes = <<>>
    /\ earned = [p \in Providers |-> 0] /\ forgiven = [p \in Providers |-> 0]

Held(p) == IF p \in DOMAIN passes THEN passes[p] ELSE 0

NextEpoch(conditions) ==
    LET earns(p) == p \in DOMAIN conditions /\ PassEarned(conditions[p])
        isForgiven(p) == p \in DOMAIN conditions /\ Eligible(Held(p), conditions[p])
    IN  /\ epochs < MaxEpochs
        /\ epochs' = epochs + 1
        /\ passes' = [p \in DOMAIN conditions |-> ExtractNewPasses(Held(p), conditions[p])]
        /\ outcome' = [p \in DOMAIN conditions |-> NewPasses(Held(p), conditions[p])]
        /\ earned' = [p \in Providers |-> earned[p] + (IF earns(p) THEN 1 ELSE 0)]
        /\ forgiven' = [p \in Providers |->
                          forgiven[p] + (IF isForgiven(p) THEN Strikes(conditions[p]) ELSE 0)]

ConditionRecords ==
    [scaling : BOOLEAN, updates : BOOLEAN, staking : BOOLEAN, fdc : BOOLEAN, obstructed : BOOLEAN]

PassesNext ==
    \E registered \in SUBSET Providers : \E c \in [registered -> ConditionRecords] : NextEpoch(c)

-----------------------------------------------------------------------------
(***************************************************************************)
(* A provider is never rewarded in spite of more strikes than it earned    *)
(* passes for: strikes that were forgiven and passes still held are never  *)
(* more than the passes earned, over any epochs and however often it       *)
(* stays away.  (extractNewPasses, calculateMinimalConditions)             *)
(***************************************************************************)
PassesEarned == \A p \in Providers : Held(p) + forgiven[p] <= earned[p]

(***************************************************************************)
(* The conditions file and the passes file, written from two calculations, *)
(* agree on the passes that go to the next epoch.                          *)
(***************************************************************************)
PassFilesAgree == outcome = passes
=============================================================================
