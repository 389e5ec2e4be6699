-------------------------- MODULE RewardRoundFacts --------------------------
(***************************************************************************)
(* Facts about the operators that the claims of a round are made with, for *)
(* lists of any length and any amounts: what folds, sums, picked elements  *)
(* and flattened lists are; that merging keeps amounts and penalties only  *)
(* move them; that every division of an offer pays the offer; that the     *)
(* claims of a round pay its offers; what one more transaction changes;    *)
(* that the offers of the rounds of an epoch add up to what was offered,   *)
(* and which requests a bit vote counts.                                   *)
(***************************************************************************)
EXTENDS RewardRound, RewardOffers, FeedOrdering, NumberFacts

-----------------------------------------------------------------------------
(* Lists *)

\* What is so at the start, and stays so with every step, is so at the end.
LEMMA StepByStep ==
    ASSUME NEW n \in Nat, NEW T, 0 \in T, \A k \in 1..n : k - 1 \in T => k \in T
    PROVE  \A k \in 0..n : k \in T
<1> DEFINE Bad == {k \in 0..n : k \notin T}
<1>1. Bad \in SUBSET Nat
  OBVIOUS
<1>2. ASSUME NEW k \in Bad, \A m \in Bad : k <= m
      PROVE  FALSE
  <2>1. k \in 1..n /\ k - 1 \in 0..n
    OBVIOUS
  <2>2. k - 1 \in Bad => FALSE
    <3> SUFFICES ASSUME k - 1 \in Bad PROVE FALSE
      OBVIOUS
    <3>1. k <= k - 1
      BY <1>2
    <3> QED BY <2>1, <3>1
  <2> QED BY <2>1, <2>2
<1>3. Bad = {}
  <2> HIDE DEF Bad
  <2> QED BY <1>1, <1>2, LeastNatural
<1> QED BY <1>3

\* Without its last element an interval is the one before.
LEMMA IntervalStep ==
    ASSUME NEW n \in Nat \ {0}
    PROVE  /\ (1..n) \ {n} = 1..(n - 1) /\ n \in 1..n /\ n - 1 \in Nat
           /\ IsFiniteSet(1..n) /\ 1..n # {} /\ 1..(n - 1) \in SUBSET (1..n)
<1>1. IsFiniteSet(1..n)
  BY FS_Interval
<1>2. /\ (1..n) \ {n} = 1..(n - 1) /\ n \in 1..n /\ n - 1 \in Nat
      /\ 1..n # {} /\ 1..(n - 1) \in SUBSET (1..n)
  OBVIOUS
<1> QED BY <1>1, <1>2

\* The last number of an interval is its largest.
LEMMA MaxOfInterval ==
    ASSUME NEW n \in Nat \ {0}
    PROVE  Max(1..n) = n
<1>1. 1..n \in SUBSET Nat /\ 1..n # {} /\ \A m \in 1..n : m <= n
  BY IntervalStep
<1>2. Max(1..n) \in 1..n /\ \A m \in 1..n : m <= Max(1..n)
  BY <1>1, MaxOfNaturals
<1> QED BY <1>2

\* A sum over a list, up to its last element.
LEMMA SumStep ==
    ASSUME NEW n \in Nat, NEW f, IntegersOn(f, 1..n)
    PROVE  /\ SumFunctionOnSet(f, 1..n) \in Int
           /\ n = 0 => SumFunctionOnSet(f, 1..n) = 0
           /\ n # 0 => /\ f[n] \in Int
                       /\ SumFunctionOnSet(f, 1..n) = SumFunctionOnSet(f, 1..(n - 1)) + f[n]
                       /\ SumFunctionOnSet(f, 1..(n - 1)) \in Int
<1>1. IsFiniteSet(1..n) /\ \A x \in 1..n : f[x] \in Int
  BY FS_Interval DEF IntegersOn
<1>2. SumFunctionOnSet(f, 1..n) \in Int /\ (1..n = {} => SumFunctionOnSet(f, 1..n) = 0)
  BY <1>1, SumTake
<1>3. ASSUME n # 0
      PROVE  /\ f[n] \in Int /\ SumFunctionOnSet(f, 1..(n - 1)) \in Int
             /\ SumFunctionOnSet(f, 1..n) = SumFunctionOnSet(f, 1..(n - 1)) + f[n]
  <2>1. n \in 1..n /\ (1..n) \ {n} = 1..(n - 1)
    BY <1>3, IntervalStep
  <2> QED BY <1>1, <2>1, SumOne
<1>4. n = 0 => 1..n = {}
  OBVIOUS
<1> QED BY <1>2, <1>3, <1>4

\* Partial sums.
LEMMA SumPartial ==
    ASSUME NEW n \in Nat, NEW f, IntegersOn(f, 1..n), NEW k \in 1..n
    PROVE  /\ SumFunctionOnSet(f, 1..k) \in Int /\ f[k] \in Int
           /\ SumFunctionOnSet(f, 1..(k - 1)) \in Int
           /\ SumFunctionOnSet(f, 1..k) = SumFunctionOnSet(f, 1..(k - 1)) + f[k]
<1>1. k \in Nat /\ k # 0 /\ IntegersOn(f, 1..k)
  BY DEF IntegersOn
<1> QED BY <1>1, SumStep

\* The empty sum.
LEMMA SumNothing ==
    ASSUME NEW f
    PROVE  SumFunctionOnSet(f, 1..0) = 0 /\ SumFunctionOnSet(f, {}) = 0
<1>1. IsFiniteSet({}) /\ 1..0 = {}
  BY FS_EmptySet
<1> QED BY <1>1, SumTake

-----------------------------------------------------------------------------
(* Folds: FoldLeft takes the largest index of a set of indices last. *)

\* g folds f over the subsets of 1..n with the operation op.
FoldsUp(g, op, base, f, n) ==
    \A s \in SUBSET (1..n) :
        g[s] = IF s = {} THEN base ELSE op[<<g[s \ {Max(s)}], f[Max(s)]>>]

HasFold(op, base, f, n, A) == \E g \in [SUBSET (1..n) -> A] : FoldsUp(g, op, base, f, n)

\* Every operation on a set of values has such a fold.
LEMMA FoldDefined ==
    ASSUME NEW n \in Nat, NEW A, NEW B, NEW f \in [1..n -> B], NEW base \in A,
           NEW op \in [A \X B -> A]
    PROVE  HasFold(op, base, f, n, A)
<1> DEFINE S == 1..n
           Top(s) == Max(s)
           Less(s) == s \ {Top(s)}
           Upto(g, k) == \A s \in SUBSET S : Cardinality(s) <= k =>
                            g[s] = IF s = {} THEN base ELSE op[<<g[Less(s)], f[Top(s)]>>]
           Known(k) == \E g \in [SUBSET S -> A] : Upto(g, k)
           T == {k \in 0..n : Known(k)}
<1>0. IsFiniteSet(S) /\ Cardinality(S) = n
  BY FS_Interval
<1>1. ASSUME NEW s \in SUBSET S
      PROVE  /\ Cardinality(s) \in Nat /\ Cardinality(s) <= n
             /\ Cardinality(s) = 0 <=> s = {}
             /\ s # {} => /\ Top(s) \in S
                          /\ Less(s) \in SUBSET S
                          /\ Cardinality(Less(s)) = Cardinality(s) - 1
  <2>1. Cardinality(s) \in Nat /\ Cardinality(s) <= n /\ (Cardinality(s) = 0 <=> s = {})
    <3>1. IsFiniteSet(s) /\ Cardinality(s) <= Cardinality(S)
      BY <1>0, FS_Subset
    <3>2. Cardinality(s) \in Nat /\ (Cardinality(s) = 0 <=> s = {})
      BY <3>1, FS_CardinalityType, FS_EmptySet
    <3> QED BY <1>0, <3>1, <3>2
  <2>2. ASSUME s # {} PROVE Top(s) \in s
    <3>1. s \in SUBSET Nat /\ \A m \in s : m <= n
      OBVIOUS
    <3> QED BY <2>2, <3>1, MaxOfNaturals
  <2>3. ASSUME s # {} PROVE Cardinality(Less(s)) = Cardinality(s) - 1
    BY <1>0, <2>2, <2>3, OneLess
  <2> QED BY <2>1, <2>2, <2>3
<1> HIDE DEF Top, Less
<1>2. 0 \in T
  <2> DEFINE g == [s \in SUBSET S |-> base]
  <2>1. g \in [SUBSET S -> A]
    OBVIOUS
  <2>2. Upto(g, 0)
    <3> SUFFICES ASSUME NEW s \in SUBSET S, Cardinality(s) <= 0 PROVE s = {} /\ g[s] = base
      OBVIOUS
    <3>1. s = {}
      BY <1>1
    <3> QED BY <3>1
  <2>3. Known(0)
    BY <2>1, <2>2
  <2> HIDE DEF Known
  <2> QED BY <2>3
<1>3. ASSUME NEW k \in 1..n, k - 1 \in T
      PROVE  k \in T
  <2>1. PICK g \in [SUBSET S -> A] : Upto(g, k - 1)
    BY <1>3
  <2> DEFINE h == [s \in SUBSET S |-> IF Cardinality(s) = k
                                      THEN op[<<g[Less(s)], f[Top(s)]>>] ELSE g[s]]
  <2>2. ASSUME NEW s \in SUBSET S, Cardinality(s) = k
        PROVE  op[<<g[Less(s)], f[Top(s)]>>] \in A
    <3>1. s # {}
      BY <1>1, <2>2
    <3>2. Top(s) \in S /\ Less(s) \in SUBSET S
      BY <1>1, <3>1
    <3>3. g[Less(s)] \in A /\ f[Top(s)] \in B
      BY <3>2
    <3> QED BY <3>3
  <2>3. h \in [SUBSET S -> A]
    BY <2>2
  <2>4. ASSUME NEW s \in SUBSET S, Cardinality(s) <= k
        PROVE  h[s] = IF s = {} THEN base ELSE op[<<h[Less(s)], f[Top(s)]>>]
    <3>1. CASE s = {}
      <4>1. Cardinality(s) = 0 /\ 0 <= k - 1 /\ 0 # k
        BY <1>1, <3>1
      <4>2. h[s] = g[s]
        BY <4>1
      <4>3. g[s] = base
        BY <2>1, <3>1, <4>1
      <4> QED BY <3>1, <4>2, <4>3
    <3>2. CASE s # {}
      <4>1. Less(s) \in SUBSET S /\ Cardinality(Less(s)) = Cardinality(s) - 1 /\ Cardinality(s) \in Nat
        BY <1>1, <3>2
      <4>2. h[Less(s)] = g[Less(s)]
        <5>1. Cardinality(Less(s)) # k
          BY <2>4, <4>1
        <5> QED BY <4>1, <5>1
      <4>3. h[s] = op[<<g[Less(s)], f[Top(s)]>>]
        <5>1. CASE Cardinality(s) = k
          BY <5>1
        <5>2. CASE Cardinality(s) # k
          <6>1. Cardinality(s) <= k - 1
            BY <2>4, <4>1, <5>2
          <6>2. g[s] = op[<<g[Less(s)], f[Top(s)]>>]
            BY <2>1, <3>2, <6>1
          <6> QED BY <5>2, <6>2
        <5> QED BY <5>1, <5>2
      <4> QED BY <3>2, <4>2, <4>3
    <3> QED BY <3>1, <3>2
  <2>5. Upto(h, k)
    BY <2>4
  <2>6. Known(k)
    <3> HIDE DEF h
    <3> QED BY <2>3, <2>5
  <2> HIDE DEF Known
  <2> QED BY <2>6
<1>4. n \in T
  <2> HIDE DEF T
  <2>1. \A k \in 0..n : k \in T
    BY <1>2, <1>3, StepByStep
  <2> QED BY <2>1
<1>5. PICK g \in [SUBSET S -> A] : Upto(g, n)
  BY <1>4
<1>6. ASSUME NEW s \in SUBSET S
      PROVE  g[s] = IF s = {} THEN base ELSE op[<<g[Less(s)], f[Top(s)]>>]
  BY <1>1, <1>5
<1>7. FoldsUp(g, op, base, f, n)
  BY <1>6 DEF FoldsUp, Less, Top
<1> QED BY <1>7 DEF HasFold
\* The same in steps: the values that a fold goes through.
HasSteps(op, base, f, n, A) ==
    \E v \in [0..n -> A] : v[0] = base /\ \A k \in 1..n : v[k] = op[<<v[k - 1], f[k]>>]

\* Nor are the steps of a fold from the first element to the last missing.
LEMMA StepsDefined ==
    ASSUME NEW n \in Nat, NEW A, NEW B, NEW f \in [1..n -> B], NEW base \in A,
           NEW op \in [A \X B -> A]
    PROVE  HasSteps(op, base, f, n, A)
<1>0. HasFold(op, base, f, n, A)
  BY FoldDefined, Zenon
<1>1. PICK g \in [SUBSET (1..n) -> A] : FoldsUp(g, op, base, f, n)
  BY <1>0 DEF HasFold
<1> DEFINE v == [k \in 0..n |-> g[1..k]]
<1>2. \A k \in 0..n : 1..k \in SUBSET (1..n) /\ v[k] = g[1..k] /\ v[k] \in A
  OBVIOUS
<1>3. v \in [0..n -> A]
  BY <1>2
<1>4. v[0] = base
  <2>1. 1..0 = {} /\ 0 \in 0..n /\ {} \in SUBSET (1..n)
    OBVIOUS
  <2> QED BY <1>1, <2>1 DEF FoldsUp
<1> HIDE DEF v
<1>5. ASSUME NEW k \in 1..n
      PROVE  v[k] = op[<<v[k - 1], f[k]>>]
  <2>1. k \in Nat \ {0} /\ k \in 0..n /\ k - 1 \in 0..n
    OBVIOUS
  <2>2. Max(1..k) = k /\ (1..k) \ {k} = 1..(k - 1) /\ 1..k # {}
    BY <2>1, MaxOfInterval, IntervalStep
  <2>3. g[1..k] = op[<<g[1..(k - 1)], f[k]>>]
    <3>1. 1..k \in SUBSET (1..n)
      BY <1>2, <2>1
    <3> QED BY <1>1, <2>2, <3>1 DEF FoldsUp
  <2> QED BY <1>2, <2>1, <2>3
<1> QED BY <1>3, <1>4, <1>5 DEF HasSteps

-----------------------------------------------------------------------------
(* Lists of lists one after the other: FlattenSeq *)

Flattens(g, ss) ==
    g = [i \in 1..Len(ss) |-> IF i = 1 THEN ss[i] ELSE g[i - 1] \o ss[i]]

\* FlattenSeq is the last of the lists that Flattens describes.
LEMMA FlattenUnfold ==
    ASSUME NEW ss, Len(ss) # 0, NEW g0, Flattens(g0, ss)
    PROVE  \E g : Flattens(g, ss) /\ FlattenSeq(ss) = g[Len(ss)]
<1> DEFINE It == CHOOSE g : Flattens(g, ss)
<1>1. Flattens(It, ss)
  OBVIOUS
<1>2. FlattenSeq(ss) = It[Len(ss)]
  BY DEF FlattenSeq, Flattens
<1> QED BY <1>1, <1>2

\* v goes through the lists.
FlatSteps(v, ss) == v[0] = <<>> /\ \A k \in 1..Len(ss) : v[k] = v[k - 1] \o ss[k]

\* A list of lists is flattened one list after the other.
LEMMA FlattenSteps ==
    ASSUME NEW R, NEW ss \in Seq(Seq(R))
    PROVE  \E v \in [0..Len(ss) -> Seq(R)] : FlatSteps(v, ss) /\ FlattenSeq(ss) = v[Len(ss)]
<1> DEFINE n == Len(ss)
           op == [p \in Seq(R) \X Seq(R) |-> p[1] \o p[2]]
<1>1. n \in Nat /\ ss \in [1..n -> Seq(R)] /\ <<>> \in Seq(R)
  OBVIOUS
<1>2. op \in [Seq(R) \X Seq(R) -> Seq(R)]
  OBVIOUS
<1>8. HasSteps(op, <<>>, ss, n, Seq(R))
  <2> HIDE DEF op, n
  <2> QED BY <1>1, <1>2, StepsDefined, Zenon
<1>3. PICK v \in [0..n -> Seq(R)] :
         v[0] = <<>> /\ \A k \in 1..n : v[k] = op[<<v[k - 1], ss[k]>>]
  <2> HIDE DEF op
  <2> QED BY <1>8 DEF HasSteps
<1>4. ASSUME NEW k \in 1..n
      PROVE  v[k] = v[k - 1] \o ss[k]
  <2>1. v[k - 1] \in Seq(R) /\ ss[k] \in Seq(R)
    BY <1>1
  <2>2. op[<<v[k - 1], ss[k]>>] = v[k - 1] \o ss[k]
    BY <2>1
  <2> HIDE DEF op
  <2> QED BY <1>3, <2>2
<1>5. FlatSteps(v, ss)
  BY <1>3, <1>4 DEF FlatSteps
<1>6. CASE n = 0
  <2>1. ss = <<>> /\ FlattenSeq(ss) = ss
    BY <1>1, <1>6 DEF FlattenSeq
  <2>2. FlattenSeq(ss) = v[n]
    BY <1>3, <1>6, <2>1
  <2> QED BY <1>5, <2>2
<1>7. CASE n # 0
  <2> DEFINE g0 == [i \in 1..n |-> v[i]]
  <2>1. \A i \in 1..n : g0[i] = IF i = 1 THEN ss[i] ELSE g0[i - 1] \o ss[i]
    <3> SUFFICES ASSUME NEW i \in 1..n
                 PROVE  g0[i] = IF i = 1 THEN ss[i] ELSE g0[i - 1] \o ss[i]
      OBVIOUS
    <3>1. v[i] = v[i - 1] \o ss[i] /\ ss[i] \in Seq(R)
      BY <1>1, <1>4
    <3>2. CASE i = 1
      <4>1. v[i] = <<>> \o ss[i]
        <5>1. i - 1 = 0
          BY <3>2
        <5> QED BY <1>3, <3>1, <5>1
      <4>2. <<>> \o ss[i] = ss[i]
        BY <3>1
      <4> QED BY <3>2, <4>1, <4>2
    <3>3. CASE i # 1
      <4>1. i - 1 \in 1..n
        BY <1>1, <3>3
      <4> QED BY <3>1, <3>3, <4>1
    <3> QED BY <3>2, <3>3
  <2>2. Flattens(g0, ss)
    <3> HIDE DEF g0
    <3>1. g0 = [i \in 1..n |-> g0[i]]
      BY DEF g0
    <3> QED BY <2>1, <3>1 DEF Flattens
  <2>3. PICK g : Flattens(g, ss) /\ FlattenSeq(ss) = g[n]
    <3> HIDE DEF g0
    <3> QED BY <1>7, <2>2, FlattenUnfold
  <2> DEFINE T == {k \in 0..n : k = 0 \/ g[k] = v[k]}
  <2>4. ASSUME NEW k \in 1..n, k - 1 \in T
        PROVE  k \in T
    <3>1. g[k] = IF k = 1 THEN ss[k] ELSE g[k - 1] \o ss[k]
      BY <2>3 DEF Flattens
    <3>2. CASE k = 1
      <4>1. v[k] = <<>> \o ss[k] /\ ss[k] \in Seq(R)
        <5>1. k - 1 = 0
          BY <3>2
        <5> QED BY <1>1, <1>3, <1>4, <5>1
      <4>2. v[k] = ss[k]
        BY <4>1
      <4> QED BY <3>1, <3>2, <4>2
    <3>3. CASE k # 1
      <4>1. k - 1 # 0
        BY <3>3
      <4>2. g[k - 1] = v[k - 1]
        BY <2>4, <4>1
      <4>3. g[k] = v[k]
        BY <1>4, <3>1, <3>3, <4>2
      <4> QED BY <4>3
    <3> QED BY <3>2, <3>3
  <2>5. n \in T
    <3>1. 0 \in T
      BY <1>1
    <3> HIDE DEF T
    <3>2. \A k \in 0..n : k \in T
      BY <1>1, <2>4, <3>1, StepByStep
    <3> QED BY <1>1, <3>2
  <2> QED BY <1>5, <1>7, <2>3, <2>5
<1> QED BY <1>6, <1>7

-----------------------------------------------------------------------------
(* What the elements of a list weigh together *)

Weigh(W, list) == SumFunctionOnSet([i \in DOMAIN list |-> W[list[i]]], DOMAIN list)

\* The weights of the elements of a list, up to a place in it.
WeighTo(W, list, k) == SumFunctionOnSet([i \in DOMAIN list |-> W[list[i]]], 1..k)

\* Element after element.
LEMMA WeighSteps ==
    ASSUME NEW R, NEW W \in [R -> Int], NEW list \in Seq(R)
    PROVE  /\ Weigh(W, list) = WeighTo(W, list, Len(list))
           /\ \A k \in 0..Len(list) : WeighTo(W, list, k) \in Int
           /\ WeighTo(W, list, 0) = 0
           /\ \A k \in 1..Len(list) :
                 WeighTo(W, list, k) = WeighTo(W, list, k - 1) + W[list[k]]
<1> DEFINE n == Len(list)
           f == [i \in DOMAIN list |-> W[list[i]]]
<1>1. n \in Nat /\ DOMAIN list = 1..n /\ list \in [1..n -> R]
  OBVIOUS
<1>2. IntegersOn(f, 1..n) /\ \A k \in 1..n : f[k] = W[list[k]]
  BY <1>1 DEF IntegersOn
<1>3. \A k \in 0..n : WeighTo(W, list, k) = SumFunctionOnSet(f, 1..k)
  BY DEF WeighTo
<1>4. Weigh(W, list) = SumFunctionOnSet(f, 1..n)
  BY <1>1 DEF Weigh
<1> HIDE DEF f, n
<1>5. SumFunctionOnSet(f, 1..0) = 0
  BY SumNothing
<1>6. ASSUME NEW k \in 1..n
      PROVE  /\ SumFunctionOnSet(f, 1..k) \in Int
             /\ SumFunctionOnSet(f, 1..k) = SumFunctionOnSet(f, 1..(k - 1)) + f[k]
  BY <1>1, <1>2, SumPartial
<1>7. \A k \in 1..n : k - 1 \in 0..n /\ k \in 0..n
  BY <1>1
<1>8. \A k \in 0..n : k = 0 \/ k \in 1..n
  BY <1>1
<1>9. 0 \in 0..n /\ n \in 0..n
  BY <1>1
<1>10. ASSUME NEW k \in 0..n PROVE WeighTo(W, list, k) \in Int
  BY <1>3, <1>5, <1>6, <1>8
<1>11. WeighTo(W, list, 0) = 0
  BY <1>3, <1>5, <1>9
<1>12. ASSUME NEW k \in 1..n
       PROVE  WeighTo(W, list, k) = WeighTo(W, list, k - 1) + W[list[k]]
  BY <1>2, <1>3, <1>6, <1>7
<1>13. Weigh(W, list) = WeighTo(W, list, n)
  BY <1>3, <1>4, <1>9
<1> QED BY <1>10, <1>11, <1>12, <1>13 DEF n

\* A list weighs what it weighs up to its end.
LEMMA WeighWhole ==
    ASSUME NEW R, NEW W \in [R -> Int], NEW list \in Seq(R)
    PROVE  /\ Weigh(W, list) = WeighTo(W, list, Len(list))
           /\ Weigh(W, list) \in Int
           /\ WeighTo(W, list, 0) = 0
<1>1. Len(list) \in 0..Len(list)
  OBVIOUS
<1> QED BY <1>1, WeighSteps

\* What a list weighs up to an element, and up to the one before.
LEMMA WeighStep ==
    ASSUME NEW R, NEW W \in [R -> Int], NEW list \in Seq(R), NEW k \in 1..Len(list)
    PROVE  /\ list[k] \in R /\ W[list[k]] \in Int
           /\ WeighTo(W, list, k) \in Int /\ WeighTo(W, list, k - 1) \in Int
           /\ WeighTo(W, list, k) = WeighTo(W, list, k - 1) + W[list[k]]
<1>1. /\ \A j \in 0..Len(list) : WeighTo(W, list, j) \in Int
      /\ \A j \in 1..Len(list) : WeighTo(W, list, j) = WeighTo(W, list, j - 1) + W[list[j]]
  BY WeighSteps
<1>2. k \in 0..Len(list) /\ k - 1 \in 0..Len(list) /\ list[k] \in R /\ W[list[k]] \in Int
  OBVIOUS
<1> QED BY <1>1, <1>2

\* Lists that agree up to a place weigh the same up to it.
LEMMA WeighSame ==
    ASSUME NEW R, NEW W \in [R -> Int], NEW list \in Seq(R), NEW other \in Seq(R),
           NEW k \in Nat, k <= Len(list), k <= Len(other), \A i \in 1..k : list[i] = other[i]
    PROVE  WeighTo(W, list, k) = WeighTo(W, other, k)
<1> DEFINE e == [i \in DOMAIN list |-> W[list[i]]]
           f == [i \in DOMAIN other |-> W[other[i]]]
<1>1. \A i \in 1..k : e[i] = f[i] /\ f[i] \in Int
  OBVIOUS
<1>2. IsFiniteSet(1..k)
  BY FS_Interval
<1> HIDE DEF e, f
<1>3. SumFunctionOnSet(e, 1..k) = SumFunctionOnSet(f, 1..k)
  BY <1>1, <1>2, SumSame
<1> QED BY <1>3 DEF WeighTo, e, f

\* The empty list weighs nothing.
LEMMA WeighEmpty ==
    ASSUME NEW W
    PROVE  Weigh(W, <<>>) = 0
<1>1. DOMAIN <<>> = {}
  OBVIOUS
<1> QED BY <1>1, SumNothing DEF Weigh

\* One element more.
LEMMA WeighAppend ==
    ASSUME NEW R, NEW W \in [R -> Int], NEW list \in Seq(R), NEW x \in R
    PROVE  /\ Append(list, x) \in Seq(R)
           /\ Weigh(W, list) \in Int
           /\ Weigh(W, Append(list, x)) = Weigh(W, list) + W[x]
<1> DEFINE new == Append(list, x)
           n == Len(list)
<1>1. n \in Nat /\ new \in Seq(R) /\ Len(new) = n + 1 /\ new[n + 1] = x
      /\ \A i \in 1..n : new[i] = list[i]
  OBVIOUS
<1> HIDE DEF new
<1>2. Weigh(W, list) = WeighTo(W, list, n) /\ Weigh(W, list) \in Int
  BY WeighWhole
<1>3. Weigh(W, new) = WeighTo(W, new, n + 1)
  BY <1>1, WeighWhole
<1>4. WeighTo(W, new, n + 1) = WeighTo(W, new, n) + W[x]
  <2>1. n + 1 \in 1..Len(new) /\ (n + 1) - 1 = n
    BY <1>1
  <2> HIDE DEF n
  <2>2. new \in Seq(R)
    BY <1>1
  <2>3. \A k \in 1..Len(new) : WeighTo(W, new, k) = WeighTo(W, new, k - 1) + W[new[k]]
    BY <2>2, WeighSteps
  <2> QED BY <1>1, <2>1, <2>3
<1>5. WeighTo(W, new, n) = WeighTo(W, list, n)
  <2>1. n <= Len(new) /\ n <= Len(list)
    BY <1>1
  <2> HIDE DEF n
  <2> QED BY <1>1, <2>1, WeighSame
<1> QED BY <1>1, <1>2, <1>3, <1>4, <1>5 DEF new

OneMore(R, W) == \A s \in Seq(R), x \in R : Weigh(W, Append(s, x)) = Weigh(W, s) + W[x]

\* The same for all lists and elements.
LEMMA WeighAppends ==
    ASSUME NEW R, NEW W \in [R -> Int]
    PROVE  OneMore(R, W)
<1> SUFFICES ASSUME NEW s \in Seq(R), NEW x \in R
             PROVE  Weigh(W, Append(s, x)) = Weigh(W, s) + W[x]
  BY DEF OneMore
<1> QED BY WeighAppend

\* One list after the other.
LEMMA WeighConcat ==
    ASSUME NEW R, NEW W \in [R -> Int], NEW s \in Seq(R), NEW t \in Seq(R)
    PROVE  /\ s \o t \in Seq(R)
           /\ Weigh(W, s) \in Int /\ Weigh(W, t) \in Int
           /\ Weigh(W, s \o t) = Weigh(W, s) + Weigh(W, t)
<1> DEFINE st == s \o t
           m == Len(s)
           n == Len(t)
<1>1. /\ m \in Nat /\ n \in Nat /\ st \in Seq(R) /\ Len(st) = m + n
      /\ \A i \in 1..m : st[i] = s[i]
      /\ \A i \in 1..n : st[m + i] = t[i]
  OBVIOUS
<1> HIDE DEF st
<1> DEFINE T == {k \in 0..n : WeighTo(W, st, m + k) = Weigh(W, s) + WeighTo(W, t, k)}
<1>2. /\ Weigh(W, s) = WeighTo(W, s, m) /\ Weigh(W, t) = WeighTo(W, t, n)
      /\ Weigh(W, st) = WeighTo(W, st, m + n)
      /\ Weigh(W, s) \in Int /\ Weigh(W, t) \in Int /\ WeighTo(W, t, 0) = 0
  <2>1. Weigh(W, st) = WeighTo(W, st, m + n)
    BY <1>1, WeighWhole
  <2> QED BY <2>1, WeighWhole
<1> HIDE DEF m, n
<1>3. 0 \in T
  <2>1. WeighTo(W, st, m) = WeighTo(W, s, m)
    <3>1. m <= Len(st) /\ m <= Len(s)
      BY <1>1 DEF m
    <3> QED BY <1>1, <3>1, WeighSame
  <2>2. m + 0 = m /\ 0 \in 0..n
    BY <1>1
  <2> QED BY <1>2, <2>1, <2>2
<1>4. ASSUME NEW k \in 1..n, k - 1 \in T
      PROVE  k \in T
  <2> DEFINE p == m + k
  <2>1. p \in 1..Len(st) /\ p - 1 = m + (k - 1) /\ k \in 0..n /\ k - 1 \in 0..n
    BY <1>1
  <2>8. st[p] = t[k]
    BY <1>1
  <2>9. WeighTo(W, st, m + k) = WeighTo(W, st, p)
    OBVIOUS
  <2> HIDE DEF p
  <2>2. WeighTo(W, st, p) = WeighTo(W, st, p - 1) + W[st[p]]
    <3>1. st \in Seq(R) /\ p \in 1..Len(st)
      BY <1>1, <2>1
    <3> QED BY <3>1, WeighStep
  <2>3. WeighTo(W, t, k) = WeighTo(W, t, k - 1) + W[t[k]] /\ WeighTo(W, t, k - 1) \in Int
    BY WeighStep DEF n
  <2>4. W[t[k]] \in Int
    BY DEF n
  <2>6. WeighTo(W, st, m + (k - 1)) = Weigh(W, s) + WeighTo(W, t, k - 1)
    BY <1>4
  <2>7. WeighTo(W, st, m + k) = Weigh(W, s) + WeighTo(W, t, k)
    BY <1>2, <2>1, <2>2, <2>3, <2>4, <2>6, <2>8, <2>9
  <2> QED BY <2>1, <2>7
<1>5. n \in T
  <2> HIDE DEF T
  <2>1. \A k \in 0..n : k \in T
    BY <1>1, <1>3, <1>4, StepByStep
  <2> QED BY <1>1, <2>1
<1> QED BY <1>1, <1>2, <1>5 DEF st
-----------------------------------------------------------------------------
(* Lists of lists and picked elements *)

\* A list of lists weighs what the lists weigh together.
LEMMA WeighFlatten ==
    ASSUME NEW R, NEW W \in [R -> Int], NEW ss \in Seq(Seq(R))
    PROVE  /\ FlattenSeq(ss) \in Seq(R)
           /\ [list \in Seq(R) |-> Weigh(W, list)] \in [Seq(R) -> Int]
           /\ Weigh(W, FlattenSeq(ss)) = Weigh([list \in Seq(R) |-> Weigh(W, list)], ss)
<1> DEFINE n == Len(ss)
<1>0. [list \in Seq(R) |-> Weigh(W, list)] \in [Seq(R) -> Int]
  BY WeighWhole
<1>10. PICK V : V = [list \in Seq(R) |-> Weigh(W, list)]
  OBVIOUS
<1>11. \A k \in 1..Len(ss) : WeighTo(V, ss, k) = WeighTo(V, ss, k - 1) + V[ss[k]]
  <2> DEFINE Q == Seq(R)
  <2>1. V \in [Q -> Int] /\ ss \in Seq(Q)
    BY <1>0, <1>10
  <2> HIDE DEF Q
  <2> QED BY <2>1, WeighSteps
<1>1. PICK v \in [0..n -> Seq(R)] : FlatSteps(v, ss) /\ FlattenSeq(ss) = v[n]
  BY FlattenSteps
<1>2. V \in [Seq(R) -> Int]
  BY <1>0, <1>10
<1>3. n \in Nat /\ ss \in [1..n -> Seq(R)] /\ n \in 0..n
  OBVIOUS
<1>4. \A list \in Seq(R) : V[list] = Weigh(W, list)
  BY <1>10
<1>5. Weigh(V, ss) = WeighTo(V, ss, n) /\ WeighTo(V, ss, 0) = 0
  BY <1>2, WeighWhole
<1> HIDE DEF n
<1> DEFINE T == {k \in 0..n : Weigh(W, v[k]) = WeighTo(V, ss, k)}
<1>6. 0 \in T
  <2>1. v[0] = <<>> /\ 0 \in 0..n
    BY <1>1, <1>3 DEF FlatSteps
  <2> QED BY <1>5, <2>1, WeighEmpty
<1>7. ASSUME NEW k \in 1..n, k - 1 \in T
      PROVE  k \in T
  <2>4. k \in 0..n /\ k - 1 \in 0..n /\ k \in 1..Len(ss)
    BY <1>3 DEF n
  <2>5. v[k] = v[k - 1] \o ss[k]
    BY <1>1, <2>4 DEF FlatSteps
  <2>1. v[k - 1] \in Seq(R) /\ ss[k] \in Seq(R) /\ v[k] = v[k - 1] \o ss[k]
    BY <1>3, <2>4, <2>5
  <2>2. Weigh(W, v[k]) = Weigh(W, v[k - 1]) + Weigh(W, ss[k])
    <3>1. W \in [R -> Int] /\ v[k - 1] \in Seq(R) /\ ss[k] \in Seq(R)
      BY <2>1
    <3>2. Weigh(W, v[k - 1] \o ss[k]) = Weigh(W, v[k - 1]) + Weigh(W, ss[k])
      BY ONLY <3>1, WeighConcat
    <3> QED BY <2>1, <3>2
  <2>3. WeighTo(V, ss, k) = WeighTo(V, ss, k - 1) + V[ss[k]]
    BY <1>11, <2>4
  <2>6. Weigh(W, v[k]) = WeighTo(V, ss, k)
    BY <1>4, <1>7, <2>1, <2>2, <2>3
  <2> QED BY <2>4, <2>6
<1>8. n \in T
  <2> HIDE DEF T
  <2>1. \A k \in 0..n : k \in T
    BY <1>3, <1>6, <1>7, StepByStep
  <2> QED BY <1>3, <2>1
<1>9. FlattenSeq(ss) \in Seq(R)
  BY <1>1, <1>3
<1> QED BY <1>0, <1>1, <1>10, <1>5, <1>8, <1>9

\* What is picked goes step by step.
PicksUp(v, list, indices) ==
    v = [k \in 0..Len(list) |-> IF k = 0 THEN <<>>
                                ELSE IF k \in indices THEN Append(v[k - 1], list[k]) ELSE v[k - 1]]

\* Picked is the last of the lists that PicksUp describes.
LEMMA PickedUnfold ==
    ASSUME NEW list, NEW indices, NEW v0, PicksUp(v0, list, indices)
    PROVE  \E v : PicksUp(v, list, indices) /\ Picked(list, indices) = v[Len(list)]
<1> DEFINE It == CHOOSE v : PicksUp(v, list, indices)
<1>1. PicksUp(It, list, indices)
  OBVIOUS
<1>2. Picked(list, indices) = It[Len(list)]
  BY DEF Picked, PicksUp
<1> QED BY <1>1, <1>2

\* There are such lists for every list and any indices.
LEMMA PickedDefined ==
    ASSUME NEW R, NEW list \in Seq(R), NEW indices
    PROVE  \E v : PicksUp(v, list, indices)
<1> DEFINE n == Len(list)
           place == [i \in 1..n |-> i]
           op == [p \in Seq(R) \X (1..n) |-> IF p[2] \in indices THEN Append(p[1], list[p[2]]) ELSE p[1]]
<1>1. n \in Nat /\ list \in [1..n -> R] /\ <<>> \in Seq(R) /\ place \in [1..n -> 1..n]
  OBVIOUS
<1>2. op \in [Seq(R) \X (1..n) -> Seq(R)]
  OBVIOUS
<1>3. HasSteps(op, <<>>, place, n, Seq(R))
  <2> DEFINE D == 1..n
  <2>1. op \in [Seq(R) \X D -> Seq(R)] /\ place \in [1..n -> D]
    BY <1>1, <1>2
  <2> HIDE DEF op, place, n, D
  <2> QED BY <1>1, <2>1, StepsDefined, Zenon
<1>4. PICK v \in [0..n -> Seq(R)] :
         v[0] = <<>> /\ \A k \in 1..n : v[k] = op[<<v[k - 1], place[k]>>]
  <2> HIDE DEF op
  <2> QED BY <1>3 DEF HasSteps
<1>5. ASSUME NEW k \in 0..n
      PROVE  v[k] = IF k = 0 THEN <<>>
                    ELSE IF k \in indices THEN Append(v[k - 1], list[k]) ELSE v[k - 1]
  <2>1. CASE k = 0
    BY <1>4, <2>1
  <2>2. CASE k # 0
    <3>1. k \in 1..n /\ v[k - 1] \in Seq(R) /\ place[k] = k
      BY <1>1, <2>2
    <3>2. op[<<v[k - 1], k>>] = IF k \in indices THEN Append(v[k - 1], list[k]) ELSE v[k - 1]
      BY <3>1
    <3>3. v[k] = op[<<v[k - 1], k>>]
      <4> HIDE DEF op, place
      <4> QED BY <1>4, <3>1
    <3> HIDE DEF op
    <3> QED BY <2>2, <3>2, <3>3
  <2> QED BY <2>1, <2>2
<1>6. v = [k \in 0..n |-> v[k]]
  OBVIOUS
<1> QED BY <1>5, <1>6 DEF PicksUp

\* v goes through what is picked of longer and longer parts of a list.
PickSteps(v, list, indices) ==
    /\ v[0] = <<>>
    /\ \A k \in 1..Len(list) :
          v[k] = IF k \in indices THEN Append(v[k - 1], list[k]) ELSE v[k - 1]

\* Elements are picked one after the other.
LEMMA PickedSteps ==
    ASSUME NEW R, NEW list \in Seq(R), NEW indices
    PROVE  \E v \in [0..Len(list) -> Seq(R)] :
              PickSteps(v, list, indices) /\ Picked(list, indices) = v[Len(list)]
<1> DEFINE n == Len(list)
<1>1. n \in Nat /\ list \in [1..n -> R] /\ n \in 0..n
  OBVIOUS
<1>2. PICK v : PicksUp(v, list, indices) /\ Picked(list, indices) = v[n]
  <2>1. PICK v0 : PicksUp(v0, list, indices)
    BY PickedDefined
  <2> QED BY <2>1, PickedUnfold
<1>3. /\ v = [k \in 0..n |-> v[k]]
      /\ \A k \in 0..n : v[k] = IF k = 0 THEN <<>>
                                ELSE IF k \in indices THEN Append(v[k - 1], list[k]) ELSE v[k - 1]
  BY <1>2 DEF PicksUp
<1>4. PickSteps(v, list, indices)
  <2>1. v[0] = <<>>
    BY <1>1, <1>3
  <2>2. ASSUME NEW k \in 1..n
        PROVE  v[k] = IF k \in indices THEN Append(v[k - 1], list[k]) ELSE v[k - 1]
    <3>1. k \in 0..n /\ k # 0
      OBVIOUS
    <3> QED BY <1>3, <3>1
  <2> QED BY <2>1, <2>2 DEF PickSteps
<1> DEFINE T == {k \in 0..n : v[k] \in Seq(R)}
<1>5. 0 \in T
  <2>1. 0 \in 0..n /\ <<>> \in Seq(R)
    BY <1>1
  <2>2. v[0] = <<>>
    BY <1>4 DEF PickSteps
  <2> QED BY <2>1, <2>2
<1>6. ASSUME NEW k \in 1..n, k - 1 \in T
      PROVE  k \in T
  <2>1. k \in 0..n /\ list[k] \in R /\ v[k - 1] \in Seq(R)
    BY <1>1, <1>6
  <2>2. v[k] = IF k \in indices THEN Append(v[k - 1], list[k]) ELSE v[k - 1]
    BY <1>4 DEF PickSteps
  <2>3. Append(v[k - 1], list[k]) \in Seq(R)
    BY <2>1
  <2>4. v[k] \in Seq(R)
    BY <2>1, <2>2, <2>3
  <2> QED BY <2>1, <2>4
<1>7. \A k \in 0..n : k \in T
  <2> HIDE DEF T, n
  <2> QED BY <1>1, <1>5, <1>6, StepByStep
<1>8. v \in [0..n -> Seq(R)]
  BY <1>3, <1>7
<1> QED BY <1>2, <1>4, <1>8

\* The places of the picked elements in a list, looked at up to n: in the order
\* of the list, all of those that are asked for, and each once.
PlacesTo(h, picked, list, indices, n) ==
    /\ h \in [1..Len(picked) -> 1..n]
    /\ \A k \in 1..Len(picked) : h[k] \in indices /\ picked[k] = list[h[k]]
    /\ \A i, j \in 1..Len(picked) : i < j => h[i] < h[j]
    /\ \A i \in 1..n : i \in indices => \E k \in 1..Len(picked) : h[k] = i

HasPlaces(picked, list, indices, n) == \E h : PlacesTo(h, picked, list, indices, n)

\* The places of one element more.
LEMMA PlacesStep ==
    ASSUME NEW R, NEW picked \in Seq(R), NEW list \in Seq(R), NEW indices,
           NEW n \in 1..Len(list), HasPlaces(picked, list, indices, n - 1)
    PROVE  HasPlaces(IF n \in indices THEN Append(picked, list[n]) ELSE picked, list, indices, n)
<1>1. PICK h : PlacesTo(h, picked, list, indices, n - 1)
  BY DEF HasPlaces
<1>2. CASE n \notin indices
  <2>1. h \in [1..Len(picked) -> 1..n]
    BY <1>1 DEF PlacesTo
  <2>2. \A i \in 1..n : i \in indices => i \in 1..(n - 1)
    BY <1>2
  <2>3. PlacesTo(h, picked, list, indices, n)
    BY <1>1, <2>1, <2>2 DEF PlacesTo
  <2> QED BY <1>2, <2>3 DEF HasPlaces
<1>3. CASE n \in indices
  <2> DEFINE new == Append(picked, list[n])
             m == Len(picked)
             g == [k \in 1..(m + 1) |-> IF k = m + 1 THEN n ELSE h[k]]
  <2>1. /\ m \in Nat /\ Len(new) = m + 1 /\ new[m + 1] = list[n] /\ new \in Seq(R)
        /\ \A k \in 1..m : new[k] = picked[k]
    OBVIOUS
  <2>2. \A k \in 1..m : h[k] \in 1..(n - 1) /\ h[k] < n /\ h[k] \in 1..n
    BY <1>1 DEF PlacesTo
  <2>3. \A k \in 1..(m + 1) : k = m + 1 \/ k \in 1..m
    BY <2>1
  <2> HIDE DEF new, m
  <2>4. g \in [1..(m + 1) -> 1..n]
    BY <2>2, <2>3
  <2>5. g[m + 1] = n /\ \A k \in 1..m : g[k] = h[k]
    BY <2>1
  <2> HIDE DEF g
  <2>6. ASSUME NEW k \in 1..(m + 1)
        PROVE  g[k] \in indices /\ new[k] = list[g[k]]
    <3>1. CASE k = m + 1
      BY <1>3, <2>1, <2>5, <3>1
    <3>2. CASE k \in 1..m
      BY <1>1, <2>1, <2>5, <3>2 DEF PlacesTo, m
    <3> QED BY <2>3, <3>1, <3>2
  <2>7. ASSUME NEW i \in 1..(m + 1), NEW j \in 1..(m + 1), i < j
        PROVE  g[i] < g[j]
    <3>1. i \in 1..m
      BY <2>1, <2>7
    <3>2. CASE j = m + 1
      BY <2>2, <2>5, <3>1, <3>2
    <3>3. CASE j \in 1..m
      BY <1>1, <2>5, <2>7, <3>1, <3>3 DEF PlacesTo, m
    <3> QED BY <2>3, <3>2, <3>3
  <2>8. ASSUME NEW i \in 1..n, i \in indices
        PROVE  \E k \in 1..(m + 1) : g[k] = i
    <3>1. CASE i = n
      <4>1. m + 1 \in 1..(m + 1)
        BY <2>1
      <4> QED BY <2>5, <3>1, <4>1
    <3>2. CASE i # n
      <4>1. i \in 1..(n - 1)
        BY <3>2
      <4>2. PICK k \in 1..m : h[k] = i
        BY <1>1, <2>8, <4>1 DEF PlacesTo, m
      <4>3. k \in 1..(m + 1) /\ g[k] = i
        BY <2>1, <2>5, <4>2
      <4> QED BY <4>3
    <3> QED BY <3>1, <3>2
  <2>9. PlacesTo(g, new, list, indices, n)
    BY <2>1, <2>4, <2>6, <2>7, <2>8 DEF PlacesTo
  <2> QED BY <1>3, <2>9 DEF HasPlaces, new
<1> QED BY <1>2, <1>3

\* What is picked from a list has its places in it.
LEMMA PickedPlaces ==
    ASSUME NEW R, NEW list \in Seq(R), NEW indices
    PROVE  /\ Picked(list, indices) \in Seq(R)
           /\ HasPlaces(Picked(list, indices), list, indices, Len(list))
<1> DEFINE n == Len(list)
<1>1. PICK v \in [0..n -> Seq(R)] : PickSteps(v, list, indices) /\ Picked(list, indices) = v[n]
  BY PickedSteps
<1>2. n \in Nat /\ n \in 0..n
  OBVIOUS
<1> DEFINE T == {k \in 0..n : HasPlaces(v[k], list, indices, k)}
<1>3. 0 \in T
  <2> DEFINE h == [k \in 1..0 |-> k]
  <2>1. v[0] = <<>> /\ Len(<<>>) = 0 /\ 1..0 = {} /\ 0 \in 0..n
    BY <1>1, <1>2 DEF PickSteps
  <2>2. PlacesTo(h, <<>>, list, indices, 0)
    BY <2>1 DEF PlacesTo
  <2> QED BY <2>1, <2>2 DEF HasPlaces
<1>4. ASSUME NEW k \in 1..n, k - 1 \in T
      PROVE  k \in T
  <2>1. k \in 0..n /\ k - 1 \in 0..n /\ v[k - 1] \in Seq(R) /\ HasPlaces(v[k - 1], list, indices, k - 1)
    BY <1>2, <1>4
  <2>2. v[k] = IF k \in indices THEN Append(v[k - 1], list[k]) ELSE v[k - 1]
    BY <1>1 DEF PickSteps
  <2>3. HasPlaces(IF k \in indices THEN Append(v[k - 1], list[k]) ELSE v[k - 1], list, indices, k)
    BY <2>1, PlacesStep, Zenon
  <2> QED BY <2>1, <2>2, <2>3
<1>5. n \in T
  <2> HIDE DEF T, n
  <2>1. \A k \in 0..n : k \in T
    BY <1>2, <1>3, <1>4, StepByStep
  <2> QED BY <1>2, <2>1
<1> QED BY <1>1, <1>2, <1>5

\* Every picked element is in the list at one of the indices, and the elements
\* at the indices are all picked.
LEMMA PickedElements ==
    ASSUME NEW R, NEW list \in Seq(R), NEW indices
    PROVE  /\ Picked(list, indices) \in Seq(R)
           /\ \A k \in DOMAIN Picked(list, indices) :
                 \E i \in DOMAIN list : i \in indices /\ Picked(list, indices)[k] = list[i]
           /\ \A i \in DOMAIN list : i \in indices =>
                 \E k \in DOMAIN Picked(list, indices) : Picked(list, indices)[k] = list[i]
<1> DEFINE picked == Picked(list, indices)
<1>1. picked \in Seq(R) /\ HasPlaces(picked, list, indices, Len(list))
  BY PickedPlaces
<1> HIDE DEF picked
<1>2. PICK h : PlacesTo(h, picked, list, indices, Len(list))
  BY <1>1 DEF HasPlaces
<1>3. DOMAIN picked = 1..Len(picked) /\ DOMAIN list = 1..Len(list)
  BY <1>1
<1>4. ASSUME NEW k \in DOMAIN picked
      PROVE  \E i \in DOMAIN list : i \in indices /\ picked[k] = list[i]
  <2>1. h[k] \in DOMAIN list /\ h[k] \in indices /\ picked[k] = list[h[k]]
    BY <1>2, <1>3 DEF PlacesTo
  <2> QED BY <2>1
<1>5. ASSUME NEW i \in DOMAIN list, i \in indices
      PROVE  \E k \in DOMAIN picked : picked[k] = list[i]
  <2>1. PICK k \in 1..Len(picked) : h[k] = i
    BY <1>2, <1>3, <1>5 DEF PlacesTo
  <2>2. picked[k] = list[h[k]]
    BY <1>2 DEF PlacesTo
  <2> QED BY <1>3, <2>1, <2>2
<1> QED BY <1>1, <1>4, <1>5 DEF picked

\* What is picked weighs what the list weighs when all else has no weight.
OnlyAt(V, W, list, indices) ==
    \A i \in DOMAIN list : V[list[i]] = IF i \in indices THEN W[list[i]] ELSE 0

\* What is picked weighs what its elements weigh in the list.
LEMMA WeighPicked ==
    ASSUME NEW R, NEW list \in Seq(R), NEW indices, NEW W \in [R -> Int], NEW V \in [R -> Int],
           OnlyAt(V, W, list, indices)
    PROVE  Weigh(W, Picked(list, indices)) = Weigh(V, list)
<1> DEFINE n == Len(list)
<1>1. PICK v \in [0..n -> Seq(R)] : PickSteps(v, list, indices) /\ Picked(list, indices) = v[n]
  BY PickedSteps
<1>2. n \in Nat /\ n \in 0..n /\ DOMAIN list = 1..n
  OBVIOUS
<1>3. Weigh(V, list) = WeighTo(V, list, n) /\ WeighTo(V, list, 0) = 0
  BY WeighWhole
<1>7. \A k \in 1..n : /\ WeighTo(V, list, k) = WeighTo(V, list, k - 1) + V[list[k]]
                      /\ WeighTo(V, list, k - 1) \in Int
  BY WeighStep
<1>8. OneMore(R, W)
  BY WeighAppends, Zenon
<1> DEFINE T == {k \in 0..n : Weigh(W, v[k]) = WeighTo(V, list, k)}
<1>4. 0 \in T
  <2>1. v[0] = <<>> /\ 0 \in 0..n
    BY <1>1, <1>2 DEF PickSteps
  <2> QED BY <1>3, <2>1, WeighEmpty
<1>5. ASSUME NEW k \in 1..n, k - 1 \in T
      PROVE  k \in T
  <2>7. k \in 0..n /\ k - 1 \in 0..n /\ list[k] \in R /\ W[list[k]] \in Int
    BY <1>2
  <2>8. v[k - 1] \in Seq(R) /\ Weigh(W, v[k - 1]) = WeighTo(V, list, k - 1)
    BY <1>5, <2>7
  <2>1. /\ k \in 0..n /\ k - 1 \in 0..n /\ list[k] \in R /\ W[list[k]] \in Int
        /\ v[k - 1] \in Seq(R) /\ Weigh(W, v[k - 1]) = WeighTo(V, list, k - 1)
    BY <2>7, <2>8
  <2>2. v[k] = IF k \in indices THEN Append(v[k - 1], list[k]) ELSE v[k - 1]
    BY <1>1 DEF PickSteps
  <2>3. WeighTo(V, list, k) = WeighTo(V, list, k - 1) + V[list[k]]
        /\ WeighTo(V, list, k - 1) \in Int
    BY <1>7
  <2>4. V[list[k]] = IF k \in indices THEN W[list[k]] ELSE 0
    BY <1>2 DEF OnlyAt
  <2>5. Weigh(W, Append(v[k - 1], list[k])) = Weigh(W, v[k - 1]) + W[list[k]]
    BY <1>8, <2>1 DEF OneMore
  <2>6. Weigh(W, v[k]) = WeighTo(V, list, k)
    BY <2>1, <2>2, <2>3, <2>4, <2>5
  <2> QED BY <2>1, <2>6
<1>6. n \in T
  <2> HIDE DEF T, n
  <2>1. \A k \in 0..n : k \in T
    BY <1>2, <1>4, <1>5, StepByStep
  <2> QED BY <1>2, <2>1
<1> QED BY <1>1, <1>2, <1>3, <1>6

\* Lists whose elements weigh the same weigh the same.
Alike(W, t, V, s) == DOMAIN t = DOMAIN s /\ \A i \in DOMAIN s : W[t[i]] = V[s[i]]

\* Lists whose elements weigh the same, one by one, weigh the same.
LEMMA WeighAlike ==
    ASSUME NEW R, NEW V \in [R -> Int], NEW s \in Seq(R), NEW W, NEW t, Alike(W, t, V, s)
    PROVE  Weigh(W, t) = Weigh(V, s)
<1> DEFINE S == DOMAIN s
           e == [i \in DOMAIN t |-> W[t[i]]]
           f == [i \in DOMAIN s |-> V[s[i]]]
<1>1. IsFiniteSet(S)
  <2>1. S = 1..Len(s) /\ Len(s) \in Nat
    OBVIOUS
  <2> QED BY <2>1, FS_Interval
<1>2. \A i \in S : s[i] \in R /\ f[i] \in Int
  OBVIOUS
<1>3. DOMAIN t = S /\ \A i \in S : e[i] = f[i]
  BY DEF Alike
<1> HIDE DEF e, f, S
<1>4. SumFunctionOnSet(e, S) = SumFunctionOnSet(f, S)
  BY <1>1, <1>2, <1>3, SumSame
<1> QED BY <1>3, <1>4 DEF Weigh, e, f, S

AlikeWeigh(W, t, V, s, R) ==
    V \in [R -> Int] /\ s \in Seq(R) /\ Alike(W, t, V, s) => Weigh(W, t) = Weigh(V, s)

\* The same for all lists and weights.
LEMMA AlikeWeighSame == \A W, t, V, s, R : AlikeWeigh(W, t, V, s, R)
<1> SUFFICES ASSUME NEW W, NEW t, NEW V, NEW s, NEW R,
                    V \in [R -> Int], s \in Seq(R), Alike(W, t, V, s)
             PROVE  Weigh(W, t) = Weigh(V, s)
  BY DEF AlikeWeigh
<1> QED BY WeighAlike

\* Weights of one sign.
LEMMA WeighSign ==
    ASSUME NEW R, NEW W \in [R -> Int], NEW list \in Seq(R)
    PROVE  /\ (\A i \in DOMAIN list : W[list[i]] >= 0) => Weigh(W, list) >= 0
           /\ (\A i \in DOMAIN list : W[list[i]] <= 0) => Weigh(W, list) <= 0
<1> DEFINE n == Len(list)
           w(k) == WeighTo(W, list, k)
<1>1. n \in Nat /\ n \in 0..n /\ DOMAIN list = 1..n
  OBVIOUS
<1>2. Weigh(W, list) = w(n) /\ w(0) = 0
  BY WeighWhole
<1>3. \A k \in 1..n : w(k) = w(k - 1) + W[list[k]] /\ w(k - 1) \in Int /\ W[list[k]] \in Int
  BY WeighStep
<1> HIDE DEF w, n
<1>4. ASSUME \A i \in DOMAIN list : W[list[i]] >= 0
      PROVE  w(n) >= 0
  <2> DEFINE T == {k \in 0..n : w(k) >= 0}
  <2>1. 0 \in T
    BY <1>1, <1>2
  <2>2. ASSUME NEW k \in 1..n, k - 1 \in T
        PROVE  k \in T
    <3>1. w(k) = w(k - 1) + W[list[k]] /\ w(k - 1) \in Int /\ W[list[k]] \in Int /\ W[list[k]] >= 0
      BY <1>1, <1>3, <1>4
    <3>2. w(k - 1) >= 0 /\ k \in 0..n
      BY <1>1, <2>2
    <3>3. w(k) >= 0
      BY <3>1, <3>2
    <3> QED BY <3>2, <3>3
  <2>3. \A k \in 0..n : k \in T
    <3> HIDE DEF T
    <3> QED BY <1>1, <2>1, <2>2, StepByStep
  <2> QED BY <1>1, <2>3
<1>5. ASSUME \A i \in DOMAIN list : W[list[i]] <= 0
      PROVE  w(n) <= 0
  <2> DEFINE T == {k \in 0..n : w(k) <= 0}
  <2>1. 0 \in T
    BY <1>1, <1>2
  <2>2. ASSUME NEW k \in 1..n, k - 1 \in T
        PROVE  k \in T
    <3>1. w(k) = w(k - 1) + W[list[k]] /\ w(k - 1) \in Int /\ W[list[k]] \in Int /\ W[list[k]] <= 0
      BY <1>1, <1>3, <1>5
    <3>2. w(k - 1) <= 0 /\ k \in 0..n
      BY <1>1, <2>2
    <3>3. w(k) <= 0
      BY <3>1, <3>2
    <3> QED BY <3>2, <3>3
  <2>3. \A k \in 0..n : k \in T
    <3> HIDE DEF T
    <3> QED BY <1>1, <2>1, <2>2, StepByStep
  <2> QED BY <1>1, <2>3
<1> QED BY <1>2, <1>4, <1>5

-----------------------------------------------------------------------------
(* Claims *)

IsTotal(g, list, D) ==
    g = [s \in SUBSET D |-> IF s = {} THEN 0 ELSE g[s \ {Max(s)}] + list[Max(s)].amount]

\* Amounts are folded over the indices of a list.
LEMMA TotalUnfold ==
    ASSUME NEW list, NEW g0, IsTotal(g0, list, DOMAIN list)
    PROVE  \E g : IsTotal(g, list, DOMAIN list) /\ Amount(list) = g[DOMAIN list] /\ Total(list) = g[DOMAIN list]
<1> DEFINE It == CHOOSE g : IsTotal(g, list, DOMAIN list)
<1>1. IsTotal(It, list, DOMAIN list)
  OBVIOUS
<1>2. Amount(list) = It[DOMAIN list]
  BY DEF Amount, FoldLeft, MapThenFoldSet, IsTotal
<1>3. Total(list) = It[DOMAIN list]
  BY DEF Total, FoldLeft, MapThenFoldSet, IsTotal
<1> QED BY <1>1, <1>2, <1>3

\* The amount of a list is the sum of its amounts.
LEMMA AmountIsSum ==
    ASSUME NEW R, NEW W \in [R -> Int], \A r \in R : W[r] = r.amount, NEW list \in Seq(R)
    PROVE  Amount(list) = Weigh(W, list) /\ Total(list) = Weigh(W, list) /\ Weigh(W, list) \in Int
<1> DEFINE n == Len(list)
           op == [p \in Int \X R |-> p[1] + W[p[2]]]
           f == [i \in DOMAIN list |-> W[list[i]]]
<1>1. n \in Nat /\ DOMAIN list = 1..n /\ list \in [1..n -> R]
  OBVIOUS
<1>2. op \in [Int \X R -> Int]
  OBVIOUS
<1>11. HasFold(op, 0, list, n, Int)
  <2> DEFINE D == 1..n
  <2>1. 0 \in Int /\ list \in [D -> R]
    BY <1>1
  <2> HIDE DEF op, n
  <2> QED BY <1>1, <1>2, <2>1, FoldDefined, Zenon
<1>3. PICK g0 \in [SUBSET (1..n) -> Int] : FoldsUp(g0, op, 0, list, n)
  BY <1>11 DEF HasFold
<1>4. IsTotal(g0, list, 1..n)
  <2> SUFFICES ASSUME NEW s \in SUBSET (1..n)
               PROVE  g0[s] = IF s = {} THEN 0 ELSE g0[s \ {Max(s)}] + list[Max(s)].amount
    BY DEF IsTotal
  <2>1. CASE s # {}
    <3>1. Max(s) \in 1..n
      <4>1. s \in SUBSET Nat /\ \A m \in s : m <= n
        OBVIOUS
      <4> QED BY <1>1, <2>1, <4>1, MaxOfNaturals
    <3>2. g0[s] = op[<<g0[s \ {Max(s)}], list[Max(s)]>>]
      BY <1>3, <2>1 DEF FoldsUp
    <3>3. g0[s \ {Max(s)}] \in Int /\ list[Max(s)] \in R
      BY <1>1, <3>1
    <3>4. W[list[Max(s)]] = list[Max(s)].amount
      BY <3>3
    <3> QED BY <2>1, <3>2, <3>3, <3>4
  <2>2. CASE s = {}
    BY <1>3, <2>2 DEF FoldsUp
  <2> QED BY <2>1, <2>2
<1>5. PICK g : IsTotal(g, list, 1..n) /\ Amount(list) = g[1..n] /\ Total(list) = g[1..n]
  BY <1>1, <1>4, TotalUnfold
<1> DEFINE T == {k \in 0..n : g[1..k] = SumFunctionOnSet(f, 1..k)}
<1>6. IntegersOn(f, 1..n)
  BY <1>1 DEF IntegersOn
<1>7. 0 \in T
  <2>1. 1..0 \in SUBSET (1..n) /\ 1..0 = {}
    OBVIOUS
  <2>2. g[1..0] = 0
    BY <1>5, <2>1 DEF IsTotal
  <2> QED BY <1>1, <2>2, SumNothing
<1>8. ASSUME NEW k \in 1..n, k - 1 \in T
      PROVE  k \in T
  <2>1. k \in Nat \ {0} /\ 1..k \in SUBSET (1..n)
    BY <1>1
  <2>2. Max(1..k) = k /\ (1..k) \ {k} = 1..(k - 1) /\ 1..k # {}
    BY <2>1, MaxOfInterval, IntervalStep
  <2>3. g[1..k] = g[1..(k - 1)] + list[k].amount
    BY <1>5, <2>1, <2>2 DEF IsTotal
  <2>4. SumFunctionOnSet(f, 1..k) = SumFunctionOnSet(f, 1..(k - 1)) + f[k]
    <3> HIDE DEF f, n
    <3> QED BY <1>1, <1>6, SumPartial
  <2>5. f[k] = list[k].amount
    BY <1>1
  <2> QED BY <1>8, <2>3, <2>4, <2>5
<1>9. n \in T
  <2> HIDE DEF T
  <2>1. \A k \in 0..n : k \in T
    BY <1>1, <1>7, <1>8, StepByStep
  <2> QED BY <1>1, <2>1
<1>10. SumFunctionOnSet(f, 1..n) \in Int
  BY <1>1, <1>6, SumStep
<1> QED BY <1>1, <1>5, <1>9, <1>10 DEF Weigh
-----------------------------------------------------------------------------
(* Claims and merging *)

ClaimTypes == {"DIRECT", "FEE", "WNAT", "MIRROR"}
ClaimsTo(To) == [to : To, type : ClaimTypes, amount : Int]

AmountsOf(R) == [c \in R |-> c.amount]
GainsOf(R) == [c \in R |-> IF c.amount > 0 THEN c.amount ELSE 0]

\* A weight that claims of one key keep when they are merged.
Additive(W, To) ==
    \A c, d \in ClaimsTo(To) : Key(c) = Key(d) =>
        W[Claim(c.to, c.type, c.amount + d.amount)] = W[c] + W[d]

DistinctKeys(list) ==
    \A i, j \in DOMAIN list : Key(list[i]) = Key(list[j]) => i = j

KeysOf(list) == {Key(list[i]) : i \in DOMAIN list}

ReplaceWeighs(W, list, k, x, R) ==
    W \in [R -> Int] /\ list \in Seq(R) /\ k \in DOMAIN list /\ x \in R =>
        /\ Weigh(W, [list EXCEPT ![k] = x]) = Weigh(W, list) - W[list[k]] + W[x]
        /\ Weigh(W, list) \in Int

\* Replacing an element.
LEMMA WeighReplace == \A W, list, k, x, R : ReplaceWeighs(W, list, k, x, R)
<1> SUFFICES ASSUME NEW R, NEW W \in [R -> Int], NEW list \in Seq(R), NEW k \in DOMAIN list,
                    NEW x \in R
             PROVE  /\ Weigh(W, [list EXCEPT ![k] = x]) = Weigh(W, list) - W[list[k]] + W[x]
                    /\ Weigh(W, list) \in Int
  BY DEF ReplaceWeighs
<1> DEFINE new == [list EXCEPT ![k] = x]
           S == DOMAIN list
           f == [i \in DOMAIN list |-> W[list[i]]]
           g == [i \in DOMAIN new |-> W[new[i]]]
<1>1. new \in Seq(R) /\ DOMAIN new = S /\ new[k] = x /\ \A i \in S \ {k} : new[i] = list[i]
  OBVIOUS
<1>2. IsFiniteSet(S) /\ IsFiniteSet(S \ {k}) /\ k \in S
  <2>1. S = 1..Len(list) /\ Len(list) \in Nat
    OBVIOUS
  <2>2. IsFiniteSet(S)
    BY <2>1, FS_Interval
  <2> QED BY <2>2, FS_RemoveElement
<1>3. \A i \in S : f[i] \in Int /\ f[i] = W[list[i]]
  OBVIOUS
<1> HIDE DEF new
<1>4. \A i \in S : g[i] \in Int /\ g[i] = W[new[i]]
  BY <1>1
<1>5. IntegersOn(f, S) /\ IntegersOn(g, S)
  BY <1>3, <1>4 DEF IntegersOn
<1>6. Weigh(W, list) = SumFunctionOnSet(f, S) /\ Weigh(W, new) = SumFunctionOnSet(g, S)
  BY <1>1 DEF Weigh
<1>7. \A i \in S \ {k} : f[i] = g[i] /\ g[i] \in Int
  BY <1>1, <1>3, <1>4
<1>8. f[k] = W[list[k]] /\ g[k] = W[x]
  BY <1>1, <1>2, <1>3, <1>4
<1> HIDE DEF f, g, S
<1>9. SumFunctionOnSet(f, S \ {k}) = SumFunctionOnSet(g, S \ {k})
  BY <1>2, <1>7, SumSame
<1>10. SumFunctionOnSet(f, S) = f[k] + SumFunctionOnSet(f, S \ {k})
       /\ SumFunctionOnSet(f, S \ {k}) \in Int /\ f[k] \in Int /\ SumFunctionOnSet(f, S) \in Int
  BY <1>2, <1>5, SumOne
<1>11. SumFunctionOnSet(g, S) = g[k] + SumFunctionOnSet(g, S \ {k}) /\ g[k] \in Int
  BY <1>2, <1>5, SumOne
<1> QED BY <1>1, <1>6, <1>8, <1>9, <1>10, <1>11 DEF new

\* The keys of claims.
LEMMA KeyOfClaim ==
    ASSUME NEW To, NEW c \in ClaimsTo(To), NEW d \in ClaimsTo(To)
    PROVE  /\ c.to \in To /\ c.type \in ClaimTypes /\ c.amount \in Int
           /\ Key(c) = Key(d) <=> c.to = d.to /\ c.type = d.type /\ (c.amount < 0 <=> d.amount < 0)
BY DEF ClaimsTo, Key

\* Merging one claim more: a weight that merging keeps grows by that of the
\* claim, and keys stay distinct.
LEMMA MergeInKeeps ==
    ASSUME NEW To, NEW merged \in Seq(ClaimsTo(To)), DistinctKeys(merged), NEW c \in ClaimsTo(To)
    PROVE  /\ MergeIn(merged, c) \in Seq(ClaimsTo(To))
           /\ DistinctKeys(MergeIn(merged, c))
           /\ KeysOf(MergeIn(merged, c)) = KeysOf(merged) \cup {Key(c)}
           /\ Key(c) \notin KeysOf(merged) => MergeIn(merged, c) = Append(merged, c)
           /\ \A W \in [ClaimsTo(To) -> Int] : Additive(W, To) =>
                 Weigh(W, MergeIn(merged, c)) = Weigh(W, merged) + W[c]
<1> DEFINE R == ClaimsTo(To)
           same == {i \in DOMAIN merged : Key(merged[i]) = Key(c)}
           n == Len(merged)
<1>1. n \in Nat /\ DOMAIN merged = 1..n /\ merged \in [1..n -> R]
  OBVIOUS
<1>2. CASE same = {}
  <2> DEFINE new == Append(merged, c)
  <2>1. MergeIn(merged, c) = new
    BY <1>2 DEF MergeIn
  <2>2. new \in Seq(R) /\ DOMAIN new = 1..(n + 1) /\ new[n + 1] = c /\ \A i \in 1..n : new[i] = merged[i]
    BY <1>1
  <2>3. \A i \in 1..n : Key(merged[i]) # Key(c)
    BY <1>1, <1>2
  <2>4. \A i \in 1..(n + 1) : i = n + 1 \/ i \in 1..n
    BY <1>1
  <2>9. n + 1 \in 1..(n + 1) /\ \A i \in 1..n : i \in 1..(n + 1)
    BY <1>1
  <2> HIDE DEF new
  <2>5. DistinctKeys(new)
    <3> SUFFICES ASSUME NEW i \in 1..(n + 1), NEW j \in 1..(n + 1), Key(new[i]) = Key(new[j])
                 PROVE  i = j
      BY <2>2 DEF DistinctKeys
    <3>1. CASE i \in 1..n /\ j \in 1..n
      BY <1>1, <2>2, <3>1 DEF DistinctKeys
    <3>2. CASE i = n + 1 /\ j \in 1..n
      BY <2>2, <2>3, <3>2
    <3>3. CASE i \in 1..n /\ j = n + 1
      BY <2>2, <2>3, <3>3
    <3> QED BY <2>4, <3>1, <3>2, <3>3
  <2>6. KeysOf(new) = KeysOf(merged) \cup {Key(c)}
    BY <1>1, <2>2, <2>4, <2>9 DEF KeysOf
  <2>7. ASSUME NEW W \in [R -> Int]
        PROVE  Weigh(W, new) = Weigh(W, merged) + W[c]
    <3> HIDE DEF R
    <3> QED BY WeighAppend DEF new, R
  <2>8. Key(c) \notin KeysOf(merged)
    BY <1>1, <2>3 DEF KeysOf
  <2> QED BY <2>1, <2>2, <2>5, <2>6, <2>7, <2>8 DEF new
<1>3. CASE same # {}
  <2> DEFINE k == CHOOSE i \in same : TRUE
             x == Claim(merged[k].to, merged[k].type, merged[k].amount + c.amount)
             new == [merged EXCEPT ![k] = x]
  <2>1. k \in DOMAIN merged /\ Key(merged[k]) = Key(c)
    BY <1>3
  <2>2. merged[k] \in R /\ MergeIn(merged, c) = [merged EXCEPT ![k].amount = @ + c.amount]
    BY <1>1, <1>3, <2>1 DEF MergeIn
  <2> HIDE DEF k
  <2>3. [merged[k] EXCEPT !.amount = @ + c.amount] = x
    BY <2>2 DEF ClaimsTo, Claim
  <2>4. MergeIn(merged, c) = new
    BY <2>2, <2>3
  <2>5. x \in R /\ Key(x) = Key(c)
    <3>1. /\ c.amount \in Int /\ merged[k].amount \in Int
          /\ merged[k].to \in To /\ merged[k].type \in ClaimTypes
      BY <2>2 DEF ClaimsTo
    <3>2. merged[k].to = c.to /\ merged[k].type = c.type /\ (merged[k].amount < 0 <=> c.amount < 0)
      BY <2>1, <2>2, KeyOfClaim
    <3>3. x.to = c.to /\ x.type = c.type /\ x.amount = merged[k].amount + c.amount
      BY <3>2 DEF Claim
    <3>4. x.amount < 0 <=> c.amount < 0
      BY <3>1, <3>2, <3>3
    <3> QED BY <3>1, <3>3, <3>4 DEF Key, ClaimsTo, Claim
  <2>6. new \in Seq(R) /\ DOMAIN new = DOMAIN merged
        /\ \A i \in DOMAIN new : new[i] = IF i = k THEN x ELSE merged[i]
    <3> HIDE DEF x
    <3> QED BY <2>1, <2>5
  <2> HIDE DEF new, x
  <2>7. \A i \in DOMAIN merged : Key(new[i]) = Key(merged[i])
    BY <2>1, <2>5, <2>6
  <2>8. DistinctKeys(new)
    BY <2>6, <2>7 DEF DistinctKeys
  <2>9. KeysOf(new) = KeysOf(merged)
    BY <2>6, <2>7 DEF KeysOf
  <2>10. Key(c) \in KeysOf(merged)
    BY <2>1 DEF KeysOf
  <2>11. ASSUME NEW W \in [R -> Int], Additive(W, To)
         PROVE  Weigh(W, new) = Weigh(W, merged) + W[c]
    <3>1. W[x] = W[merged[k]] + W[c]
      BY <2>1, <2>2, <2>11 DEF Additive, x
    <3>2. Weigh(W, new) = Weigh(W, merged) - W[merged[k]] + W[x] /\ Weigh(W, merged) \in Int
      <4>1. W \in [R -> Int] /\ merged \in Seq(R) /\ k \in DOMAIN merged /\ x \in R
        BY <2>1, <2>5
      <4> HIDE DEF R
      <4>2. /\ Weigh(W, [merged EXCEPT ![k] = x]) = Weigh(W, merged) - W[merged[k]] + W[x]
            /\ Weigh(W, merged) \in Int
        <5>1. ReplaceWeighs(W, merged, k, x, R)
          BY WeighReplace, Zenon
        <5> QED BY <4>1, <5>1, Zenon DEF ReplaceWeighs
      <4> QED BY <4>2 DEF new
    <3>3. W[merged[k]] \in Int /\ W[c] \in Int
      BY <2>2
    <3> QED BY <3>1, <3>2, <3>3
  <2> QED BY <2>4, <2>6, <2>8, <2>9, <2>10, <2>11
<1> QED BY <1>2, <1>3

\* What comes out of merging.
MergedTo(To) == {list \in Seq(ClaimsTo(To)) : DistinctKeys(list)}

MergesInto(To, m, c) ==
    /\ MergeIn(m, c) \in MergedTo(To)
    /\ KeysOf(MergeIn(m, c)) = KeysOf(m) \cup {Key(c)}
    /\ Key(c) \notin KeysOf(m) => MergeIn(m, c) = Append(m, c)
    /\ \A W \in [ClaimsTo(To) -> Int] : Additive(W, To) =>
          Weigh(W, MergeIn(m, c)) = Weigh(W, m) + W[c]

\* The same for lists that are merged.
LEMMA MergeInGood ==
    ASSUME NEW To, NEW m \in MergedTo(To), NEW c \in ClaimsTo(To)
    PROVE  MergesInto(To, m, c)
<1>1. m \in Seq(ClaimsTo(To)) /\ DistinctKeys(m)
  BY DEF MergedTo
<1> QED BY <1>1, MergeInKeeps DEF MergesInto, MergedTo

IsMerge(g, list, D) ==
    g = [s \in SUBSET D |-> IF s = {} THEN <<>> ELSE MergeIn(g[s \ {Max(s)}], list[Max(s)])]

\* Merge folds MergeIn over the indices of a list.
LEMMA MergeUnfold ==
    ASSUME NEW list, NEW g0, IsMerge(g0, list, DOMAIN list)
    PROVE  \E g : IsMerge(g, list, DOMAIN list) /\ Merge(list) = g[DOMAIN list]
<1> DEFINE It == CHOOSE g : IsMerge(g, list, DOMAIN list)
<1>1. IsMerge(It, list, DOMAIN list)
  OBVIOUS
<1>2. Merge(list) = It[DOMAIN list]
  BY DEF Merge, FoldLeft, MapThenFoldSet, IsMerge
<1> QED BY <1>1, <1>2

\* v goes through the lists merged so far.
MergeSteps(v, list) ==
    v[0] = <<>> /\ \A k \in 1..Len(list) : v[k] = MergeIn(v[k - 1], list[k])

\* Claims are merged one after the other.
LEMMA MergeInSteps ==
    ASSUME NEW To, NEW list \in Seq(ClaimsTo(To))
    PROVE  \E v \in [0..Len(list) -> MergedTo(To)] :
              MergeSteps(v, list) /\ Merge(list) = v[Len(list)]
<1> DEFINE n == Len(list)
           R == ClaimsTo(To)
           A == MergedTo(To)
           op == [p \in A \X R |-> MergeIn(p[1], p[2])]
<1>1. n \in Nat /\ DOMAIN list = 1..n /\ list \in [1..n -> R]
  OBVIOUS
<1>2. ASSUME NEW m \in A, NEW c \in R
      PROVE  MergeIn(m, c) \in A
  BY MergeInGood DEF MergesInto
<1>3. op \in [A \X R -> A]
  <2> HIDE DEF A, R
  <2> QED BY <1>2
<1>4. <<>> \in A
  BY DEF MergedTo, DistinctKeys
<1>5. HasFold(op, <<>>, list, n, A)
  <2> DEFINE D == 1..n
  <2>1. list \in [D -> R]
    BY <1>1
  <2> HIDE DEF op, n, R, A
  <2> QED BY <1>1, <1>3, <1>4, <2>1, FoldDefined, Zenon
<1>6. PICK g0 \in [SUBSET (1..n) -> A] : FoldsUp(g0, op, <<>>, list, n)
  BY <1>5 DEF HasFold
<1>7. IsMerge(g0, list, 1..n)
  <2> SUFFICES ASSUME NEW s \in SUBSET (1..n)
               PROVE  g0[s] = IF s = {} THEN <<>> ELSE MergeIn(g0[s \ {Max(s)}], list[Max(s)])
    BY DEF IsMerge
  <2>1. CASE s # {}
    <3>1. Max(s) \in 1..n
      <4>1. s \in SUBSET Nat /\ \A m \in s : m <= n
        OBVIOUS
      <4> QED BY <1>1, <2>1, <4>1, MaxOfNaturals
    <3>2. g0[s] = op[<<g0[s \ {Max(s)}], list[Max(s)]>>]
      BY <1>6, <2>1 DEF FoldsUp
    <3> HIDE DEF R, A
    <3>3. g0[s \ {Max(s)}] \in A /\ list[Max(s)] \in R
      BY <1>1, <3>1
    <3> QED BY <2>1, <3>2, <3>3
  <2>2. CASE s = {}
    BY <1>6, <2>2 DEF FoldsUp
  <2> QED BY <2>1, <2>2
<1>8. PICK g : IsMerge(g, list, 1..n) /\ Merge(list) = g[1..n]
  BY <1>1, <1>7, MergeUnfold
<1> DEFINE v == [k \in 0..n |-> g[1..k]]
<1>9. v[0] = <<>>
  <2>1. 1..0 \in SUBSET (1..n) /\ 1..0 = {} /\ 0 \in 0..n
    BY <1>1
  <2> QED BY <1>8, <2>1 DEF IsMerge
<1>10. ASSUME NEW k \in 1..n
       PROVE  v[k] = MergeIn(v[k - 1], list[k])
  <2>1. k \in Nat \ {0} /\ 1..k \in SUBSET (1..n) /\ k \in 0..n /\ k - 1 \in 0..n
    BY <1>1
  <2>2. Max(1..k) = k /\ (1..k) \ {k} = 1..(k - 1) /\ 1..k # {}
    BY <2>1, MaxOfInterval, IntervalStep
  <2>3. g[1..k] = MergeIn(g[1..(k - 1)], list[k])
    BY <1>8, <2>1, <2>2 DEF IsMerge
  <2> QED BY <2>1, <2>3
<1>11. v = [k \in 0..n |-> v[k]] /\ v[n] = g[1..n]
  BY <1>1
<1> HIDE DEF v, A, R
<1> DEFINE T == {k \in 0..n : v[k] \in A}
<1>12. \A k \in 0..n : k \in T
  <2>1. 0 \in T
    BY <1>1, <1>4, <1>9
  <2>2. ASSUME NEW k \in 1..n, k - 1 \in T
        PROVE  k \in T
    <3>1. v[k - 1] \in A /\ list[k] \in R /\ k \in 0..n
      BY <1>1, <2>2
    <3>2. v[k] \in A
      BY <1>2, <1>10, <3>1
    <3> QED BY <3>1, <3>2
  <2> HIDE DEF T, n
  <2> QED BY <1>1, <2>1, <2>2, StepByStep
<1>13. v \in [0..n -> A]
  BY <1>11, <1>12
<1>14. MergeSteps(v, list)
  BY <1>9, <1>10 DEF MergeSteps
<1> QED BY <1>8, <1>11, <1>13, <1>14 DEF A

\* Merging keeps the weights that claims of one key keep, leaves one claim for
\* every key, and loses and adds no key.
LEMMA MergeKeeps ==
    ASSUME NEW To, NEW list \in Seq(ClaimsTo(To))
    PROVE  /\ Merge(list) \in MergedTo(To)
           /\ KeysOf(Merge(list)) = KeysOf(list)
<1> DEFINE n == Len(list)
<1>1. PICK v \in [0..n -> MergedTo(To)] : MergeSteps(v, list) /\ Merge(list) = v[n]
  BY MergeInSteps
<1>2. n \in Nat /\ n \in 0..n /\ DOMAIN list = 1..n /\ list \in [1..n -> ClaimsTo(To)]
  OBVIOUS
<1> DEFINE Upto(k) == {Key(list[i]) : i \in 1..k}
           T == {k \in 0..n : KeysOf(v[k]) = Upto(k)}
<1>3. 0 \in T
  <2>1. v[0] = <<>> /\ 0 \in 0..n /\ 1..0 = {} /\ DOMAIN <<>> = {}
    BY <1>1, <1>2 DEF MergeSteps
  <2>2. KeysOf(<<>>) = {}
    BY <2>1 DEF KeysOf
  <2> QED BY <2>1, <2>2
<1>4. ASSUME NEW k \in 1..n, k - 1 \in T
      PROVE  k \in T
  <2>1. k \in 0..n /\ k - 1 \in 0..n /\ list[k] \in ClaimsTo(To) /\ 1..k = 1..(k - 1) \cup {k}
    BY <1>2
  <2>2. v[k - 1] \in MergedTo(To) /\ KeysOf(v[k - 1]) = Upto(k - 1) /\ v[k] = MergeIn(v[k - 1], list[k])
    BY <1>1, <1>4, <2>1 DEF MergeSteps
  <2>3. KeysOf(v[k]) = KeysOf(v[k - 1]) \cup {Key(list[k])}
    <3>1. MergesInto(To, v[k - 1], list[k])
      BY <2>1, <2>2, MergeInGood
    <3> QED BY <2>2, <3>1 DEF MergesInto
  <2>4. Upto(k) = Upto(k - 1) \cup {Key(list[k])}
    BY <2>1
  <2> QED BY <2>1, <2>2, <2>3, <2>4
<1>5. n \in T
  <2> HIDE DEF T, n
  <2>1. \A k \in 0..n : k \in T
    BY <1>2, <1>3, <1>4, StepByStep
  <2> QED BY <1>2, <2>1
<1>6. KeysOf(list) = Upto(n)
  BY <1>2 DEF KeysOf
<1> QED BY <1>1, <1>2, <1>5, <1>6

\* Weights that merging one claim keeps are kept by merging all.
LEMMA WeighMerge ==
    ASSUME NEW To, NEW list \in Seq(ClaimsTo(To)), NEW W \in [ClaimsTo(To) -> Int],
           Additive(W, To)
    PROVE  Weigh(W, Merge(list)) = Weigh(W, list)
<1> DEFINE n == Len(list)
<1>1. PICK v \in [0..n -> MergedTo(To)] : MergeSteps(v, list) /\ Merge(list) = v[n]
  BY MergeInSteps
<1>2. n \in Nat /\ n \in 0..n /\ DOMAIN list = 1..n /\ list \in [1..n -> ClaimsTo(To)]
  OBVIOUS
<1>3. Weigh(W, list) = WeighTo(W, list, n) /\ WeighTo(W, list, 0) = 0
  BY WeighWhole
<1>6. \A k \in 1..n : WeighTo(W, list, k) = WeighTo(W, list, k - 1) + W[list[k]]
  BY WeighStep
<1> DEFINE T == {k \in 0..n : Weigh(W, v[k]) = WeighTo(W, list, k)}
<1>4. 0 \in T
  <2>1. v[0] = <<>> /\ 0 \in 0..n
    BY <1>1, <1>2 DEF MergeSteps
  <2> QED BY <1>3, <2>1, WeighEmpty
<1>5. ASSUME NEW k \in 1..n, k - 1 \in T
      PROVE  k \in T
  <2>1. k \in 0..n /\ k - 1 \in 0..n /\ list[k] \in ClaimsTo(To)
    BY <1>2
  <2>2. v[k] = MergeIn(v[k - 1], list[k])
    BY <1>1 DEF MergeSteps
  <2>3. MergesInto(To, v[k - 1], list[k])
    <3>1. v[k - 1] \in MergedTo(To)
      BY <2>1
    <3> QED BY <2>1, <3>1, MergeInGood
  <2>4. Weigh(W, v[k]) = Weigh(W, v[k - 1]) + W[list[k]]
    BY <2>2, <2>3 DEF MergesInto
  <2>5. Weigh(W, v[k - 1]) = WeighTo(W, list, k - 1)
    BY <1>5
  <2>6. WeighTo(W, list, k) = WeighTo(W, list, k - 1) + W[list[k]]
    BY <1>6
  <2> QED BY <2>1, <2>4, <2>5, <2>6
<1>7. n \in T
  <2> HIDE DEF T, n
  <2>1. \A k \in 0..n : k \in T
    BY <1>2, <1>4, <1>5, StepByStep
  <2> QED BY <1>2, <2>1
<1> QED BY <1>1, <1>3, <1>7

\* Steps agree as long as the lists do.
LEMMA MergeStepsAgree ==
    ASSUME NEW To, NEW s \in Seq(ClaimsTo(To)), NEW t \in Seq(ClaimsTo(To)),
           NEW v, MergeSteps(v, s), NEW w, MergeSteps(w, t),
           NEW n \in Nat, n <= Len(s), n <= Len(t), \A i \in 1..n : s[i] = t[i]
    PROVE  v[n] = w[n]
<1> DEFINE T == {k \in 0..n : v[k] = w[k]}
<1>1. 0 \in T
  <2>1. 0 \in 0..n
    OBVIOUS
  <2> QED BY <2>1 DEF MergeSteps
<1>2. ASSUME NEW k \in 1..n, k - 1 \in T
      PROVE  k \in T
  <2>1. k \in 1..Len(s) /\ k \in 1..Len(t) /\ s[k] = t[k] /\ k \in 0..n
    OBVIOUS
  <2>2. v[k - 1] = w[k - 1]
    BY <1>2
  <2>3. v[k] = w[k]
    BY <2>1, <2>2 DEF MergeSteps
  <2> QED BY <2>1, <2>3
<1>3. n \in T
  <2> HIDE DEF T
  <2>1. \A k \in 0..n : k \in T
    BY <1>1, <1>2, StepByStep
  <2> QED BY <2>1
<1> QED BY <1>3

\* A list with one claim more is merged by merging it in.
LEMMA MergeAppend ==
    ASSUME NEW To, NEW s \in Seq(ClaimsTo(To)), NEW c \in ClaimsTo(To)
    PROVE  Merge(Append(s, c)) = MergeIn(Merge(s), c)
<1> DEFINE t == Append(s, c)
           n == Len(s)
<1>1. n \in Nat /\ t \in Seq(ClaimsTo(To)) /\ Len(t) = n + 1 /\ t[n + 1] = c
      /\ \A i \in 1..n : s[i] = t[i]
  OBVIOUS
<1> HIDE DEF t
<1>2. PICK v : MergeSteps(v, s) /\ Merge(s) = v[n]
  BY MergeInSteps
<1>3. PICK w : MergeSteps(w, t) /\ Merge(t) = w[n + 1]
  BY <1>1, MergeInSteps
<1>4. v[n] = w[n]
  <2>1. n <= Len(s) /\ n <= Len(t)
    BY <1>1
  <2> HIDE DEF n
  <2> QED BY <1>1, <1>2, <1>3, <2>1, MergeStepsAgree
<1>5. w[n + 1] = MergeIn(w[n], t[n + 1])
  <2>1. n + 1 \in 1..Len(t) /\ (n + 1) - 1 = n
    BY <1>1
  <2>2. w[n + 1] = MergeIn(w[(n + 1) - 1], t[n + 1])
    BY <1>3, <2>1 DEF MergeSteps
  <2> QED BY <2>1, <2>2
<1> QED BY <1>1, <1>2, <1>3, <1>4, <1>5 DEF t

\* Parts of lists.
LEMMA PrefixStep ==
    ASSUME NEW R, NEW t \in Seq(R), NEW a \in Seq(R), NEW k \in 1..Len(t)
    PROVE  /\ SubSeq(t, 1, k - 1) \in Seq(R) /\ SubSeq(t, 1, k) \in Seq(R) /\ t[k] \in R
           /\ SubSeq(t, 1, k) = Append(SubSeq(t, 1, k - 1), t[k])
           /\ a \o SubSeq(t, 1, k) = Append(a \o SubSeq(t, 1, k - 1), t[k])
           /\ Len(SubSeq(t, 1, k - 1)) = k - 1
<1> DEFINE p == SubSeq(t, 1, k - 1)
           q == SubSeq(t, 1, k)
<1>1. /\ p \in Seq(R) /\ Len(p) = k - 1 /\ \A i \in 1..(k - 1) : p[i] = t[i]
      /\ q \in Seq(R) /\ Len(q) = k /\ \A i \in 1..k : q[i] = t[i]
      /\ t[k] \in R
  OBVIOUS
<1> HIDE DEF p, q
<1>2. q = Append(p, t[k])
  BY <1>1
<1>3. a \o Append(p, t[k]) = Append(a \o p, t[k])
  BY <1>1
<1> QED BY <1>1, <1>2, <1>3 DEF p, q

PrefixIs(R, t, a, k) ==
    t \in Seq(R) /\ a \in Seq(R) /\ k \in 1..Len(t) =>
        /\ SubSeq(t, 1, k - 1) \in Seq(R) /\ t[k] \in R
        /\ SubSeq(t, 1, k) = Append(SubSeq(t, 1, k - 1), t[k])
        /\ a \o SubSeq(t, 1, k) = Append(a \o SubSeq(t, 1, k - 1), t[k])

\* The same for all lists.
LEMMA PrefixSteps == \A R, t, a, k : PrefixIs(R, t, a, k)
<1> SUFFICES ASSUME NEW R, NEW t, NEW a, NEW k, t \in Seq(R), a \in Seq(R), k \in 1..Len(t)
             PROVE  /\ SubSeq(t, 1, k - 1) \in Seq(R) /\ t[k] \in R
                    /\ SubSeq(t, 1, k) = Append(SubSeq(t, 1, k - 1), t[k])
                    /\ a \o SubSeq(t, 1, k) = Append(a \o SubSeq(t, 1, k - 1), t[k])
  BY DEF PrefixIs
<1> QED BY PrefixStep

\* The first prefix of a list is empty, the last one is the list.
LEMMA PrefixEnds ==
    ASSUME NEW R, NEW t \in Seq(R), NEW a \in Seq(R)
    PROVE  /\ SubSeq(t, 1, 0) = <<>> /\ a \o SubSeq(t, 1, 0) = a
           /\ SubSeq(t, 1, Len(t)) = t
<1>1. SubSeq(t, 1, 0) = <<>>
  OBVIOUS
<1>2. SubSeq(t, 1, Len(t)) = t
  OBVIOUS
<1> QED BY <1>1, <1>2

\* What is merged stays as it is.
LEMMA MergeMerged ==
    ASSUME NEW To, NEW m \in MergedTo(To)
    PROVE  Merge(m) = m
<1> DEFINE n == Len(m)
           R == ClaimsTo(To)
<1>1. m \in Seq(R) /\ DistinctKeys(m) /\ n \in Nat /\ DOMAIN m = 1..n /\ n \in 0..n
  BY DEF MergedTo
<1>2. PICK v : MergeSteps(v, m) /\ Merge(m) = v[n]
  BY <1>1, MergeInSteps
<1> DEFINE T == {k \in 0..n : v[k] = SubSeq(m, 1, k)}
<1>3. 0 \in T
  <2>1. v[0] = <<>> /\ 0 \in 0..n
    BY <1>1, <1>2 DEF MergeSteps
  <2>2. SubSeq(m, 1, 0) = <<>>
    BY <1>1, PrefixEnds
  <2> QED BY <2>1, <2>2
<1>4. ASSUME NEW k \in 1..n, k - 1 \in T
      PROVE  k \in T
  <2> DEFINE p == SubSeq(m, 1, k - 1)
  <2>1. k \in 0..n /\ k - 1 \in 0..n /\ v[k - 1] = p
    BY <1>1, <1>4
  <2>2. p \in Seq(R) /\ m[k] \in R /\ SubSeq(m, 1, k) = Append(p, m[k])
    <3>1. PrefixIs(R, m, m, k) /\ k \in 1..Len(m) /\ m \in Seq(R)
      <4>1. PrefixIs(R, m, m, k)
        BY PrefixSteps, Zenon
      <4> QED BY <1>1, <4>1
    <3> QED BY ONLY <3>1, Zenon DEF PrefixIs, p
  <2>3. Len(p) = k - 1 /\ DOMAIN p = 1..(k - 1) /\ \A i \in 1..(k - 1) : p[i] = m[i] /\ i \in 1..n
    BY <1>1, <2>1
  <2> HIDE DEF p
  <2>4. DistinctKeys(p)
    BY <1>1, <2>3 DEF DistinctKeys
  <2>5. Key(m[k]) \notin KeysOf(p)
    <3> SUFFICES ASSUME NEW i \in 1..(k - 1), Key(m[k]) = Key(m[i]) PROVE FALSE
      BY <2>3 DEF KeysOf
    <3>1. i \in 1..n /\ i # k
      BY <2>3
    <3> QED BY <1>1, <3>1 DEF DistinctKeys
  <2>6. MergeIn(p, m[k]) = Append(p, m[k])
    <3>1. p \in MergedTo(To) /\ m[k] \in ClaimsTo(To)
      BY <2>2, <2>4 DEF MergedTo
    <3>2. MergesInto(To, p, m[k])
      BY <3>1, MergeInGood
    <3> QED BY <2>5, <3>2 DEF MergesInto
  <2>7. v[k] = MergeIn(v[k - 1], m[k])
    BY <1>2 DEF MergeSteps
  <2> QED BY <2>1, <2>2, <2>6, <2>7
<1>5. n \in T
  <2> HIDE DEF T, n
  <2>1. \A k \in 0..n : k \in T
    BY <1>1, <1>3, <1>4, StepByStep
  <2> QED BY <1>1, <2>1
<1>6. SubSeq(m, 1, n) = m
  BY <1>1, PrefixEnds
<1> QED BY <1>2, <1>5, <1>6

\* Claims may be merged in pieces.
LEMMA MergeInPieces ==
    ASSUME NEW To, NEW s \in Seq(ClaimsTo(To)), NEW t \in Seq(ClaimsTo(To))
    PROVE  Merge(Merge(s) \o t) = Merge(s \o t)
<1> DEFINE n == Len(t)
           R == ClaimsTo(To)
           m == Merge(s)
           p(k) == SubSeq(t, 1, k)
           T == {k \in 0..n : Merge(m \o p(k)) = Merge(s \o p(k))}
<1>1. m \in Seq(R) /\ m \in MergedTo(To) /\ n \in Nat /\ n \in 0..n
  BY MergeKeeps DEF MergedTo
<1> HIDE DEF m, p
<1>2. 0 \in T
  <2>1. m \o p(0) = m /\ s \o p(0) = s /\ 0 \in 0..n
    BY <1>1, PrefixEnds DEF p
  <2>2. Merge(m) = m
    BY <1>1, MergeMerged
  <2> QED BY <2>1, <2>2 DEF m
<1>3. ASSUME NEW k \in 1..n, k - 1 \in T
      PROVE  k \in T
  <2>1. k \in 0..n /\ k - 1 \in 0..n /\ Merge(m \o p(k - 1)) = Merge(s \o p(k - 1))
    BY <1>1, <1>3
  <2>2. m \in Seq(R) /\ s \in Seq(R) /\ t \in Seq(R) /\ k \in 1..Len(t)
    BY <1>1
  <2> HIDE DEF R, T, n
  <2>3. /\ p(k - 1) \in Seq(R) /\ t[k] \in R
        /\ m \o p(k) = Append(m \o p(k - 1), t[k])
        /\ s \o p(k) = Append(s \o p(k - 1), t[k])
    <3>1. PrefixIs(R, t, m, k) /\ PrefixIs(R, t, s, k)
      BY PrefixSteps, Zenon
    <3> QED BY ONLY <2>2, <3>1, Zenon DEF PrefixIs, p
  <2>4. m \o p(k - 1) \in Seq(R) /\ s \o p(k - 1) \in Seq(R)
    BY <1>1, <2>2, <2>3
  <2>5. Merge(m \o p(k)) = MergeIn(Merge(m \o p(k - 1)), t[k])
    BY <2>3, <2>4, MergeAppend DEF R
  <2>6. Merge(s \o p(k)) = MergeIn(Merge(s \o p(k - 1)), t[k])
    BY <2>3, <2>4, MergeAppend DEF R
  <2> QED BY <2>1, <2>5, <2>6 DEF T
<1>4. n \in T
  <2> HIDE DEF T, n
  <2>1. \A k \in 0..n : k \in T
    BY <1>1, <1>2, <1>3, StepByStep
  <2> QED BY <1>1, <2>1
<1>5. p(n) = t
  BY PrefixEnds DEF p
<1> QED BY <1>4, <1>5 DEF m

-----------------------------------------------------------------------------
(* Weights of claims *)

KeyedOf(R, key) == [c \in R |-> IF Key(c) = key THEN c.amount ELSE 0]

\* Amounts, what is gained, and the amount of a key are kept by merging.
LEMMA WeightsKept ==
    ASSUME NEW To, NEW key
    PROVE  /\ AmountsOf(ClaimsTo(To)) \in [ClaimsTo(To) -> Int]
           /\ GainsOf(ClaimsTo(To)) \in [ClaimsTo(To) -> Int]
           /\ KeyedOf(ClaimsTo(To), key) \in [ClaimsTo(To) -> Int]
           /\ Additive(AmountsOf(ClaimsTo(To)), To)
           /\ Additive(GainsOf(ClaimsTo(To)), To)
           /\ Additive(KeyedOf(ClaimsTo(To), key), To)
<1> DEFINE R == ClaimsTo(To)
<1>1. \A c \in R : c.amount \in Int
  BY DEF ClaimsTo
<1>2. /\ AmountsOf(R) \in [R -> Int] /\ GainsOf(R) \in [R -> Int] /\ KeyedOf(R, key) \in [R -> Int]
  <2> HIDE DEF R
  <2> QED BY <1>1 DEF AmountsOf, GainsOf, KeyedOf
<1>3. ASSUME NEW c \in R, NEW d \in R, Key(c) = Key(d)
      PROVE  LET e == Claim(c.to, c.type, c.amount + d.amount)
             IN  /\ e \in R /\ e.amount = c.amount + d.amount /\ Key(e) = Key(c)
                 /\ c.amount \in Int /\ d.amount \in Int
                 /\ (c.amount < 0 <=> d.amount < 0)
  <2> DEFINE e == Claim(c.to, c.type, c.amount + d.amount)
  <2>1. /\ c.to \in To /\ c.type \in ClaimTypes /\ c.amount \in Int /\ d.amount \in Int
        /\ (c.amount < 0 <=> d.amount < 0)
    BY <1>3, KeyOfClaim
  <2>2. e.to = c.to /\ e.type = c.type /\ e.amount = c.amount + d.amount /\ e \in R
    BY <2>1 DEF Claim, ClaimsTo
  <2>3. e.amount < 0 <=> c.amount < 0
    BY <2>1, <2>2
  <2>4. Key(e) = Key(c)
    BY <2>2, <2>3 DEF Key
  <2> QED BY <2>1, <2>2, <2>4
<1> HIDE DEF R
<1>4. Additive(AmountsOf(R), To)
  BY <1>3 DEF Additive, AmountsOf, R
<1>5. Additive(GainsOf(R), To)
  <2> SUFFICES ASSUME NEW c \in R, NEW d \in R, Key(c) = Key(d)
               PROVE  GainsOf(R)[Claim(c.to, c.type, c.amount + d.amount)]
                         = GainsOf(R)[c] + GainsOf(R)[d]
    BY DEF Additive, R
  <2> DEFINE e == Claim(c.to, c.type, c.amount + d.amount)
  <2>1. /\ e \in R /\ e.amount = c.amount + d.amount
        /\ c.amount \in Int /\ d.amount \in Int /\ (c.amount < 0 <=> d.amount < 0)
    BY <1>3
  <2> HIDE DEF e
  <2>2. /\ GainsOf(R)[e] = IF e.amount > 0 THEN e.amount ELSE 0
        /\ GainsOf(R)[c] = IF c.amount > 0 THEN c.amount ELSE 0
        /\ GainsOf(R)[d] = IF d.amount > 0 THEN d.amount ELSE 0
    BY <2>1 DEF GainsOf
  <2>3. GainsOf(R)[e] = GainsOf(R)[c] + GainsOf(R)[d]
    BY <2>1, <2>2
  <2> QED BY <2>3 DEF e
<1>6. Additive(KeyedOf(R, key), To)
  <2> SUFFICES ASSUME NEW c \in R, NEW d \in R, Key(c) = Key(d)
               PROVE  KeyedOf(R, key)[Claim(c.to, c.type, c.amount + d.amount)]
                         = KeyedOf(R, key)[c] + KeyedOf(R, key)[d]
    BY DEF Additive, R
  <2> DEFINE e == Claim(c.to, c.type, c.amount + d.amount)
  <2>1. /\ e \in R /\ e.amount = c.amount + d.amount /\ Key(e) = Key(c)
        /\ c.amount \in Int /\ d.amount \in Int
    BY <1>3
  <2> HIDE DEF e
  <2>2. /\ KeyedOf(R, key)[e] = IF Key(e) = key THEN e.amount ELSE 0
        /\ KeyedOf(R, key)[c] = IF Key(c) = key THEN c.amount ELSE 0
        /\ KeyedOf(R, key)[d] = IF Key(d) = key THEN d.amount ELSE 0
    BY <2>1 DEF KeyedOf
  <2>3. KeyedOf(R, key)[e] = KeyedOf(R, key)[c] + KeyedOf(R, key)[d]
    BY <2>1, <2>2
  <2> QED BY <2>3 DEF e
<1> QED BY <1>2, <1>4, <1>5, <1>6 DEF R

\* The amount of a list of claims.
LEMMA AmountIs ==
    ASSUME NEW To, NEW list \in Seq(ClaimsTo(To))
    PROVE  Amount(list) = Weigh(AmountsOf(ClaimsTo(To)), list) /\ Amount(list) \in Int
<1> DEFINE R == ClaimsTo(To)
           W == AmountsOf(R)
<1>1. W \in [R -> Int] /\ \A r \in R : W[r] = r.amount
  BY WeightsKept DEF AmountsOf
<1> HIDE DEF W, R
<1>2. list \in Seq(R)
  BY DEF R
<1> QED BY <1>1, <1>2, AmountIsSum DEF W, R

\* The positive claims of a list amount to its gains.
LEMMA PositiveIs ==
    ASSUME NEW To, NEW list \in Seq(ClaimsTo(To))
    PROVE  /\ Positive(list) \in Seq(ClaimsTo(To))
           /\ Amount(Positive(list)) = Weigh(GainsOf(ClaimsTo(To)), list)
           /\ \A k \in DOMAIN Positive(list) :
                 \E i \in DOMAIN list : list[i].amount > 0 /\ Positive(list)[k] = list[i]
<1> DEFINE R == ClaimsTo(To)
           indices == {i \in DOMAIN list : list[i].amount > 0}
           picked == Picked(list, indices)
<1>1. Positive(list) = picked
  BY DEF Positive, Select
<1>2. AmountsOf(R) \in [R -> Int] /\ GainsOf(R) \in [R -> Int] /\ list \in Seq(R)
  BY WeightsKept
<1>3. OnlyAt(GainsOf(R), AmountsOf(R), list, indices)
  <2>1. ASSUME NEW i \in DOMAIN list
        PROVE  GainsOf(R)[list[i]] = IF i \in indices THEN AmountsOf(R)[list[i]] ELSE 0
    <3>1. list[i] \in R
      OBVIOUS
    <3> HIDE DEF R
    <3> QED BY <3>1 DEF GainsOf, AmountsOf
  <2> QED BY <2>1 DEF OnlyAt
<1> HIDE DEF R, indices
<1>4. Weigh(AmountsOf(R), picked) = Weigh(GainsOf(R), list)
  BY <1>2, <1>3, WeighPicked
<1>5. picked \in Seq(R) /\ \A k \in DOMAIN picked : \E i \in DOMAIN list : i \in indices /\ picked[k] = list[i]
  BY <1>2, PickedElements
<1>6. Amount(picked) = Weigh(AmountsOf(R), picked)
  BY <1>5, AmountIs DEF R
<1> QED BY <1>1, <1>4, <1>5, <1>6 DEF R, indices

\* What the claims of a key amount to.
LEMMA OfKeyIs ==
    ASSUME NEW To, NEW list \in Seq(ClaimsTo(To)), NEW key
    PROVE  /\ Amount(OfKey(list, key)) = Weigh(KeyedOf(ClaimsTo(To), key), list)
           /\ DistinctKeys(list) /\ key \in KeysOf(list) => Len(OfKey(list, key)) = 1
<1> DEFINE R == ClaimsTo(To)
           indices == {i \in DOMAIN list : <<list[i].to, list[i].type, list[i].amount < 0>> = key}
           picked == Picked(list, indices)
<1>1. OfKey(list, key) = picked
  BY DEF OfKey, Select
<1>2. AmountsOf(R) \in [R -> Int] /\ KeyedOf(R, key) \in [R -> Int] /\ list \in Seq(R)
  BY WeightsKept
<1>3. OnlyAt(KeyedOf(R, key), AmountsOf(R), list, indices)
  <2>1. ASSUME NEW i \in DOMAIN list
        PROVE  KeyedOf(R, key)[list[i]] = IF i \in indices THEN AmountsOf(R)[list[i]] ELSE 0
    <3>1. list[i] \in R
      OBVIOUS
    <3>2. i \in indices <=> Key(list[i]) = key
      BY DEF Key
    <3> HIDE DEF R, indices
    <3> QED BY <3>1, <3>2 DEF KeyedOf, AmountsOf
  <2> QED BY <2>1 DEF OnlyAt
<1>7. \A i \in DOMAIN list : i \in indices <=> Key(list[i]) = key
  BY DEF Key
<1> HIDE DEF R, indices
<1>4. Weigh(AmountsOf(R), picked) = Weigh(KeyedOf(R, key), list)
  BY <1>2, <1>3, WeighPicked
<1>5. picked \in Seq(R) /\ HasPlaces(picked, list, indices, Len(list))
  BY <1>2, PickedPlaces
<1>6. Amount(picked) = Weigh(AmountsOf(R), picked)
  BY <1>5, AmountIs DEF R
<1>8. ASSUME DistinctKeys(list), key \in KeysOf(list)
      PROVE  Len(picked) = 1
  <2> HIDE DEF picked
  <2>1. PICK h : PlacesTo(h, picked, list, indices, Len(list))
    BY <1>5 DEF HasPlaces
  <2>2. Len(picked) \in Nat /\ DOMAIN list = 1..Len(list)
    BY <1>2, <1>5
  <2>3. PICK i \in 1..Len(list) : i \in indices
    BY <1>7, <1>8, <2>2 DEF KeysOf
  <2>4. PICK k \in 1..Len(picked) : h[k] = i
    BY <2>1, <2>3 DEF PlacesTo
  <2>5. \A j \in 1..Len(picked) : h[j] = i
    <3> SUFFICES ASSUME NEW j \in 1..Len(picked) PROVE h[j] = i
      OBVIOUS
    <3>1. h[j] \in 1..Len(list) /\ h[j] \in indices
      BY <2>1 DEF PlacesTo
    <3>2. Key(list[h[j]]) = Key(list[i])
      BY <1>7, <2>2, <2>3, <3>1
    <3> QED BY <1>8, <2>2, <3>1, <3>2 DEF DistinctKeys
  <2>6. ~(1 < Len(picked))
    <3> SUFFICES ASSUME 1 < Len(picked) PROVE FALSE
      OBVIOUS
    <3>1. 1 \in 1..Len(picked) /\ 2 \in 1..Len(picked) /\ 1 < 2
      BY <2>2
    <3>2. h[1] < h[2] /\ h[1] = i /\ h[2] = i
      BY <2>1, <2>5, <3>1 DEF PlacesTo
    <3> QED BY <3>2
  <2>7. Len(picked) >= 1
    BY <2>2, <2>4
  <2> DEFINE m == Len(picked)
  <2>8. m \in Nat /\ m >= 1 /\ ~(1 < m)
    BY <2>2, <2>6, <2>7
  <2> HIDE DEF m
  <2>9. m = 1
    BY <2>8
  <2> QED BY <2>9 DEF m
<1> QED BY <1>1, <1>4, <1>6, <1>8 DEF R

\* Two lists after one another are a list.
LEMMA ConcatIs ==
    ASSUME NEW R, NEW s \in Seq(R), NEW t \in Seq(R)
    PROVE  s \o t \in Seq(R) /\ Len(s \o t) = Len(s) + Len(t)
OBVIOUS

\* A list is its first part with the rest.
LEMMA SplitList ==
    ASSUME NEW R, NEW list \in Seq(R), NEW k \in 0..Len(list)
    PROVE  /\ SubSeq(list, 1, k) \in Seq(R) /\ SubSeq(list, k + 1, Len(list)) \in Seq(R)
           /\ SubSeq(list, 1, k) \o SubSeq(list, k + 1, Len(list)) = list
<1> DEFINE s == SubSeq(list, 1, k)
           t == SubSeq(list, k + 1, Len(list))
           n == Len(list)
<1>0. n \in Nat /\ list \in [1..n -> R] /\ k \in 0..n /\ k + (n - k) = n
  OBVIOUS
<1>1. s \in Seq(R) /\ Len(s) = k /\ \A i \in 1..k : s[i] = list[i]
  OBVIOUS
<1>2. t \in Seq(R) /\ Len(t) = n - k /\ \A i \in 1..(n - k) : t[i] = list[k + i]
  OBVIOUS
<1> HIDE DEF s, t, n
<1>3. s \o t \in Seq(R) /\ Len(s \o t) = n
  <2>1. s \o t \in Seq(R) /\ Len(s \o t) = Len(s) + Len(t)
    BY <1>1, <1>2, ConcatIs
  <2> QED BY <1>0, <1>1, <1>2, <2>1
<1>4. ASSUME NEW i \in 1..n
      PROVE  (s \o t)[i] = list[i]
  <2>1. CASE i <= k
    BY <1>1, <1>2, <1>4, <2>1
  <2>2. CASE i > k
    <3> DEFINE j == i - k
    <3>1. j \in 1..(n - k) /\ k + j = i
      BY <1>0, <2>2
    <3>2. (s \o t)[i] = t[j]
      BY <1>0, <1>1, <1>2, <2>2, <3>1
    <3> HIDE DEF j
    <3> QED BY <1>2, <3>1, <3>2
  <2>3. i <= k \/ i > k
    BY <1>0
  <2> QED BY <2>1, <2>2, <2>3
<1>5. s \o t = list
  BY <1>0, <1>3, <1>4
<1> QED BY <1>1, <1>2, <1>5 DEF s, t, n

\* Merging in pieces gives what merging at once does, and one claim of each key
\* with all of its amounts.
LEMMA MergedInPieces ==
    ASSUME NEW To, NEW claims \in Seq(ClaimsTo(To)), NEW k \in 0..Len(claims),
           NEW merged, merged = Merge(Merge(SubSeq(claims, 1, k)) \o SubSeq(claims, k + 1, Len(claims)))
    PROVE  /\ merged = Merge(claims)
           /\ \A c \in ToSet(claims \o merged) :
                 /\ Amount(OfKey(merged, Key(c))) = Amount(OfKey(claims, Key(c)))
                 /\ Len(OfKey(merged, Key(c))) = 1
<1> DEFINE s == SubSeq(claims, 1, k)
           t == SubSeq(claims, k + 1, Len(claims))
           R == ClaimsTo(To)
<1>1. s \in Seq(R) /\ t \in Seq(R) /\ s \o t = claims
  BY SplitList
<1>2. merged = Merge(claims)
  <2> HIDE DEF s, t
  <2> QED BY <1>1, MergeInPieces DEF s, t
<1>3. merged \in Seq(R) /\ DistinctKeys(merged) /\ KeysOf(merged) = KeysOf(claims)
  BY <1>2, MergeKeeps DEF MergedTo
<1>4. ASSUME NEW c \in ToSet(claims \o merged)
      PROVE  /\ Amount(OfKey(merged, Key(c))) = Amount(OfKey(claims, Key(c)))
             /\ Len(OfKey(merged, Key(c))) = 1
  <2>1. Key(c) \in KeysOf(merged)
    <3>1. PICK i \in DOMAIN (claims \o merged) : c = (claims \o merged)[i]
      BY DEF ToSet
    <3>2. (\E j \in DOMAIN claims : c = claims[j]) \/ (\E j \in DOMAIN merged : c = merged[j])
      <4>1. CASE i \in DOMAIN claims
        BY <1>3, <3>1, <4>1
      <4>2. CASE i \notin DOMAIN claims
        <5>1. i - Len(claims) \in DOMAIN merged /\ c = merged[i - Len(claims)]
          BY <1>3, <3>1, <4>2
        <5> QED BY <5>1
      <4> QED BY <4>1, <4>2
    <3>3. Key(c) \in KeysOf(claims) \/ Key(c) \in KeysOf(merged)
      BY <3>2 DEF KeysOf
    <3> QED BY <1>3, <3>3
  <2> DEFINE key == Key(c)
             W == KeyedOf(R, key)
  <2> HIDE DEF key
  <2>2. W \in [R -> Int] /\ Additive(W, To)
    BY WeightsKept
  <2>3. Weigh(W, merged) = Weigh(W, claims)
    <3> HIDE DEF W
    <3> QED BY <1>2, <2>2, WeighMerge
  <2>4. Amount(OfKey(merged, key)) = Weigh(W, merged) /\ Len(OfKey(merged, key)) = 1
    BY <1>3, <2>1, OfKeyIs DEF key
  <2>5. Amount(OfKey(claims, key)) = Weigh(W, claims)
    BY OfKeyIs
  <2> QED BY <2>3, <2>4, <2>5 DEF key
<1> QED BY <1>2, <1>4

-----------------------------------------------------------------------------
(* Penalties *)

\* Claims that give something, and lists of them after others have been picked.
GainsTo(To) == {c \in ClaimsTo(To) : c.amount > 0}

\* What is picked from claims with distinct keys has distinct keys.
LEMMA PickedDistinct ==
    ASSUME NEW To, NEW list \in Seq(ClaimsTo(To)), DistinctKeys(list), NEW indices
    PROVE  DistinctKeys(Picked(list, indices))
<1> DEFINE picked == Picked(list, indices)
           n == Len(list)
<1>1. picked \in Seq(ClaimsTo(To)) /\ HasPlaces(picked, list, indices, n)
  BY PickedPlaces
<1> HIDE DEF picked
<1>2. PICK h : PlacesTo(h, picked, list, indices, n)
  BY <1>1 DEF HasPlaces
<1>3. DOMAIN picked = 1..Len(picked) /\ DOMAIN list = 1..n /\ Len(picked) \in Nat /\ n \in Nat
  BY <1>1
<1>4. ASSUME NEW i \in 1..Len(picked), NEW j \in 1..Len(picked), Key(picked[i]) = Key(picked[j]), i < j
      PROVE  FALSE
  <2>1. h[i] \in 1..n /\ h[j] \in 1..n /\ h[i] < h[j] /\ picked[i] = list[h[i]] /\ picked[j] = list[h[j]]
    BY <1>2, <1>4 DEF PlacesTo
  <2>2. h[i] = h[j]
    BY <1>3, <1>4, <2>1 DEF DistinctKeys
  <2> QED BY <2>1, <2>2
<1>5. \A i, j \in 1..Len(picked) : i = j \/ i < j \/ j < i
  BY <1>3
<1>6. DistinctKeys(picked)
  BY <1>3, <1>4, <1>5 DEF DistinctKeys
<1> QED BY <1>6 DEF picked

\* Penalties are what a claim loses, not what it gains.
LEMMA PenaltyIs ==
    ASSUME NEW To, NEW list \in Seq(ClaimsTo(To)), NEW c
    PROVE  PenaltyOn(list, c) \in Nat
<1> DEFINE R == ClaimsTo(To)
           below == {i \in DOMAIN list : list[i].amount < 0}
           penalties == Picked(list, below)
           same == {i \in DOMAIN penalties : penalties[i].to = c.to /\ penalties[i].type = c.type}
           mine == Picked(penalties, same)
<1>1. PenaltyOn(list, c) = -Amount(mine)
  BY DEF PenaltyOn, Negative, Select
<1>2. /\ penalties \in Seq(R)
      /\ \A k \in DOMAIN penalties : \E i \in DOMAIN list : i \in below /\ penalties[k] = list[i]
  <2> HIDE DEF below, R
  <2>1. list \in Seq(R)
    BY DEF R
  <2> QED BY <2>1, PickedElements
<1>3. \A k \in DOMAIN penalties : penalties[k].amount < 0
  BY <1>2
<1> HIDE DEF penalties, below
<1>4. /\ mine \in Seq(R)
      /\ \A k \in DOMAIN mine : \E i \in DOMAIN penalties : i \in same /\ mine[k] = penalties[i]
  <2> HIDE DEF same, R
  <2> QED BY <1>2, PickedElements
<1>5. \A k \in DOMAIN mine : mine[k].amount < 0
  BY <1>3, <1>4
<1> HIDE DEF mine, same
<1> DEFINE W == AmountsOf(R)
<1>6. Amount(mine) = Weigh(W, mine) /\ Amount(mine) \in Int /\ W \in [R -> Int]
  BY <1>4, AmountIs, WeightsKept
<1>7. \A k \in DOMAIN mine : W[mine[k]] <= 0
  <2> SUFFICES ASSUME NEW k \in DOMAIN mine PROVE W[mine[k]] <= 0
    OBVIOUS
  <2>2. mine[k] \in R
    BY <1>4
  <2>1. mine[k] \in R /\ mine[k].amount \in Int
    BY <2>2 DEF ClaimsTo
  <2> HIDE DEF R
  <2> QED BY <1>5, <2>1 DEF AmountsOf
<1> HIDE DEF R, W
<1>8. Weigh(W, mine) <= 0
  BY <1>4, <1>6, <1>7, WeighSign
<1>9. Amount(mine) <= 0 /\ Amount(mine) \in Int
  BY <1>6, <1>8
<1> QED BY <1>1, <1>9

\* A list of one or two.
LEMMA WeighPair ==
    ASSUME NEW R, NEW W \in [R -> Int], NEW a \in R, NEW b \in R
    PROVE  /\ <<a>> \in Seq(R) /\ <<a, b>> \in Seq(R)
           /\ Weigh(W, <<a>>) = W[a]
           /\ Weigh(W, <<a, b>>) = W[a] + W[b]
<1>1. <<>> \in Seq(R) /\ <<a>> \in Seq(R) /\ <<a, b>> \in Seq(R)
  OBVIOUS
<1>2. <<a>> = Append(<<>>, a) /\ <<a, b>> = Append(<<a>>, b)
  OBVIOUS
<1>3. OneMore(R, W)
  BY WeighAppends
<1>4. Weigh(W, Append(<<>>, a)) = Weigh(W, <<>>) + W[a]
  BY <1>1, <1>3 DEF OneMore
<1>5. Weigh(W, Append(<<a>>, b)) = Weigh(W, <<a>>) + W[b]
  BY <1>1, <1>3 DEF OneMore
<1>6. W[a] \in Int /\ W[b] \in Int /\ Weigh(W, <<>>) = 0
  BY WeighEmpty
<1>7. Weigh(W, <<a>>) = W[a]
  BY <1>2, <1>4, <1>6
<1> QED BY <1>1, <1>2, <1>5, <1>7

OneWeighs(W, a, R) ==
    W \in [R -> Int] /\ a \in R => <<a>> \in Seq(R) /\ Weigh(W, <<a>>) = W[a]

\* The same for all elements and weights.
LEMMA OneElement == \A W, a, R : OneWeighs(W, a, R)
<1> SUFFICES ASSUME NEW R, NEW W \in [R -> Int], NEW a \in R
             PROVE  <<a>> \in Seq(R) /\ Weigh(W, <<a>>) = W[a]
  BY DEF OneWeighs
<1>1. <<>> \in Seq(R) /\ <<a>> \in Seq(R) /\ <<a>> = Append(<<>>, a)
  OBVIOUS
<1>2. OneMore(R, W)
  BY WeighAppends
<1>3. Weigh(W, Append(<<>>, a)) = Weigh(W, <<>>) + W[a]
  BY <1>1, <1>2 DEF OneMore
<1>4. W[a] \in Int /\ Weigh(W, <<>>) = 0
  BY WeighEmpty
<1> QED BY <1>1, <1>3, <1>4

\* A claim after its penalty gives as much as before.
LEMMA BurnKeeps ==
    ASSUME NEW To, BurnAddress \in To, NEW list \in Seq(ClaimsTo(To)), NEW c \in GainsTo(To)
    PROVE  /\ Burn(list, c) \in Seq(GainsTo(To))
           /\ Weigh(AmountsOf(ClaimsTo(To)), Burn(list, c)) = c.amount
<1> DEFINE R == ClaimsTo(To)
           W == AmountsOf(R)
           penalty == PenaltyOn(list, c)
           burnt == Claim(BurnAddress, "DIRECT", IF penalty > c.amount THEN c.amount ELSE penalty)
           rest == [c EXCEPT !.amount = @ - penalty]
<1>1. penalty \in Nat
  BY PenaltyIs
<1> HIDE DEF penalty
<1>2. c \in R /\ c.amount \in Int /\ c.amount > 0
  BY DEF GainsTo, ClaimsTo
<1>3. burnt \in R /\ burnt.amount = IF penalty > c.amount THEN c.amount ELSE penalty
  BY <1>1, <1>2 DEF Claim, ClaimsTo, ClaimTypes
<1>4. rest \in R /\ rest.amount = c.amount - penalty
  <2>1. rest = [to |-> c.to, type |-> c.type, amount |-> c.amount - penalty]
    BY <1>2 DEF ClaimsTo
  <2> QED BY <1>1, <1>2, <2>1 DEF ClaimsTo
<1>5. Burn(list, c) = IF penalty = 0 THEN <<c>>
                      ELSE IF penalty >= c.amount THEN <<burnt>> ELSE <<burnt, rest>>
  BY DEF Burn, penalty
<1>6. W \in [R -> Int] /\ W[c] = c.amount /\ W[burnt] = burnt.amount /\ W[rest] = rest.amount
  <2> HIDE DEF burnt, rest, R
  <2>1. AmountsOf(R) \in [R -> Int]
    BY WeightsKept DEF R
  <2> QED BY <1>2, <1>3, <1>4, <2>1 DEF AmountsOf
<1> HIDE DEF burnt, rest, R, W
<1>7. /\ Weigh(W, <<c>>) = c.amount /\ Weigh(W, <<burnt>>) = burnt.amount
      /\ Weigh(W, <<burnt, rest>>) = burnt.amount + rest.amount
  <2>4. W \in [R -> Int] /\ c \in R /\ rest \in R
    BY <1>2, <1>4, <1>6
  <2>1. Weigh(W, <<c>>) = W[c] /\ Weigh(W, <<c, rest>>) = W[c] + W[rest]
    BY <2>4, WeighPair
  <2>2. W \in [R -> Int] /\ burnt \in R /\ rest \in R
    BY <1>3, <1>4, <1>6
  <2>3. Weigh(W, <<burnt>>) = W[burnt] /\ Weigh(W, <<burnt, rest>>) = W[burnt] + W[rest]
    BY <2>2, WeighPair
  <2> QED BY <1>6, <2>1, <2>3
<1>8. /\ penalty > 0 => burnt \in GainsTo(To)
      /\ penalty > 0 /\ penalty < c.amount => rest \in GainsTo(To)
  BY <1>1, <1>2, <1>3, <1>4 DEF GainsTo, R
<1>9. CASE penalty = 0
  BY <1>5, <1>7, <1>9 DEF R, W
<1>10. CASE penalty > 0 /\ penalty >= c.amount
  <2>1. Burn(list, c) = <<burnt>> /\ burnt.amount = c.amount
    BY <1>1, <1>2, <1>3, <1>5, <1>10
  <2> QED BY <1>7, <1>8, <1>10, <2>1 DEF R, W
<1>11. CASE penalty > 0 /\ penalty < c.amount
  <2>1. Burn(list, c) = <<burnt, rest>> /\ burnt.amount = penalty
    BY <1>1, <1>2, <1>3, <1>5, <1>11
  <2>2. burnt.amount + rest.amount = c.amount
    BY <1>1, <1>2, <1>4, <2>1
  <2> QED BY <1>7, <1>8, <1>11, <2>1, <2>2 DEF R, W
<1>12. penalty = 0 \/ (penalty > 0 /\ penalty >= c.amount) \/ (penalty > 0 /\ penalty < c.amount)
  BY <1>1, <1>2
<1> QED BY <1>9, <1>10, <1>11, <1>12

\* Penalties burnt: the positive claims after their penalties, one after the other.
AfterPenalties(list) ==
    FlattenSeq([i \in DOMAIN Positive(list) |-> Burn(list, Positive(list)[i])])

\* Penalties take nothing away: positive claims and what is burnt of them make
\* up the positive claims there were.
LEMMA PenaltiesApplied ==
    ASSUME NEW To, BurnAddress \in To, NEW list \in Seq(ClaimsTo(To))
    PROVE  /\ AfterPenalties(list) \in Seq(GainsTo(To))
           /\ AfterPenalties(list) \in Seq(ClaimsTo(To))
           /\ Amount(AfterPenalties(list)) = Amount(Positive(list))
<1> DEFINE R == ClaimsTo(To)
           G == GainsTo(To)
           pos == Positive(list)
           ss == [i \in DOMAIN pos |-> Burn(list, pos[i])]
           W == AmountsOf(R)
<1>1. pos \in Seq(R) /\ \A k \in DOMAIN pos : \E i \in DOMAIN list : list[i].amount > 0 /\ pos[k] = list[i]
  BY PositiveIs
<1> HIDE DEF pos
<1>2. ASSUME NEW k \in DOMAIN pos
      PROVE  pos[k] \in G /\ pos[k] \in R
  <2>1. pos[k] \in R /\ pos[k].amount > 0
    BY <1>1
  <2> QED BY <2>1 DEF GainsTo
<1>3. ASSUME NEW k \in DOMAIN pos
      PROVE  ss[k] \in Seq(G) /\ ss[k] \in Seq(R) /\ Weigh(W, ss[k]) = pos[k].amount
  <2>1. ss[k] = Burn(list, pos[k])
    OBVIOUS
  <2>2. Burn(list, pos[k]) \in Seq(G) /\ Weigh(W, Burn(list, pos[k])) = pos[k].amount
    <3>1. pos[k] \in GainsTo(To)
      BY <1>2
    <3> QED BY <3>1, BurnKeeps
  <2>3. G \subseteq R
    BY DEF GainsTo
  <2>4. Seq(G) \subseteq Seq(R)
    BY <2>3
  <2> HIDE DEF ss, G, R, W
  <2> QED BY <2>1, <2>2, <2>4
<1>4. DOMAIN ss = DOMAIN pos /\ DOMAIN pos = 1..Len(pos) /\ Len(pos) \in Nat
  BY <1>1
<1> HIDE DEF G, R
<1>5. ss \in Seq(Seq(G)) /\ ss \in Seq(Seq(R))
  <2>1. ss \in [1..Len(pos) -> Seq(G)] /\ ss \in [1..Len(pos) -> Seq(R)]
    BY <1>3, <1>4
  <2> HIDE DEF ss
  <2> QED BY <1>4, <2>1
<1>6. W \in [R -> Int] /\ \A c \in R : W[c] = c.amount
  <2>1. AmountsOf(R) \in [R -> Int]
    BY WeightsKept DEF R
  <2> QED BY <2>1 DEF AmountsOf
<1> HIDE DEF ss, W
<1>7. FlattenSeq(ss) \in Seq(G)
  <2>1. \E v \in [0..Len(ss) -> Seq(G)] : FlatSteps(v, ss) /\ FlattenSeq(ss) = v[Len(ss)]
    BY <1>5, FlattenSteps
  <2>2. Len(ss) \in 0..Len(ss)
    BY <1>5
  <2> QED BY <2>1, <2>2
<1>8. PICK V : V = [s \in Seq(R) |-> Weigh(W, s)]
  OBVIOUS
<1>9. FlattenSeq(ss) \in Seq(R) /\ Weigh(W, FlattenSeq(ss)) = Weigh(V, ss)
  BY <1>5, <1>6, <1>8, WeighFlatten
<1>10. Weigh(V, ss) = Weigh(W, pos)
  <2>1. Alike(V, ss, W, pos)
    BY <1>2, <1>3, <1>4, <1>6, <1>8 DEF Alike
  <2>2. pos \in Seq(R) /\ W \in [R -> Int]
    BY <1>1, <1>6 DEF R
  <2>3. pos \in Seq(R) /\ W \in [R -> Int] /\ Alike(V, ss, W, pos)
    BY <2>1, <2>2
  <2> QED BY ONLY <2>3, WeighAlike
<1>11. Amount(FlattenSeq(ss)) = Weigh(W, FlattenSeq(ss)) /\ Amount(pos) = Weigh(W, pos)
  BY <1>1, <1>9, AmountIs DEF R, W
<1> QED BY <1>7, <1>9, <1>10, <1>11 DEF AfterPenalties, ss, pos, G, R

\* What is paid once claims are merged and penalties burnt.
LEMMA BurntAndMerged ==
    ASSUME NEW To, BurnAddress \in To, NEW list \in MergedTo(To)
    PROVE  /\ ~BurnThrows(list)
           /\ MergeWithBurn(list) \in MergedTo(To)
           /\ Amount(MergeWithBurn(list)) = Amount(Positive(list))
           /\ \A i \in DOMAIN MergeWithBurn(list) : MergeWithBurn(list)[i].amount >= 0
<1> DEFINE final == AfterPenalties(list)
           paid == MergeWithBurn(list)
           R == ClaimsTo(To)
<1>1. list \in Seq(R) /\ DistinctKeys(list)
  BY DEF MergedTo
<1>2. final \in Seq(GainsTo(To)) /\ final \in Seq(R) /\ Amount(final) = Amount(Positive(list))
  BY <1>1, PenaltiesApplied
<1>3. paid = Merge(final)
  BY DEF MergeWithBurn, AfterPenalties
<1> HIDE DEF final, paid
<1>4. ~BurnThrows(list)
  <2> DEFINE penalties == Negative(list)
  <2>1. DistinctKeys(penalties)
    BY <1>1, PickedDistinct DEF Negative, Select
  <2>2. Amount(final) = Amount(Positive(list)) /\ ~\E i, j \in DOMAIN penalties : i # j /\ Key(penalties[i]) = Key(penalties[j])
    BY <1>2, <2>1 DEF DistinctKeys
  <2> QED BY <2>2 DEF BurnThrows, final, AfterPenalties
<1>5. paid \in MergedTo(To) /\ KeysOf(paid) = KeysOf(final) /\ paid \in Seq(R)
  BY <1>2, <1>3, MergeKeeps DEF MergedTo
<1>6. Amount(paid) = Amount(final)
  <2>1. AmountsOf(R) \in [R -> Int] /\ Additive(AmountsOf(R), To)
    BY WeightsKept
  <2>2. Weigh(AmountsOf(R), Merge(final)) = Weigh(AmountsOf(R), final)
    BY <1>2, <2>1, WeighMerge
  <2>3. Amount(paid) = Weigh(AmountsOf(R), paid)
    BY <1>5, AmountIs
  <2>4. Amount(final) = Weigh(AmountsOf(R), final)
    BY <1>2, AmountIs
  <2> QED BY <1>3, <2>2, <2>3, <2>4
<1>7. ASSUME NEW i \in DOMAIN paid
      PROVE  paid[i].amount >= 0
  <2>1. Key(paid[i]) \in KeysOf(final)
    BY <1>5 DEF KeysOf
  <2>2. PICK j \in DOMAIN final : Key(paid[i]) = Key(final[j])
    BY <2>1 DEF KeysOf
  <2>3. final[j].amount > 0 /\ final[j].amount \in Int
    BY <1>2 DEF GainsTo, ClaimsTo
  <2>6. paid[i] \in R
    BY <1>5
  <2>4. paid[i].amount \in Int
    BY <2>6 DEF ClaimsTo
  <2>5. paid[i].amount < 0 <=> final[j].amount < 0
    BY <2>2 DEF Key
  <2> QED BY <2>3, <2>4, <2>5
<1> QED BY <1>2, <1>4, <1>5, <1>6, <1>7 DEF paid

-----------------------------------------------------------------------------
(* Shares of an amount *)

(* Dividing by weight *)

\* The part of an amount for a weight.
Portion(w, r, W) == IF w > 0 THEN Quot(w * r, W) ELSE 0

\* It has the sign of the amount and is no more.
PortionFor(part, w, r, W) ==
    /\ part \in Int
    /\ r >= 0 => part >= 0 /\ part <= r
    /\ r <= 0 => part <= 0 /\ r <= part
    /\ w = 0 => part = 0
    /\ w > 0 /\ w = W => part = r

\* The part of a weight in what is left: at most that, of its sign, and all of
\* it for the last weight.
LEMMA PortionIs ==
    ASSUME NEW w \in Nat, NEW r \in Int, NEW W \in Nat, w <= W
    PROVE  PortionFor(Portion(w, r, W), w, r, W)
<1> DEFINE part == Portion(w, r, W)
<1>0. part = IF w > 0 THEN Quot(w * r, W) ELSE 0
  BY DEF Portion
<1> SUFFICES PortionFor(part, w, r, W)
  OBVIOUS
<1> HIDE DEF part
<1>1. CASE w = 0
  BY <1>0, <1>1 DEF PortionFor
<1>2. CASE w > 0 /\ r >= 0
  <2>1. r \in Nat /\ W \in Nat \ {0} /\ w * r >= 0
    BY <1>2
  <2>2. part = (w * r) \div W
    BY <1>0, <1>2, <2>1 DEF Quot
  <2>3. (w * r) \div W \in 0..r /\ (w = W => (w * r) \div W = r)
    BY <2>1, PartOfWhole
  <2> QED BY <1>2, <2>2, <2>3 DEF PortionFor
<1>3. CASE w > 0 /\ r < 0
  <2> DEFINE s == -r
  <2>1. s \in Nat \ {0} /\ W \in Nat \ {0} /\ r = -s
    BY <1>3
  <2> HIDE DEF s
  <2>2. w * r = -(w * s) /\ w * s \in Nat /\ w * s > 0
    BY <1>3, <2>1
  <2>3. part = -((w * s) \div W)
    <3> DEFINE x == w * r
               y == w * s
    <3>1. part = Quot(x, W) /\ x = -y /\ y \in Nat /\ y > 0
      BY <1>0, <1>3, <2>2
    <3> HIDE DEF x, y
    <3>2. x < 0 /\ -x = y /\ x \in Int
      BY <3>1
    <3>3. part = -(y \div W)
      BY <3>1, <3>2 DEF Quot
    <3> QED BY <3>3 DEF y
  <2>4. (w * s) \div W \in 0..s /\ (w = W => (w * s) \div W = s)
    BY <2>1, PartOfWhole
  <2> QED BY <1>3, <2>1, <2>3, <2>4 DEF PortionFor
<1> QED BY <1>1, <1>2, <1>3 DEF part

\* What is left to give, and what is given.
Pots == [reward : Int, weight : Nat, given : Seq(Int)]

PartFor(pot, w) == Portion(w, pot.reward, pot.weight)

NextPot(pot, w) ==
    [reward |-> pot.reward - PartFor(pot, w), weight |-> pot.weight - w,
     given |-> Append(pot.given, PartFor(pot, w))]

FullPot(ws, a) == [reward |-> a, weight |-> SumFunction(ws), given |-> <<>>]

GivesOut(v, ws, a) ==
    v = [i \in 0..Len(ws) |-> IF i = 0 THEN FullPot(ws, a) ELSE NextPot(v[i - 1], ws[i])]

\* Shares is what the last of the pots that GivesOut describes has given.
LEMMA SharesUnfold ==
    ASSUME NEW ws, NEW a, NEW v0, GivesOut(v0, ws, a)
    PROVE  \E v : GivesOut(v, ws, a) /\ Shares(ws, a) = v[Len(ws)].given
<1> DEFINE It == CHOOSE v : GivesOut(v, ws, a)
<1>1. GivesOut(It, ws, a)
  OBVIOUS
<1>2. Shares(ws, a) = It[Len(ws)].given
  BY DEF Shares, GivesOut, FullPot, NextPot, PartFor, Portion
<1> QED BY <1>1, <1>2

\* As long as there is the weight, a pot with a part taken out is one.
LEMMA PotStep ==
    ASSUME NEW pot \in Pots, NEW w \in Nat, w <= pot.weight
    PROVE  /\ NextPot(pot, w) \in Pots
           /\ NextPot(pot, w).weight = pot.weight - w
           /\ NextPot(pot, w).reward = pot.reward - PartFor(pot, w)
           /\ NextPot(pot, w).given = Append(pot.given, PartFor(pot, w))
           /\ PartFor(pot, w) \in Int
<1>1. pot.reward \in Int /\ pot.weight \in Nat /\ pot.given \in Seq(Int)
  BY DEF Pots
<1>2. PartFor(pot, w) \in Int
  <2>1. PartFor(pot, w) = Portion(w, pot.reward, pot.weight)
    BY DEF PartFor
  <2> QED BY <1>1, <2>1, PortionIs DEF PortionFor
<1>3. pot.weight - w \in Nat /\ pot.reward - PartFor(pot, w) \in Int
      /\ Append(pot.given, PartFor(pot, w)) \in Seq(Int)
  BY <1>1, <1>2
<1> QED BY <1>2, <1>3 DEF NextPot, Pots

\* The weights of a list, up to a place in it and from there on.
LEMMA WeightsLeft ==
    ASSUME NEW ws \in Seq(Nat), NEW n, n = Len(ws)
    PROVE  /\ n \in Nat /\ ws \in [1..n -> Nat] /\ SumFunction(ws) \in Nat
           /\ SumFunction(ws) = SumFunctionOnSet(ws, 1..n)
           /\ SumFunctionOnSet(ws, 1..0) = 0
           /\ \A k \in 0..n : SumFunctionOnSet(ws, 1..k) \in Nat
                              /\ SumFunctionOnSet(ws, 1..k) <= SumFunction(ws)
           /\ \A k \in 1..n : SumFunctionOnSet(ws, 1..k) = SumFunctionOnSet(ws, 1..(k - 1)) + ws[k]
<1>1. n \in Nat /\ ws \in [1..n -> Nat] /\ DOMAIN ws = 1..n
  OBVIOUS
<1>2. IntegersOn(ws, 1..n) /\ SumFunction(ws) = SumFunctionOnSet(ws, 1..n)
  BY <1>1 DEF IntegersOn, SumFunction
<1> DEFINE S(k) == SumFunctionOnSet(ws, 1..k)
<1>3. S(0) = 0
  BY SumNothing
<1>4. \A k \in 1..n : S(k) = S(k - 1) + ws[k] /\ S(k - 1) \in Int
  BY <1>1, <1>2, SumPartial
<1> HIDE DEF S
<1>5. \A k \in 0..n : S(k) \in Nat
  <2> DEFINE T == {k \in 0..n : S(k) \in Nat}
  <2>1. 0 \in T
    BY <1>1, <1>3
  <2>2. \A k \in 1..n : k - 1 \in T => k \in T
    BY <1>1, <1>4
  <2> HIDE DEF T
  <2>3. \A k \in 0..n : k \in T
    BY <1>1, <2>1, <2>2, StepByStep
  <2> QED BY <2>3 DEF T
<1>6. \A k \in 0..n : S(k) <= S(n)
  <2> DEFINE T == {k \in 0..n : S(n - k) <= S(n)}
  <2>1. 0 \in T
    BY <1>1, <1>5
  <2>2. ASSUME NEW k \in 1..n, k - 1 \in T PROVE k \in T
    <3>1. n - k + 1 \in 1..n /\ (n - k + 1) - 1 = n - k /\ n - (k - 1) = n - k + 1 /\ n - k \in 0..n
      BY <1>1
    <3> DEFINE j == n - k + 1
    <3>2. j \in 1..n /\ j - 1 = n - k /\ n - k \in 0..n /\ n \in 0..n
      BY <1>1, <3>1
    <3>3. S(j) <= S(n)
      BY <2>2, <3>1
    <3> HIDE DEF j
    <3>4. S(j) = S(n - k) + ws[j] /\ ws[j] \in Nat
      BY <1>1, <1>4, <3>2
    <3>5. S(n - k) \in Nat /\ S(n) \in Nat
      BY <1>5, <3>2
    <3> QED BY <3>3, <3>4, <3>5
  <2> HIDE DEF T
  <2>3. \A k \in 0..n : k \in T
    BY <1>1, <2>1, <2>2, StepByStep
  <2>4. ASSUME NEW k \in 0..n PROVE S(k) <= S(n)
    <3>1. n - k \in 0..n /\ n - (n - k) = k
      BY <1>1
    <3>2. n - k \in T
      BY <2>3, <3>1
    <3> QED BY <3>1, <3>2 DEF T
  <2> QED BY <2>4
<1>7. n \in 0..n
  BY <1>1
<1> QED BY <1>1, <1>2, <1>3, <1>4, <1>5, <1>6, <1>7 DEF S

\* There are such pots for all weights and amounts.
LEMMA GivesOutDefined ==
    ASSUME NEW ws \in Seq(Nat), NEW a \in Int
    PROVE  \E v : GivesOut(v, ws, a)
<1> DEFINE n == Len(ws)
           op == [p \in Pots \X Nat |-> IF p[2] <= p[1].weight THEN NextPot(p[1], p[2]) ELSE p[1]]
           full == FullPot(ws, a)
<1>1. /\ n \in Nat /\ ws \in [1..n -> Nat] /\ SumFunction(ws) \in Nat
      /\ SumFunctionOnSet(ws, 1..0) = 0
      /\ \A k \in 0..n : SumFunctionOnSet(ws, 1..k) \in Nat
                         /\ SumFunctionOnSet(ws, 1..k) <= SumFunction(ws)
      /\ \A k \in 1..n : SumFunctionOnSet(ws, 1..k) = SumFunctionOnSet(ws, 1..(k - 1)) + ws[k]
  BY WeightsLeft
<1>2. op \in [Pots \X Nat -> Pots]
  BY PotStep
<1>3. full \in Pots /\ full.weight = SumFunction(ws)
  BY <1>1 DEF Pots, FullPot
<1>4. HasSteps(op, full, ws, n, Pots)
  <2> HIDE DEF op, n, full
  <2> QED BY <1>1, <1>2, <1>3, StepsDefined, Zenon
<1>5. PICK v \in [0..n -> Pots] : v[0] = full /\ \A k \in 1..n : v[k] = op[<<v[k - 1], ws[k]>>]
  <2> HIDE DEF op, full
  <2> QED BY <1>4 DEF HasSteps
<1>6. ASSUME NEW k \in 1..n
      PROVE  /\ v[k - 1] \in Pots /\ ws[k] \in Nat
             /\ v[k] = IF ws[k] <= v[k - 1].weight THEN NextPot(v[k - 1], ws[k]) ELSE v[k - 1]
  <2>1. v[k - 1] \in Pots /\ ws[k] \in Nat
    <3>1. k - 1 \in 0..n /\ v \in [0..n -> Pots] /\ ws \in [1..n -> Nat]
      BY <1>1
    <3> HIDE DEF op, full, n
    <3> QED BY <3>1
  <2>2. op[<<v[k - 1], ws[k]>>] = IF ws[k] <= v[k - 1].weight THEN NextPot(v[k - 1], ws[k]) ELSE v[k - 1]
    BY <2>1
  <2> HIDE DEF op
  <2> QED BY <1>5, <2>1, <2>2
<1> DEFINE S(k) == SumFunctionOnSet(ws, 1..k)
           T == {k \in 0..n : v[k].weight = SumFunction(ws) - S(k)}
<1>9. ASSUME NEW k \in 1..n, k - 1 \in T
      PROVE  k \in T /\ v[k] = NextPot(v[k - 1], ws[k])
  <2>1. S(k) = S(k - 1) + ws[k] /\ S(k) <= SumFunction(ws) /\ S(k) \in Nat /\ S(k - 1) \in Nat
    BY <1>1
  <2>2. v[k - 1].weight = SumFunction(ws) - S(k - 1)
    BY <1>9
  <2> HIDE DEF S
  <2>3. ws[k] <= v[k - 1].weight
    BY <1>1, <1>6, <2>1, <2>2
  <2>4. v[k] = NextPot(v[k - 1], ws[k]) /\ v[k].weight = v[k - 1].weight - ws[k]
    BY <1>6, <2>3, PotStep
  <2>5. v[k].weight = SumFunction(ws) - S(k)
    BY <1>1, <1>6, <2>1, <2>2, <2>4
  <2> QED BY <2>4, <2>5
<1>10. 0 \in T
  BY <1>1, <1>3, <1>5
<1>11. \A k \in 0..n : k \in T
  <2> HIDE DEF T, n
  <2> QED BY <1>1, <1>9, <1>10, StepByStep
<1>12. ASSUME NEW k \in 0..n
       PROVE  v[k] = IF k = 0 THEN full ELSE NextPot(v[k - 1], ws[k])
  <2>1. CASE k = 0
    BY <1>5, <2>1
  <2>2. CASE k # 0
    <3>1. k \in 1..n /\ k - 1 \in 0..n
      BY <1>1, <2>2
    <3>2. k - 1 \in T
      BY <1>11, <3>1
    <3> HIDE DEF T, full
    <3> QED BY <1>9, <2>2, <3>1, <3>2
  <2> QED BY <2>1, <2>2
<1>13. v = [k \in 0..n |-> v[k]]
  OBVIOUS
<1> HIDE DEF full
<1> QED BY <1>12, <1>13 DEF GivesOut, full

\* The numbers themselves, as weights.
Same == [x \in Int |-> x]

\* What Shares gives: all of the amount if there is any weight, nothing to
\* those without, and to nobody anything of another sign.
SharedOut(given, ws, a) ==
    /\ given \in Seq(Int) /\ Len(given) = Len(ws)
    /\ SumFunction(ws) > 0 \/ a = 0 => Weigh(Same, given) = a
    /\ a >= 0 => Weigh(Same, given) <= a
    /\ \A i \in DOMAIN ws : /\ ws[i] = 0 => given[i] = 0
                            /\ a >= 0 => given[i] >= 0
                            /\ a <= 0 => given[i] <= 0

\* The pot after k parts.
PotAfter(pot, ws, a, k) ==
    /\ pot \in Pots /\ Len(pot.given) = k
    /\ pot.weight = SumFunction(ws) - SumFunctionOnSet(ws, 1..k)
    /\ pot.reward + Weigh(Same, pot.given) = a
    /\ a >= 0 => pot.reward >= 0
    /\ a <= 0 => pot.reward <= 0
    /\ pot.weight = 0 => SumFunction(ws) = 0 \/ pot.reward = 0
    /\ \A i \in 1..k : /\ ws[i] = 0 => pot.given[i] = 0
                       /\ a >= 0 => pot.given[i] >= 0
                       /\ a <= 0 => pot.given[i] <= 0

\* A list of numbers and one more.
LEMMA SumAppend ==
    ASSUME NEW list \in Seq(Int), NEW x \in Int
    PROVE  Weigh(Same, list) \in Int /\ Weigh(Same, Append(list, x)) = Weigh(Same, list) + Same[x]
<1>1. Same \in [Int -> Int]
  BY DEF Same
<1> QED BY <1>1, WeighAppend

\* From one weight to the next the pot stays as PotAfter says.
LEMMA PotAfterNext ==
    ASSUME NEW ws \in Seq(Nat), NEW a \in Int, NEW k \in 1..Len(ws), NEW pot,
           PotAfter(pot, ws, a, k - 1)
    PROVE  PotAfter(NextPot(pot, ws[k]), ws, a, k)
<1> DEFINE n == Len(ws)
           w == ws[k]
           part == PartFor(pot, w)
           new == NextPot(pot, w)
           W == SumFunction(ws)
           S(j) == SumFunctionOnSet(ws, 1..j)
<1>1. /\ n \in Nat /\ w \in Nat /\ W \in Nat /\ k - 1 \in 0..n /\ k \in 0..n
      /\ S(k) \in Nat /\ S(k) <= W /\ S(k - 1) \in Nat /\ S(k) = S(k - 1) + w
  <2>1. /\ n \in Nat /\ ws \in [1..n -> Nat] /\ SumFunction(ws) \in Nat
        /\ \A j \in 0..n : SumFunctionOnSet(ws, 1..j) \in Nat
                           /\ SumFunctionOnSet(ws, 1..j) <= SumFunction(ws)
        /\ \A j \in 1..n : SumFunctionOnSet(ws, 1..j) = SumFunctionOnSet(ws, 1..(j - 1)) + ws[j]
    BY WeightsLeft
  <2> QED BY <2>1
<1> HIDE DEF S, W, n, w
<1>2. /\ pot \in Pots /\ Len(pot.given) = k - 1 /\ pot.weight = W - S(k - 1)
      /\ pot.reward + Weigh(Same, pot.given) = a
      /\ a >= 0 => pot.reward >= 0
      /\ a <= 0 => pot.reward <= 0
      /\ pot.weight = 0 => W = 0 \/ pot.reward = 0
      /\ \A i \in 1..(k - 1) : /\ ws[i] = 0 => pot.given[i] = 0
                               /\ a >= 0 => pot.given[i] >= 0
                               /\ a <= 0 => pot.given[i] <= 0
  BY DEF PotAfter, W, S
<1>3. pot.reward \in Int /\ pot.weight \in Nat /\ pot.given \in Seq(Int)
  BY <1>2 DEF Pots
<1>4. w <= pot.weight
  BY <1>1, <1>2
<1>5. /\ new \in Pots /\ new.weight = pot.weight - w /\ new.reward = pot.reward - part
      /\ new.given = Append(pot.given, part) /\ part \in Int
  BY <1>1, <1>2, <1>4, PotStep
<1>6. /\ pot.reward >= 0 => part >= 0 /\ part <= pot.reward
      /\ pot.reward <= 0 => part <= 0 /\ pot.reward <= part
      /\ w = 0 => part = 0
      /\ w > 0 /\ w = pot.weight => part = pot.reward
  <2> DEFINE r == pot.reward
             b == pot.weight
  <2>2. w \in Nat /\ r \in Int /\ b \in Nat /\ w <= b /\ part = Portion(w, r, b)
    BY <1>1, <1>3, <1>4 DEF PartFor
  <2> HIDE DEF part, r, b
  <2>3. /\ r >= 0 => part >= 0 /\ part <= r
        /\ r <= 0 => part <= 0 /\ r <= part
        /\ w = 0 => part = 0
        /\ w > 0 /\ w = b => part = r
    BY <2>2, PortionIs DEF PortionFor
  <2> QED BY <2>3 DEF r, b
<1> HIDE DEF part, new
<1>7. /\ Len(new.given) = k /\ new.given[k] = part
      /\ \A i \in 1..(k - 1) : new.given[i] = pot.given[i]
  BY <1>2, <1>3, <1>5
<1>8. Weigh(Same, new.given) = Weigh(Same, pot.given) + part /\ Weigh(Same, pot.given) \in Int
  <2>1. Same \in [Int -> Int] /\ Same[part] = part
    BY <1>5 DEF Same
  <2> DEFINE list == pot.given
  <2>2. list \in Seq(Int) /\ part \in Int /\ new.given = Append(list, part)
    BY <1>3, <1>5
  <2> HIDE DEF list
  <2>3. Weigh(Same, list) \in Int /\ Weigh(Same, Append(list, part)) = Weigh(Same, list) + Same[part]
    BY <2>2, SumAppend
  <2>4. Weigh(Same, new.given) = Weigh(Same, list) + part
    BY <2>1, <2>2, <2>3
  <2> QED BY <2>3, <2>4 DEF list
<1>9. new.weight = W - S(k) /\ new.reward + Weigh(Same, new.given) = a
  <2>1. new.weight = W - S(k)
    BY <1>1, <1>2, <1>5
  <2>2. new.reward + Weigh(Same, new.given) = a
    <3>1. new.reward = pot.reward - part /\ pot.reward + Weigh(Same, pot.given) = a
      BY <1>2, <1>5
    <3> QED BY <1>3, <1>5, <1>8, <3>1
  <2> QED BY <2>1, <2>2
<1>10. (a >= 0 => new.reward >= 0 /\ part >= 0) /\ (a <= 0 => new.reward <= 0 /\ part <= 0)
  BY <1>2, <1>3, <1>5, <1>6
<1>11. new.weight = 0 => W = 0 \/ new.reward = 0
  <2> SUFFICES ASSUME new.weight = 0, W # 0 PROVE new.reward = 0
    OBVIOUS
  <2>1. w = pot.weight /\ new.reward = pot.reward - part
    <3>1. new.weight = pot.weight - w /\ new.reward = pot.reward - part
      BY <1>5
    <3>2. pot.weight \in Nat /\ w \in Nat
      BY <1>1, <1>3
    <3> HIDE DEF new, part, w
    <3> QED BY <3>1, <3>2
  <2>2. w = 0 => pot.reward = 0 /\ part = 0
    BY <1>2, <1>6, <2>1
  <2>3. w > 0 => part = pot.reward
    BY <1>6, <2>1
  <2> QED BY <1>1, <1>3, <2>1, <2>2, <2>3
<1>12. ASSUME NEW i \in 1..k
       PROVE  /\ ws[i] = 0 => new.given[i] = 0
              /\ a >= 0 => new.given[i] >= 0
              /\ a <= 0 => new.given[i] <= 0
  <2>1. CASE i = k
    BY <1>6, <1>7, <1>10, <2>1 DEF w
  <2>2. CASE i # k
    <3>1. i \in 1..(k - 1)
      BY <2>2
    <3> QED BY <1>2, <1>7, <3>1
  <2> QED BY <2>1, <2>2
<1>13. PotAfter(new, ws, a, k)
  BY <1>5, <1>7, <1>9, <1>10, <1>11, <1>12 DEF PotAfter, W, S
<1> QED BY <1>13 DEF new, w

\* Shares gives out the whole amount, nothing to those without weight, and
\* nothing of the other sign.
LEMMA SharesGive ==
    ASSUME NEW ws \in Seq(Nat), NEW a \in Int
    PROVE  SharedOut(Shares(ws, a), ws, a)
<1> DEFINE n == Len(ws)
<1>1. PICK v : GivesOut(v, ws, a) /\ Shares(ws, a) = v[n].given
  BY GivesOutDefined, SharesUnfold
<1>2. /\ n \in Nat /\ DOMAIN ws = 1..n /\ SumFunction(ws) \in Nat
      /\ SumFunction(ws) = SumFunctionOnSet(ws, 1..n) /\ SumFunctionOnSet(ws, 1..0) = 0
  BY WeightsLeft
<1>3. v[0] = FullPot(ws, a)
  BY <1>1, <1>2 DEF GivesOut
<1>4. ASSUME NEW k \in 1..n PROVE v[k] = NextPot(v[k - 1], ws[k])
  <2>1. k \in 0..n /\ k # 0
    BY <1>2
  <2> QED BY <1>1, <2>1 DEF GivesOut
<1> DEFINE T == {k \in 0..n : PotAfter(v[k], ws, a, k)}
<1>5. 0 \in T
  <2>1. v[0] \in Pots /\ v[0].reward = a /\ v[0].weight = SumFunction(ws) /\ v[0].given = <<>>
    BY <1>2, <1>3 DEF FullPot, Pots
  <2>2. Weigh(Same, <<>>) = 0 /\ 1..0 = {} /\ 0 \in 0..n
    BY <1>2, WeighEmpty
  <2>3. PotAfter(v[0], ws, a, 0)
    BY <1>2, <2>1, <2>2 DEF PotAfter
  <2> QED BY <2>2, <2>3
<1>6. ASSUME NEW k \in 1..n, k - 1 \in T PROVE k \in T
  <2>1. PotAfter(v[k - 1], ws, a, k - 1) /\ k \in 0..n
    BY <1>6
  <2>2. PotAfter(NextPot(v[k - 1], ws[k]), ws, a, k)
    BY <2>1, PotAfterNext
  <2> QED BY <1>4, <2>1, <2>2
<1>7. n \in T
  <2> HIDE DEF T, n
  <2>1. \A k \in 0..n : k \in T
    BY <1>2, <1>5, <1>6, StepByStep
  <2> QED BY <1>2, <2>1
<1>8. PotAfter(v[n], ws, a, n)
  BY <1>7
<1>9. v[n].reward \in Int /\ v[n].given \in Seq(Int) /\ v[n].weight = 0
  BY <1>2, <1>8 DEF PotAfter, Pots
<1>10. Weigh(Same, v[n].given) \in Int
  <2>1. Same \in [Int -> Int]
    BY DEF Same
  <2> QED BY <1>9, <2>1, WeighConcat
<1>11. SumFunction(ws) > 0 \/ a = 0 => Weigh(Same, v[n].given) = a
  BY <1>2, <1>8, <1>9, <1>10 DEF PotAfter
<1>12. a >= 0 => Weigh(Same, v[n].given) <= a
  BY <1>8, <1>9, <1>10 DEF PotAfter
<1> QED BY <1>1, <1>2, <1>8, <1>9, <1>11, <1>12 DEF SharedOut, PotAfter

\* The same for an amount times a weight, whatever the weight.
LEMMA QuotOf ==
    ASSUME NEW r \in Int, NEW w \in Nat, NEW W \in Nat \ {0}, w <= W
    PROVE  PortionFor(Quot(r * w, W), w, r, W)
<1>1. CASE w = 0
  <2>1. r * w = 0 /\ 0 \div W = 0
    BY <1>1
  <2>2. Quot(0, W) = 0
    BY <2>1 DEF Quot
  <2> QED BY <1>1, <2>1, <2>2 DEF PortionFor
<1>2. CASE w # 0
  <2>1. r * w = w * r /\ w > 0 /\ W \in Nat
    BY <1>2
  <2>2. Quot(r * w, W) = Portion(w, r, W)
    BY <2>1 DEF Portion
  <2> QED BY <2>1, <2>2, PortionIs
<1> QED BY <1>1, <1>2

\* A quotient has the sign of the number divided.
LEMMA QuotSign ==
    ASSUME NEW a \in Int, NEW b \in Nat \ {0}
    PROVE  Quot(a, b) \in Int /\ (a >= 0 => Quot(a, b) >= 0) /\ (a <= 0 => Quot(a, b) <= 0)
<1>1. CASE a >= 0
  <2>1. a \in Nat /\ Quot(a, b) = a \div b
    BY <1>1 DEF Quot
  <2>2. a \div b \in Nat /\ (a \div b) * b <= a
    BY <2>1, DivFloor
  <2>3. a = 0 => a \div b = 0
    OBVIOUS
  <2> QED BY <1>1, <2>1, <2>2, <2>3
<1>2. CASE a < 0
  <2>1. -a \in Nat /\ Quot(a, b) = -((-a) \div b)
    BY <1>2 DEF Quot
  <2>2. (-a) \div b \in Nat
    BY <2>1, DivFloor
  <2> QED BY <1>2, <2>1, <2>2
<1> QED BY <1>1, <1>2

-----------------------------------------------------------------------------
(* What claims pay *)

Gain(x) == IF x > 0 THEN x ELSE 0

Pays(To, claims, x) ==
    claims \in Seq(ClaimsTo(To)) /\ Weigh(GainsOf(ClaimsTo(To)), claims) = x

\* One claim, and none.
LEMMA PaysOne ==
    ASSUME NEW To, NEW to \in To, NEW type \in ClaimTypes, NEW x \in Int
    PROVE  Pays(To, <<Claim(to, type, x)>>, Gain(x)) /\ Pays(To, <<>>, 0)
<1> DEFINE R == ClaimsTo(To)
           G == GainsOf(R)
           c == Claim(to, type, x)
<1>1. c \in R /\ c.amount = x
  BY DEF Claim, ClaimsTo
<1>2. G \in [R -> Int]
  BY WeightsKept
<1>3. G[c] = Gain(x)
  <2> HIDE DEF c, R
  <2> QED BY <1>1 DEF GainsOf, Gain
<1> HIDE DEF c, R, G
<1>4. <<c>> \in Seq(R) /\ Weigh(G, <<c>>) = G[c]
  <2>1. c \in R /\ G \in [R -> Int]
    BY <1>1, <1>2
  <2>2. OneWeighs(G, c, R)
    BY OneElement, Zenon
  <2> QED BY <2>1, <2>2, Zenon DEF OneWeighs
<1>5. <<>> \in Seq(R) /\ Weigh(G, <<>>) = 0
  BY WeighEmpty
<1> QED BY <1>3, <1>4, <1>5 DEF Pays, c, R, G

\* Two lists of claims.
LEMMA PaysConcat ==
    ASSUME NEW To, NEW s, NEW x, Pays(To, s, x), NEW t, NEW y, Pays(To, t, y)
    PROVE  Pays(To, s \o t, x + y) /\ x \in Int /\ y \in Int
<1> DEFINE R == ClaimsTo(To)
           G == GainsOf(R)
<1>1. G \in [R -> Int]
  BY WeightsKept
<1>2. s \in Seq(R) /\ t \in Seq(R) /\ Weigh(G, s) = x /\ Weigh(G, t) = y
  BY DEF Pays
<1> HIDE DEF R, G
<1>3. /\ s \o t \in Seq(R) /\ Weigh(G, s) \in Int /\ Weigh(G, t) \in Int
      /\ Weigh(G, s \o t) = Weigh(G, s) + Weigh(G, t)
  BY <1>1, <1>2, WeighConcat
<1> QED BY <1>2, <1>3 DEF Pays, R, G

\* Many lists of claims.
AllPay(To, ss, xs) ==
    /\ xs \in Seq(Int)
    /\ ss = [i \in DOMAIN xs |-> ss[i]]
    /\ \A i \in DOMAIN xs : Pays(To, ss[i], xs[i])

\* Lists of claims that pay amounts pay the sum of them together.
LEMMA PaysFlatten ==
    ASSUME NEW To, NEW ss, NEW xs, AllPay(To, ss, xs)
    PROVE  Pays(To, FlattenSeq(ss), Weigh(Same, xs))
<1> DEFINE R == ClaimsTo(To)
           G == GainsOf(R)
           n == Len(xs)
<1>1. G \in [R -> Int]
  BY WeightsKept
<1>2. xs \in Seq(Int) /\ n \in Nat /\ DOMAIN xs = 1..n /\ xs \in [1..n -> Int]
  BY DEF AllPay
<1>3. DOMAIN ss = 1..n /\ ss = [i \in 1..n |-> ss[i]] /\ \A i \in 1..n : ss[i] \in Seq(R)
  BY <1>2 DEF AllPay, Pays
<1>4. \A i \in 1..n : Weigh(G, ss[i]) = xs[i]
  BY <1>2 DEF AllPay, Pays
<1> HIDE DEF R, G, n
<1>5. ss \in [1..n -> Seq(R)]
  BY <1>3
<1>6. ss \in Seq(Seq(R))
  BY <1>2, <1>5
<1>7. PICK V : V = [s \in Seq(R) |-> Weigh(G, s)]
  OBVIOUS
<1>8. FlattenSeq(ss) \in Seq(R) /\ Weigh(G, FlattenSeq(ss)) = Weigh(V, ss)
  BY <1>1, <1>6, <1>7, WeighFlatten
<1>9. Weigh(V, ss) = Weigh(Same, xs)
  <2>1. Alike(V, ss, Same, xs)
    BY <1>2, <1>3, <1>4, <1>7 DEF Alike, Same
  <2>2. Same \in [Int -> Int]
    BY DEF Same
  <2>3. Same \in [Int -> Int] /\ xs \in Seq(Int) /\ Alike(V, ss, Same, xs)
    BY <1>2, <2>1, <2>2
  <2>4. AlikeWeigh(V, ss, Same, xs, Int)
    BY AlikeWeighSame, Zenon
  <2> QED BY <2>3, <2>4, Zenon DEF AlikeWeigh
<1> QED BY <1>8, <1>9 DEF Pays, R, G

\* Addresses to claim for the voters 1..n.
HasAddresses(To, n) ==
    /\ BurnAddress \in To
    /\ \A v \in 1..n : /\ <<"identity", v>> \in To /\ <<"delegation", v>> \in To
                       /\ \A i \in Nat : <<"node", v, i>> \in To

\* The nodes of a voter, paid by the parts of an amount.
LEMMA NodesPay ==
    ASSUME NEW To, NEW n \in Nat, NEW v \in 1..n, HasAddresses(To, n), NEW nodes \in Seq(Nat),
           NEW a \in Int, NEW given, SharedOut(given, nodes, a), Weigh(Same, given) = a
    PROVE  Pays(To, [i \in DOMAIN nodes |-> Claim(<<"node", v, i>>, "MIRROR", given[i])], Gain(a))
<1> DEFINE R == ClaimsTo(To)
           G == GainsOf(R)
           C == [i \in DOMAIN nodes |-> Claim(<<"node", v, i>>, "MIRROR", given[i])]
           m == Len(nodes)
<1>1. m \in Nat /\ DOMAIN nodes = 1..m
  OBVIOUS
<1>2. given \in Seq(Int) /\ DOMAIN given = 1..m /\ given \in [1..m -> Int]
  BY <1>1 DEF SharedOut
<1>3. ASSUME NEW i \in 1..m
      PROVE  C[i] \in R /\ C[i].amount = given[i]
  <2>1. <<"node", v, i>> \in To
    <3>1. i \in Nat
      BY <1>1
    <3> QED BY <3>1 DEF HasAddresses
  <2>3. given[i] \in Int
    <3> HIDE DEF m
    <3> QED BY <1>2
  <2> QED BY <1>1, <2>1, <2>3 DEF Claim, ClaimsTo, ClaimTypes
<1>4. C = [i \in 1..m |-> C[i]]
  BY <1>1
<1> HIDE DEF C, R, m
<1>5. C \in [1..m -> R] /\ C \in Seq(R) /\ DOMAIN C = 1..m
  <2>1. C \in [1..m -> R]
    BY <1>3, <1>4
  <2>2. m \in Nat
    BY <1>1
  <2> QED BY ONLY <2>1, <2>2
<1>6. G \in [R -> Int] /\ \A i \in 1..m : G[C[i]] = Gain(given[i])
  <2>1. GainsOf(R) \in [R -> Int]
    BY WeightsKept DEF R
  <2> QED BY <1>3, <2>1 DEF GainsOf, Gain
<1> HIDE DEF G
<1>7. CASE a >= 0
  <2>1. \A i \in 1..m : given[i] >= 0 /\ given[i] \in Int
    BY <1>1, <1>2, <1>7 DEF SharedOut
  <2>2. \A i \in 1..m : G[C[i]] = given[i]
    BY <1>6, <2>1 DEF Gain
  <2>3. Alike(G, C, Same, given) /\ Same \in [Int -> Int]
    BY <1>2, <1>5, <2>1, <2>2 DEF Alike, Same
  <2>4. Weigh(G, C) = Weigh(Same, given)
    <3>1. Same \in [Int -> Int] /\ given \in Seq(Int) /\ Alike(G, C, Same, given)
      BY <1>2, <2>3
    <3>2. AlikeWeigh(G, C, Same, given, Int)
      BY AlikeWeighSame, Zenon
    <3> QED BY <3>1, <3>2, Zenon DEF AlikeWeigh
  <2> QED BY <1>5, <1>7, <2>4 DEF Pays, Gain, G, R, C
<1>8. CASE a < 0
  <2>1. \A i \in 1..m : given[i] <= 0 /\ given[i] \in Int
    BY <1>1, <1>2, <1>8 DEF SharedOut
  <2>2. \A i \in DOMAIN C : G[C[i]] = 0
    BY <1>5, <1>6, <2>1 DEF Gain
  <2>3. Weigh(G, C) = 0
    <3>1. Weigh(G, C) >= 0 /\ Weigh(G, C) <= 0
      <4>1. G \in [R -> Int] /\ C \in Seq(R) /\ \A i \in DOMAIN C : G[C[i]] >= 0 /\ G[C[i]] <= 0
        BY <1>5, <1>6, <2>2
      <4> QED BY ONLY <4>1, WeighSign
    <3>2. Weigh(G, C) \in Int
      BY <1>5, <1>6, WeighConcat
    <3> QED BY <3>1, <3>2
  <2> QED BY <1>5, <1>8, <2>3 DEF Pays, Gain, G, R, C
<1> QED BY <1>7, <1>8

\* The split of an amount among a voter, its delegators and its nodes pays all of
\* it, and nothing for a penalty.
LEMMA SplitPays ==
    ASSUME NEW To, NEW pol \in Seq(Voters), NEW v \in DOMAIN pol, HasAddresses(To, Len(pol)),
           NEW offer, offer.claimBack \in To, NEW a \in Int
    PROVE  Pays(To, SigningSplit(pol, v, offer, a), Gain(a))
<1> DEFINE nodes == pol[v].nodes
           staked == SumFunction(nodes)
           total == pol[v].delegation + staked
           sA == Quot(a * staked, total)
           dA == a - sA
           cap == Min({StakingFeeCap, pol[v].fee})
           dF == Quot(dA * pol[v].fee, TotalBips)
           sF == Quot(sA * cap, TotalBips)
           given == Shares(nodes, sA - sF)
           A == IF dF + sF # 0 THEN <<Claim(<<"identity", v>>, "FEE", dF + sF)>> ELSE <<>>
           B == <<Claim(<<"delegation", v>>, "WNAT", dA - dF)>>
           C == [i \in DOMAIN nodes |-> Claim(<<"node", v, i>>, "MIRROR", given[i])]
<1>1. /\ pol[v].delegation \in Nat /\ nodes \in Seq(Nat) /\ pol[v].fee \in 0..TotalBips
      /\ v \in 1..Len(pol) /\ Len(pol) \in Nat
  <2>1. pol[v] \in Voters /\ v \in 1..Len(pol) /\ Len(pol) \in Nat
    OBVIOUS
  <2> QED BY <2>1 DEF Voters
<1>2. staked \in Nat
  BY <1>1, WeightsLeft
<1>3. TotalBips \in Nat \ {0} /\ StakingFeeCap \in 0..TotalBips
  BY SharesAssumption
<1>4. SigningSplit(pol, v, offer, a) = IF total = 0 THEN ClaimBack(offer, a) ELSE A \o B \o C
  BY DEF SigningSplit
<1>5. /\ <<"identity", v>> \in To /\ <<"delegation", v>> \in To
      /\ {"FEE", "WNAT", "DIRECT"} \in SUBSET ClaimTypes
  BY <1>1 DEF HasAddresses, ClaimTypes
<1>6. cap \in 0..TotalBips
  <2> DEFINE S == {StakingFeeCap, pol[v].fee}
  <2>1. S \in SUBSET Nat /\ S # {} /\ \A x \in S : x \in 0..TotalBips
    BY <1>1, <1>3
  <2>2. Min(S) \in S
    <3> HIDE DEF S
    <3> QED BY <2>1, MinOfNaturals
  <2> QED BY <2>1, <2>2
<1>7. CASE total = 0
  <2>1. ClaimBack(offer, a) = <<Claim(offer.claimBack, "DIRECT", a)>>
    BY DEF ClaimBack
  <2>2. Pays(To, <<Claim(offer.claimBack, "DIRECT", a)>>, Gain(a))
    BY <1>5, PaysOne
  <2> QED BY <1>4, <1>7, <2>1, <2>2
<1>8. CASE total # 0
  <2>0. total \in Nat \ {0} /\ staked <= total
    BY <1>1, <1>2, <1>8
  <2>1. PortionFor(sA, staked, a, total)
    <3> HIDE DEF total, staked
    <3> QED BY <1>2, <2>0, QuotOf
  <2>2. sA \in Int /\ dA \in Int
    BY <2>1 DEF PortionFor
  <2>3. PortionFor(dF, pol[v].fee, dA, TotalBips)
    <3> DEFINE f == pol[v].fee
    <3>1. f \in Nat /\ f <= TotalBips /\ dA \in Int
      BY <1>1, <2>2
    <3> HIDE DEF f, dA
    <3>2. PortionFor(Quot(dA * f, TotalBips), f, dA, TotalBips)
      BY <1>3, <3>1, QuotOf
    <3> QED BY <3>2 DEF f
  <2>4. PortionFor(sF, cap, sA, TotalBips)
    <3>1. cap \in Nat /\ cap <= TotalBips /\ sA \in Int
      BY <1>6, <2>2
    <3> HIDE DEF cap, sA
    <3>2. PortionFor(Quot(sA * cap, TotalBips), cap, sA, TotalBips)
      BY <1>3, <3>1, QuotOf
    <3> QED BY <3>2
  <2>5. dF \in Int /\ sF \in Int
    BY <2>3, <2>4 DEF PortionFor
  <2> HIDE DEF dF, sF, dA, sA, cap, total, nodes
  <2>6. dA = a - sA
    BY DEF dA
  <2>7. SharedOut(given, nodes, sA - sF)
    <3>1. sA - sF \in Int
      BY <2>2, <2>5
    <3> QED BY <1>1, <3>1, SharesGive
  <2> HIDE DEF given
  <2>8. Weigh(Same, given) = sA - sF
    <3>1. staked = 0 => sA - sF = 0
      BY <2>1, <2>4 DEF PortionFor
    <3>2. SumFunction(nodes) > 0 \/ sA - sF = 0
      BY <1>2, <3>1
    <3> QED BY <2>7, <3>2 DEF SharedOut
  <2>9. Pays(To, C, Gain(sA - sF))
    <3>1. sA - sF \in Int
      BY <2>2, <2>5
    <3> QED BY <1>1, <2>7, <2>8, <3>1, NodesPay
  <2>10. Pays(To, B, Gain(dA - dF))
    <3>1. dA - dF \in Int /\ "WNAT" \in ClaimTypes
      BY <1>5, <2>2, <2>5
    <3> QED BY <1>5, <3>1, PaysOne
  <2>11. Pays(To, A, Gain(dF + sF))
    <3>1. dF + sF \in Int /\ "FEE" \in ClaimTypes
      BY <1>5, <2>5
    <3>2. /\ Pays(To, <<Claim(<<"identity", v>>, "FEE", dF + sF)>>, Gain(dF + sF))
          /\ Pays(To, <<>>, 0)
      BY <1>5, <3>1, PaysOne
    <3>3. dF + sF = 0 => Gain(dF + sF) = 0
      BY DEF Gain
    <3> QED BY <3>2, <3>3
  <2> HIDE DEF A, B, C
  <2>12. Pays(To, A \o B, Gain(dF + sF) + Gain(dA - dF))
    BY <2>10, <2>11, PaysConcat
  <2>13. Pays(To, (A \o B) \o C, Gain(dF + sF) + Gain(dA - dF) + Gain(sA - sF))
    BY <2>9, <2>12, PaysConcat
  <2>14. Gain(dF + sF) + Gain(dA - dF) + Gain(sA - sF) = Gain(a)
    <3>1. CASE a >= 0
      <4>1. sA >= 0 /\ sA <= a
        BY <2>1, <3>1 DEF PortionFor
      <4>2. dA >= 0
        BY <2>2, <2>6, <4>1
      <4>3. dF >= 0 /\ dF <= dA /\ sF >= 0 /\ sF <= sA
        BY <2>3, <2>4, <4>1, <4>2 DEF PortionFor
      <4> QED BY <2>2, <2>5, <2>6, <3>1, <4>1, <4>2, <4>3 DEF Gain
    <3>2. CASE a < 0
      <4>1. sA <= 0 /\ a <= sA
        BY <2>1, <3>2 DEF PortionFor
      <4>2. dA <= 0
        BY <2>2, <2>6, <4>1
      <4>3. dF <= 0 /\ dA <= dF /\ sF <= 0 /\ sA <= sF
        BY <2>3, <2>4, <4>1, <4>2 DEF PortionFor
      <4> QED BY <2>2, <2>5, <2>6, <3>2, <4>1, <4>2, <4>3 DEF Gain
    <3> QED BY <3>1, <3>2
  <2> QED BY <1>4, <1>8, <2>13, <2>14 DEF total
<1> QED BY <1>7, <1>8

\* Sums of natural numbers.
LEMMA NaturalSum ==
    ASSUME NEW S, IsFiniteSet(S), NEW f, \A x \in S : f[x] \in Nat
    PROVE  SumFunctionOnSet(f, S) \in Nat /\ \A x \in S : f[x] <= SumFunctionOnSet(f, S)
<1> DEFINE n == Cardinality(S)
           T == {k \in 0..n : \A s \in SUBSET S : Cardinality(s) = k => SumFunctionOnSet(f, s) \in Nat}
<1>1. n \in Nat
  BY FS_CardinalityType
<1>2. \A s \in SUBSET S : IsFiniteSet(s) /\ Cardinality(s) \in 0..n
  <2> SUFFICES ASSUME NEW s \in SUBSET S PROVE IsFiniteSet(s) /\ Cardinality(s) \in 0..n
    OBVIOUS
  <2>1. IsFiniteSet(s) /\ Cardinality(s) <= Cardinality(S)
    BY FS_Subset
  <2>2. Cardinality(s) \in Nat
    BY <2>1, FS_CardinalityType
  <2> QED BY <1>1, <2>1, <2>2
<1>3. ASSUME NEW s \in SUBSET S
      PROVE  /\ s = {} => SumFunctionOnSet(f, s) = 0
             /\ \A x \in s : SumFunctionOnSet(f, s) = f[x] + SumFunctionOnSet(f, s \ {x})
  <2>1. IsFiniteSet(s) /\ \A x \in s : f[x] \in Int
    BY <1>2
  <2> QED BY <2>1, SumTake
<1>4. 0 \in T
  <2> SUFFICES ASSUME NEW s \in SUBSET S, Cardinality(s) = 0 PROVE SumFunctionOnSet(f, s) \in Nat
    BY <1>1
  <2>1. s = {}
    BY <1>2, FS_EmptySet
  <2> QED BY <1>3, <2>1
<1>5. ASSUME NEW k \in 1..n, k - 1 \in T PROVE k \in T
  <2> SUFFICES ASSUME NEW s \in SUBSET S, Cardinality(s) = k PROVE SumFunctionOnSet(f, s) \in Nat
    BY <1>1
  <2>1. s # {}
    <3>1. k # 0
      BY <1>1
    <3> QED BY <3>1, FS_EmptySet
  <2>2. PICK x : x \in s
    BY <2>1
  <2>3. s \ {x} \in SUBSET S /\ Cardinality(s \ {x}) = k - 1
    BY <2>2, OneLess
  <2>4. SumFunctionOnSet(f, s \ {x}) \in Nat
    BY <1>5, <2>3
  <2>5. SumFunctionOnSet(f, s) = f[x] + SumFunctionOnSet(f, s \ {x}) /\ f[x] \in Nat
    BY <1>3, <2>2
  <2> QED BY <2>4, <2>5
<1>6. \A k \in 0..n : k \in T
  <2> HIDE DEF T, n
  <2> QED BY <1>1, <1>4, <1>5, StepByStep
<1>7. \A s \in SUBSET S : SumFunctionOnSet(f, s) \in Nat
  BY <1>2, <1>6
<1>8. ASSUME NEW x \in S PROVE f[x] <= SumFunctionOnSet(f, S)
  <2>1. SumFunctionOnSet(f, S) = f[x] + SumFunctionOnSet(f, S \ {x}) /\ f[x] \in Nat
    BY <1>3
  <2>2. SumFunctionOnSet(f, S \ {x}) \in Nat
    BY <1>7
  <2> QED BY <2>1, <2>2
<1> QED BY <1>7, <1>8

-----------------------------------------------------------------------------
(* What each kind of claims pays of its part of an offer *)

\* Claims of nothing left out.
LEMMA PositivePays ==
    ASSUME NEW To, NEW s, NEW x, Pays(To, s, x)
    PROVE  Pays(To, Positive(s), x)
<1> DEFINE R == ClaimsTo(To)
           G == GainsOf(R)
           indices == {i \in DOMAIN s : s[i].amount > 0}
<1>1. s \in Seq(R) /\ Weigh(G, s) = x
  BY DEF Pays
<1>2. Positive(s) = Picked(s, indices)
  BY DEF Positive, Select
<1>3. G \in [R -> Int]
  BY WeightsKept
<1>4. OnlyAt(G, G, s, indices)
  <2> SUFFICES ASSUME NEW i \in DOMAIN s, i \notin indices PROVE G[s[i]] = 0
    BY DEF OnlyAt
  <2>1. s[i] \in R /\ ~(s[i].amount > 0)
    BY <1>1
  <2> HIDE DEF R
  <2> QED BY <2>1 DEF GainsOf
<1> HIDE DEF R, G, indices
<1>5. Picked(s, indices) \in Seq(R) /\ Weigh(G, Picked(s, indices)) = Weigh(G, s)
  BY <1>1, <1>3, <1>4, WeighPicked, PickedElements
<1> QED BY <1>1, <1>2, <1>5 DEF Pays, R, G

\* One element after another.
LEMMA TwoTogether == ASSUME NEW x, NEW y PROVE <<x>> \o <<y>> = <<x, y>>
<1> DEFINE u == <<x>> \o <<y>>
           w == <<x, y>>
<1>1. DOMAIN u = 1..2 /\ u = [i \in 1..2 |-> u[i]] /\ u[1] = x /\ u[2] = y
  OBVIOUS
<1>2. w = [i \in 1..2 |-> w[i]] /\ w[1] = x /\ w[2] = y
  OBVIOUS
<1>3. u = w
  <2> HIDE DEF u, w
  <2> QED BY <1>1, <1>2
<1> QED BY <1>3

\* The claims of a voter for the median pay its share, fee and rest.
LEMMA MedianForPays ==
    ASSUME NEW To, NEW pol \in Seq(Voters), NEW v \in DOMAIN pol, HasAddresses(To, Len(pol)),
           NEW a \in Nat
    PROVE  Pays(To, MedianClaimsFor(pol, v, a), a)
<1> DEFINE f == pol[v].fee
           fee == Quot(a * f, TotalBips)
           s == <<Claim(<<"identity", v>>, "FEE", fee)>>
           t == <<Claim(<<"delegation", v>>, "WNAT", a - fee)>>
<1>1. f \in 0..TotalBips /\ TotalBips \in Nat \ {0} /\ v \in 1..Len(pol)
  <2>1. pol[v] \in Voters /\ v \in 1..Len(pol)
    OBVIOUS
  <2> QED BY <2>1, SharesAssumption DEF Voters
<1>2. /\ <<"identity", v>> \in To /\ <<"delegation", v>> \in To
      /\ "FEE" \in ClaimTypes /\ "WNAT" \in ClaimTypes
  BY <1>1 DEF HasAddresses, ClaimTypes
<1>3. PortionFor(fee, f, a, TotalBips)
  <2>1. f \in Nat /\ f <= TotalBips /\ a \in Int
    BY <1>1
  <2> HIDE DEF f
  <2> QED BY <1>1, <2>1, QuotOf
<1>4. MedianClaimsFor(pol, v, a) = Positive(s \o t)
  <2>1. s \o t = <<Claim(<<"identity", v>>, "FEE", fee), Claim(<<"delegation", v>>, "WNAT", a - fee)>>
    BY TwoTogether, Zenon
  <2> HIDE DEF s, t
  <2> QED BY <2>1 DEF MedianClaimsFor, Positive
<1> HIDE DEF fee
<1>5. fee \in Int /\ fee >= 0 /\ fee <= a
  BY <1>3 DEF PortionFor
<1>6. Pays(To, s, Gain(fee))
  BY <1>2, <1>5, PaysOne
<1>7. Pays(To, t, Gain(a - fee))
  <2>1. a - fee \in Int
    BY <1>5
  <2> QED BY <1>2, <2>1, PaysOne
<1> HIDE DEF s, t
<1>8. Pays(To, s \o t, Gain(fee) + Gain(a - fee))
  BY <1>6, <1>7, PaysConcat
<1>9. Gain(fee) + Gain(a - fee) = a
  BY <1>5 DEF Gain
<1> QED BY <1>4, <1>8, <1>9, PositivePays

\* The weights the median is rewarded by are natural numbers.
LEMMA MedianWeightsAre ==
    ASSUME NEW pol \in Seq(Voters), NEW offer, offer.primaryShare \in 0..TotalPpm,
           NEW values, NEW result, NEW coin
    PROVE  /\ MedianWeights(pol, offer, values, result, coin) \in Seq(Nat)
           /\ Len(MedianWeights(pol, offer, values, result, coin)) = Len(pol)
<1> DEFINE voted == {v \in DOMAIN pol : values[v] # Empty}
           magnitude == IF result.median < 0 THEN -result.median ELSE result.median
           band == Quot(magnitude * offer.secondaryBand, TotalPpm)
           primary == {v \in voted :
               \/ values[v] > result.quartile1 /\ values[v] < result.quartile3
               \/ values[v] \in {result.quartile1, result.quartile3} /\ coin[v]}
           secondary == {v \in voted : /\ values[v] > result.median - band
                                       /\ values[v] < result.median + band}
           weigh(S) == SumFunction([v \in S |-> pol[v].delegation])
           part(v, S, weight) == IF v \in S THEN weight * pol[v].delegation ELSE 0
           n == Len(pol)
           x == offer.primaryShare * weigh(secondary)
           y == (TotalPpm - offer.primaryShare) * weigh(primary)
           ws == MedianWeights(pol, offer, values, result, coin)
<1>1. ws = [v \in DOMAIN pol |->
                 IF weigh(secondary) = 0 THEN part(v, primary, 1)
                 ELSE part(v, primary, x) + part(v, secondary, y)]
  BY DEF MedianWeights
<1>2. n \in Nat /\ DOMAIN pol = 1..n
  OBVIOUS
<1>3. \A v \in 1..n : pol[v].delegation \in Nat
  <2> SUFFICES ASSUME NEW v \in 1..n PROVE pol[v].delegation \in Nat
    OBVIOUS
  <2>1. pol[v] \in Voters
    BY <1>2
  <2> QED BY <2>1 DEF Voters
<1>4. primary \in SUBSET (1..n) /\ secondary \in SUBSET (1..n)
  BY <1>2
<1> HIDE DEF primary, secondary, ws
<1>5. ASSUME NEW S \in SUBSET (1..n) PROVE weigh(S) \in Nat
  <2> DEFINE h == [v \in S |-> pol[v].delegation]
  <2>1. IsFiniteSet(S)
    <3>1. IsFiniteSet(1..n)
      BY <1>2, FS_Interval
    <3> QED BY <3>1, FS_Subset
  <2>2. DOMAIN h = S /\ \A v \in S : h[v] \in Nat
    BY <1>3
  <2> HIDE DEF h
  <2>3. SumFunctionOnSet(h, S) \in Nat
    BY <2>1, <2>2, NaturalSum
  <2> QED BY <2>2, <2>3 DEF SumFunction, h
<1>6. weigh(primary) \in Nat /\ weigh(secondary) \in Nat
  BY <1>4, <1>5
<1> HIDE DEF weigh
<1>7. x \in Nat /\ y \in Nat
  <2>1. offer.primaryShare \in Nat /\ TotalPpm - offer.primaryShare \in Nat
    BY SharesAssumption
  <2> QED BY <1>6, <2>1
<1> HIDE DEF x, y
<1>8. ASSUME NEW v \in 1..n
      PROVE  (IF weigh(secondary) = 0 THEN part(v, primary, 1)
                 ELSE part(v, primary, x) + part(v, secondary, y)) \in Nat
  <2>1. pol[v].delegation \in Nat
    BY <1>3
  <2>2. x * pol[v].delegation \in Nat /\ y * pol[v].delegation \in Nat /\ 1 * pol[v].delegation \in Nat
    BY <1>7, <2>1
  <2> QED BY <2>2
<1> HIDE DEF part, n
<1>9. ws \in [1..n -> Nat]
  BY <1>1, <1>2, <1>8
<1>10. ws \in Seq(Nat) /\ Len(ws) = n
  BY <1>2, <1>9
<1> QED BY <1>10 DEF ws, n

\* The rewards for the median are all of its part.
LEMMA MedianPays ==
    ASSUME NEW To, NEW pol \in Seq(Voters), HasAddresses(To, Len(pol)),
           NEW offer, offer.claimBack \in To, offer.amount \in Nat,
           offer.primaryShare \in 0..TotalPpm, NEW values, NEW result, NEW coin
    PROVE  Pays(To, MedianClaims(pol, offer, values, result, coin), offer.amount)
<1> DEFINE ws == MedianWeights(pol, offer, values, result, coin)
           a == offer.amount
           given == Shares(ws, a)
           n == Len(pol)
           ss == [v \in DOMAIN pol |-> MedianClaimsFor(pol, v, given[v])]
           some == \/ result.participating * TotalBips
                         < SumFunction([v \in DOMAIN pol |-> pol[v].delegation]) * offer.minTurnout
                   \/ result.median = Empty
<1>1. MedianClaims(pol, offer, values, result, coin)
        = IF some THEN ClaimBack(offer, a)
          ELSE IF SumFunction(ws) = 0 THEN ClaimBack(offer, a) ELSE FlattenSeq(ss)
  BY DEF MedianClaims
<1>2. ws \in Seq(Nat) /\ Len(ws) = n /\ DOMAIN pol = 1..n /\ DOMAIN ws = 1..n /\ n \in Nat
  BY MedianWeightsAre
<1>3. a \in Int /\ a >= 0 /\ Gain(a) = a
  BY DEF Gain
<1>4. Pays(To, ClaimBack(offer, a), a)
  <2>1. "DIRECT" \in ClaimTypes
    BY DEF ClaimTypes
  <2> QED BY <1>3, <2>1, PaysOne DEF ClaimBack
<1> HIDE DEF a, ws, some
<1>5. SharedOut(given, ws, a)
  BY <1>2, <1>3, SharesGive
<1> HIDE DEF given
<1>6. CASE SumFunction(ws) # 0
  <2>1. SumFunction(ws) > 0
    <3>1. SumFunction(ws) \in Nat
      BY <1>2, WeightsLeft
    <3> QED BY <1>6, <3>1
  <2>2. Weigh(Same, given) = a /\ given \in Seq(Int) /\ Len(given) = n
    BY <1>2, <1>5, <2>1 DEF SharedOut
  <2>3. ASSUME NEW v \in 1..n PROVE Pays(To, MedianClaimsFor(pol, v, given[v]), given[v])
    <3>1. given[v] \in Int /\ given[v] >= 0
      <4>1. v \in DOMAIN ws /\ v \in DOMAIN given
        BY <1>2, <2>2
      <4>2. given[v] \in Int
        BY <2>2, <4>1
      <4>3. given[v] >= 0
        BY <1>3, <1>5, <4>1 DEF SharedOut
      <4> QED BY <4>2, <4>3
    <3>2. given[v] \in Nat /\ v \in DOMAIN pol
      BY <1>2, <3>1
    <3> QED BY <3>2, MedianForPays
  <2>4. AllPay(To, ss, given)
    <3>1. DOMAIN given = 1..n
      BY <2>2
    <3> QED BY <1>2, <2>2, <2>3, <3>1 DEF AllPay
  <2> HIDE DEF ss
  <2>5. Pays(To, FlattenSeq(ss), a)
    BY <2>2, <2>4, PaysFlatten
  <2> QED BY <1>1, <1>4, <2>5 DEF a
<1>7. CASE SumFunction(ws) = 0
  BY <1>1, <1>4, <1>7 DEF a
<1> QED BY <1>6, <1>7

-----------------------------------------------------------------------------
(* Claims that pay an amount *)

\* Claims that go back.
LEMMA BackPays ==
    ASSUME NEW To, NEW offer, offer.claimBack \in To, NEW a \in Int
    PROVE  Pays(To, ClaimBack(offer, a), Gain(a)) /\ (a >= 0 => Gain(a) = a)
<1>1. "DIRECT" \in ClaimTypes
  BY DEF ClaimTypes
<1> QED BY <1>1, PaysOne DEF ClaimBack, Gain

\* The weights of the voters in a set.
WeightsIn(pol, S) == [v \in DOMAIN pol |-> IF v \in S THEN pol[v].signing ELSE 0]

\* They are natural numbers.
LEMMA WeightsInAre ==
    ASSUME NEW pol \in Seq(Voters), NEW S
    PROVE  /\ WeightsIn(pol, S) \in Seq(Nat) /\ Len(WeightsIn(pol, S)) = Len(pol)
           /\ DOMAIN pol = 1..Len(pol) /\ Len(pol) \in Nat
           /\ \A v \in DOMAIN pol : v \notin S => WeightsIn(pol, S)[v] = 0
<1> DEFINE n == Len(pol)
           ws == WeightsIn(pol, S)
<1>1. n \in Nat /\ DOMAIN pol = 1..n
  OBVIOUS
<1>2. ASSUME NEW v \in 1..n PROVE pol[v].signing \in Nat
  <2>1. pol[v] \in Voters
    BY <1>1
  <2> QED BY <2>1 DEF Voters
<1> HIDE DEF n
<1>3. ws \in [1..n -> Nat] /\ \A v \in 1..n : v \notin S => ws[v] = 0
  BY <1>1, <1>2 DEF WeightsIn
<1> HIDE DEF ws
<1>4. ws \in Seq(Nat) /\ Len(ws) = n
  BY <1>1, <1>3
<1> QED BY <1>1, <1>3, <1>4 DEF ws, n

\* The signers are paid all of the offer for signing.
LEMMA SigningPays ==
    ASSUME NEW To, NEW pol \in Seq(Voters), HasAddresses(To, Len(pol)),
           NEW offer, offer.claimBack \in To, offer.amount \in Nat,
           NEW round, NEW signatures, NEW first, NEW eligible
    PROVE  Pays(To, SigningClaims(pol, offer, round, signatures, first, eligible), offer.amount)
<1> DEFINE a == offer.amount
           n == Len(pol)
           S == RewardedSigners(round, signatures, first)
           ws == WeightsIn(pol, S)
           given == Shares(ws, a)
           claims(v) == IF v \notin S THEN <<>>
                        ELSE IF v \in eligible THEN SigningSplit(pol, v, offer, given[v])
                        ELSE ClaimBack(offer, given[v])
           ss == [v \in DOMAIN pol |-> claims(v)]
<1>1. SigningClaims(pol, offer, round, signatures, first, eligible)
        = IF first = Empty THEN ClaimBack(offer, a)
          ELSE IF SumFunction(ws) = 0 THEN ClaimBack(offer, a) ELSE FlattenSeq(ss)
  BY DEF SigningClaims, WeightsIn
<1>2. /\ ws \in Seq(Nat) /\ Len(ws) = n /\ DOMAIN pol = 1..n /\ n \in Nat /\ DOMAIN ws = 1..n
      /\ \A v \in 1..n : v \notin S => ws[v] = 0
  BY WeightsInAre
<1>3. a \in Int /\ a >= 0
  OBVIOUS
<1>4. Pays(To, ClaimBack(offer, a), a)
  BY <1>3, BackPays
<1> HIDE DEF a, ws, S
<1>5. SharedOut(given, ws, a)
  BY <1>2, <1>3, SharesGive
<1> HIDE DEF given
<1>6. CASE SumFunction(ws) # 0
  <2>1. SumFunction(ws) > 0
    <3>1. SumFunction(ws) \in Nat
      BY <1>2, WeightsLeft
    <3> QED BY <1>6, <3>1
  <2>2. Weigh(Same, given) = a /\ given \in Seq(Int) /\ Len(given) = n
    BY <1>2, <1>5, <2>1 DEF SharedOut
  <2>3. ASSUME NEW v \in 1..n PROVE Pays(To, ss[v], given[v])
    <3>1. given[v] \in Int /\ given[v] >= 0 /\ (ws[v] = 0 => given[v] = 0)
      BY <1>2, <1>3, <1>5, <2>2 DEF SharedOut
    <3>2. Gain(given[v]) = given[v]
      BY <3>1 DEF Gain
    <3>3. ss[v] = claims(v) /\ v \in DOMAIN pol
      BY <1>2
    <3>4. CASE v \notin S
      <4>1. given[v] = 0 /\ ss[v] = <<>>
        BY <1>2, <3>1, <3>3, <3>4
      <4>2. Pays(To, <<>>, 0)
        <5>1. BurnAddress \in To /\ "DIRECT" \in ClaimTypes /\ 0 \in Int
          BY DEF HasAddresses, ClaimTypes
        <5> QED BY <5>1, PaysOne, Zenon
      <4> QED BY <4>1, <4>2
    <3>5. CASE v \in S /\ v \in eligible
      <4>1. ss[v] = SigningSplit(pol, v, offer, given[v])
        BY <3>3, <3>5
      <4> QED BY <3>1, <3>2, <3>3, <4>1, SplitPays
    <3>6. CASE v \in S /\ v \notin eligible
      <4>1. ss[v] = ClaimBack(offer, given[v])
        BY <3>3, <3>6
      <4> QED BY <3>1, <3>2, <4>1, BackPays
    <3> QED BY <3>4, <3>5, <3>6
  <2>4. AllPay(To, ss, given)
    <3>1. DOMAIN given = 1..n
      BY <2>2
    <3>2. ss = [v \in 1..n |-> ss[v]]
      BY <1>2
    <3> HIDE DEF ss
    <3> QED BY <2>2, <2>3, <3>1, <3>2 DEF AllPay
  <2> HIDE DEF ss
  <2>5. Pays(To, FlattenSeq(ss), a)
    BY <2>2, <2>4, PaysFlatten
  <2> QED BY <1>1, <1>4, <2>5 DEF a
<1>7. CASE SumFunction(ws) = 0
  BY <1>1, <1>4, <1>7 DEF a
<1> QED BY <1>6, <1>7

\* Claims that take only.
LEMMA LossPays ==
    ASSUME NEW To, NEW pol \in Seq(Voters), NEW v \in DOMAIN pol, HasAddresses(To, Len(pol)),
           NEW offer, offer.claimBack \in To, NEW a \in Int, a <= 0
    PROVE  Pays(To, SigningSplit(pol, v, offer, a), 0) /\ Pays(To, <<>>, 0)
<1>1. Gain(a) = 0
  BY DEF Gain
<1>2. BurnAddress \in To /\ "DIRECT" \in ClaimTypes /\ 0 \in Int
  BY DEF HasAddresses, ClaimTypes
<1> QED BY <1>1, <1>2, SplitPays, PaysOne, Zenon

\* Lists that pay nothing.
LEMMA NothingPays ==
    ASSUME NEW To, NEW n \in Nat, NEW ss, ss = [i \in 1..n |-> ss[i]],
           \A i \in 1..n : Pays(To, ss[i], 0)
    PROVE  Pays(To, FlattenSeq(ss), 0)
<1> DEFINE xs == [i \in 1..n |-> 0]
<1>1. xs \in Seq(Int) /\ DOMAIN xs = 1..n /\ \A i \in 1..n : xs[i] = 0
  OBVIOUS
<1> HIDE DEF xs
<1>2. AllPay(To, ss, xs)
  BY <1>1 DEF AllPay
<1>3. Weigh(Same, xs) = 0
  <2>1. Same \in [Int -> Int] /\ Same[0] = 0
    BY DEF Same
  <2>2. \A i \in DOMAIN xs : Same[xs[i]] >= 0 /\ Same[xs[i]] <= 0
    BY <1>1, <2>1
  <2>3. Weigh(Same, xs) >= 0 /\ Weigh(Same, xs) <= 0
    BY <1>1, <2>1, <2>2, WeighSign
  <2>4. Weigh(Same, xs) \in Int
    BY <1>1, <2>1, WeighConcat
  <2> QED BY <2>3, <2>4
<1> QED BY <1>2, <1>3, PaysFlatten

\* A weight is part of the whole.
LEMMA WholeIsMore ==
    ASSUME NEW n \in Nat, NEW f, \A v \in 1..n : f[v] \in Nat, DOMAIN f = 1..n
    PROVE  SumFunction(f) \in Nat /\ \A v \in 1..n : f[v] <= SumFunction(f)
<1>1. IsFiniteSet(1..n)
  BY FS_Interval
<1> QED BY <1>1, NaturalSum DEF SumFunction

\* Penalties pay nothing.
LEMMA PenaltiesPay ==
    ASSUME NEW To, NEW pol \in Seq(Voters), HasAddresses(To, Len(pol)),
           NEW offer, offer.claimBack \in To, offer.amount \in Nat, NEW offenders
    PROVE  /\ Pays(To, PenaltyClaims(pol, offer, offenders), 0)
           /\ Pays(To, FdcPenaltyClaims(pol, offer, offenders), 0)
<1> DEFINE n == Len(pol)
           a == offer.amount
<1>1. n \in Nat /\ DOMAIN pol = 1..n /\ a \in Nat /\ PenaltyFactor \in Nat
  BY SharesAssumption
<1>2. ASSUME NEW v \in 1..n PROVE pol[v].delegation \in Nat /\ pol[v].signing \in Nat
  <2>1. pol[v] \in Voters
    BY <1>1
  <2> QED BY <2>1 DEF Voters
<1>3. ASSUME NEW x \in Nat, x # 0, NEW total \in Nat, x <= total
      PROVE  Quot(-x * a * PenaltyFactor, total) \in Int /\ Quot(-x * a * PenaltyFactor, total) <= 0
  <2>1. -x * a * PenaltyFactor \in Int /\ -x * a * PenaltyFactor <= 0 /\ total \in Nat \ {0}
    <3>1. x * a \in Nat
      BY <1>1
    <3>2. (x * a) * PenaltyFactor \in Nat
      BY <1>1, <3>1
    <3>3. -x * a = -(x * a)
      BY <1>1
    <3>4. -x * a * PenaltyFactor = -((x * a) * PenaltyFactor)
      BY <1>1, <3>1, <3>3
    <3> QED BY <1>3, <3>2, <3>4
  <2> DEFINE y == -x * a * PenaltyFactor
  <2> HIDE DEF y
  <2>2. Quot(y, total) \in Int /\ Quot(y, total) <= 0
    BY <2>1, QuotSign DEF y
  <2> QED BY <2>2 DEF y
<1>4. Pays(To, PenaltyClaims(pol, offer, offenders), 0)
  <2> DEFINE f == [v \in DOMAIN pol |-> pol[v].delegation]
             total == SumFunction(f)
             penalty(v) == IF pol[v].delegation = 0 THEN 0
                           ELSE Quot(-pol[v].delegation * a * PenaltyFactor, total)
             ss == [v \in DOMAIN pol |->
                       IF v \in offenders THEN SigningSplit(pol, v, offer, penalty(v)) ELSE <<>>]
  <2>1. PenaltyClaims(pol, offer, offenders) = FlattenSeq(ss)
    BY DEF PenaltyClaims
  <2>2. total \in Nat /\ \A v \in 1..n : pol[v].delegation <= total
    <3>1. DOMAIN f = 1..n /\ \A v \in 1..n : f[v] = pol[v].delegation
      BY <1>1
    <3> HIDE DEF f
    <3> QED BY <1>1, <1>2, <3>1, WholeIsMore
  <2> HIDE DEF total
  <2>3. ASSUME NEW v \in 1..n PROVE penalty(v) \in Int /\ penalty(v) <= 0
    <3>1. pol[v].delegation \in Nat /\ pol[v].delegation <= total
      BY <1>2, <2>2
    <3>2. CASE pol[v].delegation = 0
      BY <3>2
    <3>3. CASE pol[v].delegation # 0
      BY <1>3, <2>2, <3>1, <3>3
    <3> QED BY <3>2, <3>3
  <2> HIDE DEF penalty
  <2>4. ASSUME NEW v \in 1..n PROVE Pays(To, ss[v], 0)
    <3>1. v \in DOMAIN pol
      BY <1>1
    <3>2. Pays(To, SigningSplit(pol, v, offer, penalty(v)), 0) /\ Pays(To, <<>>, 0)
      BY <2>3, <3>1, LossPays
    <3> QED BY <3>1, <3>2
  <2>5. ss = [v \in 1..n |-> ss[v]]
    BY <1>1
  <2> HIDE DEF ss
  <2> QED BY <1>1, <2>1, <2>4, <2>5, NothingPays
<1>5. Pays(To, FdcPenaltyClaims(pol, offer, offenders), 0)
  <2> DEFINE f == [v \in DOMAIN pol |-> pol[v].signing]
             total == SumFunction(f)
             penalty(v) == IF pol[v].signing = 0 THEN 0
                           ELSE Quot(-pol[v].signing * a * PenaltyFactor, total)
             ss == [v \in DOMAIN pol |-> IF v \in offenders /\ penalty(v) < 0
                       THEN SigningSplit(pol, v, offer, penalty(v)) ELSE <<>>]
  <2>1. FdcPenaltyClaims(pol, offer, offenders) = FlattenSeq(ss)
    BY DEF FdcPenaltyClaims
  <2>2. total \in Nat /\ \A v \in 1..n : pol[v].signing <= total
    <3>1. DOMAIN f = 1..n /\ \A v \in 1..n : f[v] = pol[v].signing
      BY <1>1
    <3> HIDE DEF f
    <3> QED BY <1>1, <1>2, <3>1, WholeIsMore
  <2> HIDE DEF total
  <2>3. ASSUME NEW v \in 1..n PROVE penalty(v) \in Int /\ penalty(v) <= 0
    <3>1. pol[v].signing \in Nat /\ pol[v].signing <= total
      BY <1>2, <2>2
    <3>2. CASE pol[v].signing = 0
      BY <3>2
    <3>3. CASE pol[v].signing # 0
      BY <1>3, <2>2, <3>1, <3>3
    <3> QED BY <3>2, <3>3
  <2> HIDE DEF penalty
  <2>4. ASSUME NEW v \in 1..n PROVE Pays(To, ss[v], 0)
    <3>1. v \in DOMAIN pol
      BY <1>1
    <3>2. Pays(To, SigningSplit(pol, v, offer, penalty(v)), 0) /\ Pays(To, <<>>, 0)
      BY <2>3, <3>1, LossPays
    <3> QED BY <3>1, <3>2
  <2>5. ss = [v \in 1..n |-> ss[v]]
    BY <1>1
  <2> HIDE DEF ss
  <2> QED BY <1>1, <2>1, <2>4, <2>5, NothingPays
<1> QED BY <1>4, <1>5

-----------------------------------------------------------------------------
(* Weights and fast updates *)

\* A list of numbers sums to what it weighs.
LEMMA SumIsWeight ==
    ASSUME NEW xs \in Seq(Int)
    PROVE  SumFunction(xs) = Weigh(Same, xs) /\ Weigh(Same, xs) \in Int
<1>1. DOMAIN xs = 1..Len(xs) /\ Len(xs) \in Nat
  OBVIOUS
<1>2. [i \in DOMAIN xs |-> Same[xs[i]]] = xs
  BY <1>1 DEF Same
<1>3. Same \in [Int -> Int]
  BY DEF Same
<1>4. Weigh(Same, xs) \in Int
  BY <1>3, WeighConcat
<1>5. SumFunction(xs) = Weigh(Same, xs)
  BY <1>2 DEF Weigh, SumFunction
<1> QED BY <1>4, <1>5

\* The first of some parts are no more than all of them.
LEMMA FirstParts ==
    ASSUME NEW given \in Seq(Int), \A i \in DOMAIN given : given[i] >= 0,
           NEW m \in Nat, m <= Len(given), NEW xs, xs = [i \in 1..m |-> given[i]]
    PROVE  /\ xs \in Seq(Int) /\ Len(xs) = m /\ DOMAIN xs = 1..m
           /\ Weigh(Same, xs) \in Int
           /\ Weigh(Same, xs) <= Weigh(Same, given)
           /\ Weigh(Same, given) \in Int
<1> DEFINE n == Len(given)
           s == SubSeq(given, 1, m)
           t == SubSeq(given, m + 1, n)
<1>1. n \in Nat /\ m \in 0..n /\ DOMAIN given = 1..n
  OBVIOUS
<1>2. s \in Seq(Int) /\ t \in Seq(Int) /\ s \o t = given
  BY <1>1, SplitList
<1>3. s = xs /\ Len(xs) = m /\ DOMAIN xs = 1..m
  BY <1>1
<1>4. \A i \in DOMAIN t : t[i] >= 0
  BY <1>1
<1>5. Same \in [Int -> Int]
  BY DEF Same
<1> HIDE DEF s, t, n
<1>6. Weigh(Same, given) = Weigh(Same, xs) + Weigh(Same, t)
      /\ Weigh(Same, xs) \in Int /\ Weigh(Same, t) \in Int
  <2>1. Weigh(Same, s \o t) = Weigh(Same, s) + Weigh(Same, t)
        /\ Weigh(Same, s) \in Int /\ Weigh(Same, t) \in Int
    BY <1>2, <1>5, WeighConcat
  <2> QED BY <1>2, <1>3, <2>1
<1>7. Weigh(Same, t) >= 0
  <2>1. \A i \in DOMAIN t : Same[t[i]] >= 0
    BY <1>2, <1>4 DEF Same
  <2> QED BY <1>2, <1>5, <2>1, WeighSign
<1> QED BY <1>2, <1>3, <1>6, <1>7

\* Parts of an amount paid one by one, and the rest of it claimed back.
LEMMA RestPays ==
    ASSUME NEW To, NEW offer, offer.claimBack \in To, NEW a \in Nat,
           NEW given \in Seq(Int), \A i \in DOMAIN given : given[i] >= 0, Weigh(Same, given) <= a,
           NEW m \in Nat, m <= Len(given), NEW xs, xs = [i \in 1..m |-> given[i]],
           NEW ss, ss = [i \in 1..m |-> ss[i]], \A i \in 1..m : Pays(To, ss[i], given[i]),
           NEW back, back = ClaimBack(offer, a - SumFunction(xs)) \/ (back = <<>> /\ SumFunction(xs) = a)
    PROVE  Pays(To, FlattenSeq(ss) \o back, a) /\ a - SumFunction(xs) >= 0 /\ SumFunction(xs) \in Int
<1>1. /\ xs \in Seq(Int) /\ Len(xs) = m /\ DOMAIN xs = 1..m
      /\ Weigh(Same, xs) \in Int
      /\ Weigh(Same, xs) <= Weigh(Same, given)
      /\ Weigh(Same, given) \in Int
  BY FirstParts
<1>2. SumFunction(xs) = Weigh(Same, xs)
  BY <1>1, SumIsWeight
<1> DEFINE y == SumFunction(xs)
<1>3. y \in Int /\ a - y >= 0 /\ a - y \in Int
  BY <1>1, <1>2
<1>4. AllPay(To, ss, xs)
  BY <1>1 DEF AllPay
<1>5. Pays(To, FlattenSeq(ss), y)
  BY <1>2, <1>4, PaysFlatten
<1> HIDE DEF y
<1>6. Pays(To, ClaimBack(offer, a - y), a - y)
  BY <1>3, BackPays
<1>7. Pays(To, <<>>, 0)
  <2>1. "DIRECT" \in ClaimTypes /\ 0 \in Int
    BY DEF ClaimTypes
  <2> QED BY <2>1, PaysOne, Zenon
<1>8. Pays(To, back, a - y)
  <2>1. y = a => a - y = 0
    BY <1>3
  <2> QED BY <1>6, <1>7, <2>1 DEF y
<1> HIDE DEF Pays
<1>9. Pays(To, FlattenSeq(ss) \o back, y + (a - y))
  BY <1>5, <1>8, PaysConcat
<1>10. y + (a - y) = a
  BY <1>3
<1> QED BY <1>3, <1>9, <1>10 DEF y

-----------------------------------------------------------------------------
\* One transaction for each sender.
SendersDistinct(txs) ==
    \A i, j \in DOMAIN txs : txs[i].sender = txs[j].sender => i = j

\* The first transactions of senders are.
LEMMA FirstsDistinct ==
    ASSUME NEW R, NEW list \in Seq(R)
    PROVE  FirstOfSender(list) \in Seq(R) /\ SendersDistinct(FirstOfSender(list))
<1> DEFINE indices == {i \in DOMAIN list : \A j \in 1..(i - 1) : list[j].sender # list[i].sender}
           picked == Picked(list, indices)
           n == Len(list)
<1>1. FirstOfSender(list) = picked
  BY DEF FirstOfSender
<1>2. picked \in Seq(R) /\ HasPlaces(picked, list, indices, n)
  <2> HIDE DEF indices
  <2> QED BY PickedPlaces
<1> HIDE DEF picked
<1>3. PICK h : PlacesTo(h, picked, list, indices, n)
  BY <1>2 DEF HasPlaces
<1>4. DOMAIN picked = 1..Len(picked) /\ DOMAIN list = 1..n /\ Len(picked) \in Nat /\ n \in Nat
  BY <1>2
<1>5. ASSUME NEW i \in 1..Len(picked), NEW j \in 1..Len(picked),
             picked[i].sender = picked[j].sender, i < j
      PROVE  FALSE
  <2>1. /\ h[i] \in 1..n /\ h[j] \in 1..n /\ h[i] < h[j] /\ picked[i] = list[h[i]] /\ picked[j] = list[h[j]]
        /\ h[j] \in indices
    BY <1>3, <1>5 DEF PlacesTo
  <2>2. h[i] \in 1..(h[j] - 1)
    BY <1>4, <2>1
  <2>3. list[h[i]].sender # list[h[j]].sender
    BY <2>1, <2>2
  <2> QED BY <1>5, <2>1, <2>3
<1>6. \A i, j \in 1..Len(picked) : i = j \/ i < j \/ j < i
  BY <1>4
<1>7. SendersDistinct(picked)
  BY <1>4, <1>5, <1>6 DEF SendersDistinct
<1> QED BY <1>1, <1>2, <1>7

\* And so are the ones picked of such.
LEMMA PickedSenders ==
    ASSUME NEW R, NEW list \in Seq(R), NEW indices
    PROVE  /\ Picked(list, indices) \in Seq(R)
           /\ SendersDistinct(list) => SendersDistinct(Picked(list, indices))
           /\ \A k \in DOMAIN Picked(list, indices) :
                 \E i \in DOMAIN list : i \in indices /\ Picked(list, indices)[k] = list[i]
<1> DEFINE picked == Picked(list, indices)
           n == Len(list)
<1>1. picked \in Seq(R) /\ HasPlaces(picked, list, indices, n)
  BY PickedPlaces
<1> HIDE DEF picked
<1>2. PICK h : PlacesTo(h, picked, list, indices, n)
  BY <1>1 DEF HasPlaces
<1>3. DOMAIN picked = 1..Len(picked) /\ DOMAIN list = 1..n /\ Len(picked) \in Nat /\ n \in Nat
  BY <1>1
<1>4. ASSUME SendersDistinct(list), NEW i \in 1..Len(picked), NEW j \in 1..Len(picked),
             picked[i].sender = picked[j].sender, i < j
      PROVE  FALSE
  <2>1. h[i] \in 1..n /\ h[j] \in 1..n /\ h[i] < h[j] /\ picked[i] = list[h[i]] /\ picked[j] = list[h[j]]
    BY <1>2, <1>4 DEF PlacesTo
  <2>2. h[i] = h[j]
    BY <1>3, <1>4, <2>1 DEF SendersDistinct
  <2> QED BY <2>1, <2>2
<1>5. \A i, j \in 1..Len(picked) : i = j \/ i < j \/ j < i
  BY <1>3
<1>6. SendersDistinct(list) => SendersDistinct(picked)
  BY <1>3, <1>4, <1>5 DEF SendersDistinct
<1> QED BY <1>1, <1>6, PickedElements DEF picked

\* Distinct senders out of a set are no more than it has.
LEMMA FewSenders ==
    ASSUME NEW R, NEW list \in Seq(R), SendersDistinct(list), NEW S, IsFiniteSet(S),
           \A k \in DOMAIN list : list[k].sender \in S
    PROVE  Len(list) \in Nat /\ Len(list) <= Cardinality(S) /\ Cardinality(S) \in Nat
<1> DEFINE n == Len(list)
           f == [k \in 1..n |-> list[k].sender]
<1>1. n \in Nat /\ DOMAIN list = 1..n
  OBVIOUS
<1>2. f \in [1..n -> S] /\ \A i, j \in 1..n : f[i] = f[j] => i = j
  BY <1>1 DEF SendersDistinct
<1>3. Cardinality(1..n) = n /\ IsFiniteSet(1..n) /\ Cardinality(S) \in Nat
  <2>1. IsFiniteSet(1..n) /\ Cardinality(1..n) = IF 1 > n THEN 0 ELSE n - 1 + 1
    BY <1>1, FS_Interval
  <2>2. Cardinality(S) \in Nat
    BY FS_CardinalityType
  <2> QED BY <1>1, <2>1, <2>2
<1> HIDE DEF f
<1>4. f \in Injection(1..n, S)
  BY <1>2 DEF Injection, IsInjective
<1>5. Cardinality(1..n) <= Cardinality(S)
  BY <1>4, FS_Injection
<1> QED BY <1>1, <1>3, <1>5

\* Finalizers are paid no more than the offer, and the rest goes back.
LEMMA FinalizationPays ==
    ASSUME NEW To, NEW pol \in Seq(Voters), HasAddresses(To, Len(pol)),
           NEW offer, offer.claimBack \in To, offer.amount \in Nat, NEW round, NEW first,
           first # Empty => <<"signing", first.sender>> \in To,
           NEW R, NEW finalizations \in Seq(R), SendersDistinct(finalizations),
           NEW finalizers \in SUBSET DOMAIN pol, NEW eligible
    PROVE  Pays(To, FinalizationClaims(pol, offer, round, first, finalizations, finalizers, eligible),
                offer.amount)
<1> DEFINE a == offer.amount
           inTime == {i \in DOMAIN finalizations : FinalizedInGrace(round, finalizers, finalizations[i])}
           inGrace == Picked(finalizations, inTime)
           good == {i \in DOMAIN inGrace : inGrace[i].sender \in eligible}
           rewarded == Picked(inGrace, good)
           n == Cardinality(finalizers)
           ones == [i \in 1..n |-> 1]
           given == Shares(ones, a)
           xs == [i \in DOMAIN rewarded |-> given[i]]
           rest == a - SumFunction(xs)
           ss == [i \in DOMAIN rewarded |-> SigningSplit(pol, rewarded[i].sender, offer, given[i])]
           back == IF rest # 0 THEN ClaimBack(offer, rest) ELSE <<>>
           late == <<Claim(<<"signing", first.sender>>, "DIRECT", a)>>
<1>1. FinalizationClaims(pol, offer, round, first, finalizations, finalizers, eligible)
        = IF first = Empty THEN ClaimBack(offer, a)
          ELSE IF FinalizedOutsideGrace(round, first) THEN late
          ELSE IF inGrace = <<>> \/ eligible = {} THEN ClaimBack(offer, a)
          ELSE FlattenSeq(ss) \o back
  BY DEF FinalizationClaims, Select
<1>2. IsFiniteSet(finalizers) /\ n \in Nat
  <2>1. Len(pol) \in Nat /\ DOMAIN pol = 1..Len(pol)
    OBVIOUS
  <2>2. IsFiniteSet(finalizers)
    <3>1. IsFiniteSet(DOMAIN pol)
      BY <2>1, FS_Interval
    <3> QED BY <3>1, FS_Subset
  <2> QED BY <2>2, FS_CardinalityType
<1>3. /\ inGrace \in Seq(R) /\ SendersDistinct(inGrace)
      /\ \A k \in DOMAIN inGrace : inGrace[k].sender \in finalizers
  <2>1. \A i \in inTime : finalizations[i].sender \in finalizers
    BY DEF FinalizedInGrace
  <2> HIDE DEF inTime
  <2>2. /\ inGrace \in Seq(R) /\ SendersDistinct(inGrace)
        /\ \A k \in DOMAIN inGrace : \E i \in DOMAIN finalizations : i \in inTime /\ inGrace[k] = finalizations[i]
    BY PickedSenders
  <2> HIDE DEF inGrace
  <2> QED BY <2>1, <2>2
<1> HIDE DEF inGrace, inTime
<1>4. /\ rewarded \in Seq(R) /\ SendersDistinct(rewarded)
      /\ \A k \in DOMAIN rewarded : rewarded[k].sender \in finalizers
  <2> HIDE DEF good
  <2>2. /\ rewarded \in Seq(R) /\ SendersDistinct(rewarded)
        /\ \A k \in DOMAIN rewarded : \E i \in DOMAIN inGrace : i \in good /\ rewarded[k] = inGrace[i]
    BY <1>3, PickedSenders
  <2> HIDE DEF rewarded
  <2> QED BY <1>3, <2>2
<1> HIDE DEF rewarded, good
<1> DEFINE m == Len(rewarded)
<1>5. m \in Nat /\ m <= n /\ DOMAIN rewarded = 1..m
  BY <1>2, <1>4, FewSenders
<1>6. a \in Nat /\ Pays(To, ClaimBack(offer, a), a)
  BY BackPays
<1>7. Pays(To, late, a) \/ first = Empty
  <2> SUFFICES ASSUME first # Empty PROVE Pays(To, late, a)
    OBVIOUS
  <2>1. "DIRECT" \in ClaimTypes /\ a \in Int /\ Gain(a) = a
    BY DEF ClaimTypes, Gain
  <2> QED BY <2>1, PaysOne
<1> HIDE DEF a, late
<1>8. ones \in Seq(Nat) /\ Len(ones) = n /\ DOMAIN ones = 1..n
  BY <1>2
<1> HIDE DEF n, ones
<1>9. SharedOut(given, ones, a)
  BY <1>6, <1>8, SharesGive
<1> HIDE DEF given
<1>10. /\ given \in Seq(Int) /\ Len(given) = n /\ Weigh(Same, given) <= a
       /\ DOMAIN given = 1..n /\ \A i \in DOMAIN given : given[i] >= 0
  BY <1>2, <1>6, <1>8, <1>9 DEF SharedOut
<1>11. ASSUME NEW i \in 1..m PROVE Pays(To, ss[i], given[i])
  <2>1. i \in DOMAIN rewarded /\ i \in 1..n /\ rewarded[i].sender \in DOMAIN pol
    BY <1>2, <1>4, <1>5
  <2>2. given[i] \in Int /\ Gain(given[i]) = given[i]
    BY <1>10, <2>1 DEF Gain
  <2>3. ss[i] = SigningSplit(pol, rewarded[i].sender, offer, given[i])
    BY <2>1
  <2> QED BY <2>1, <2>2, <2>3, SplitPays
<1>12. xs = [i \in 1..m |-> given[i]] /\ ss = [i \in 1..m |-> ss[i]] /\ m <= Len(given)
  BY <1>5, <1>10
<1> HIDE DEF ss, xs, m
<1>13. SumFunction(xs) \in Int
  <2>1. xs \in Seq(Int)
    BY <1>5, <1>10, <1>12, FirstParts
  <2> QED BY <2>1, SumIsWeight
<1>14. back = ClaimBack(offer, a - SumFunction(xs)) \/ (back = <<>> /\ SumFunction(xs) = a)
  BY <1>6, <1>13
<1> HIDE DEF back
<1>15. Pays(To, FlattenSeq(ss) \o back, a)
  BY <1>5, <1>6, <1>10, <1>11, <1>12, <1>14, RestPays
<1> QED BY <1>1, <1>6, <1>7, <1>15 DEF a

-----------------------------------------------------------------------------
(* Equal divisions, finalizations *)

\* The parts of an equal division add up to what is divided.
PartsOf(a, n) == [i \in 1..n |-> Part(a, n, i)]

\* They are natural numbers and sum to the amount.
LEMMA PartsAddUp ==
    ASSUME NEW a \in Nat, NEW n \in Nat \ {0}
    PROVE  /\ PartsOf(a, n) \in Seq(Int) /\ Len(PartsOf(a, n)) = n /\ DOMAIN PartsOf(a, n) = 1..n
           /\ \A i \in 1..n : PartsOf(a, n)[i] = Part(a, n, i) /\ Part(a, n, i) \in Nat
           /\ Weigh(Same, PartsOf(a, n)) = a
<1> DEFINE q == a \div n
           r == a % n
           xs == PartsOf(a, n)
<1>1. q \in Nat /\ r \in Nat /\ r < n /\ q * n + r = a
  OBVIOUS
<1>2. \A i \in 1..n : Part(a, n, i) = q + (IF i <= r THEN 1 ELSE 0)
  BY DEF Part
<1> HIDE DEF q, r
<1>3. \A i \in 1..n : Part(a, n, i) \in Nat
  BY <1>1, <1>2
<1>4. xs \in Seq(Int) /\ Len(xs) = n /\ DOMAIN xs = 1..n /\ \A i \in 1..n : xs[i] = Part(a, n, i)
  BY <1>3 DEF PartsOf
<1> HIDE DEF xs
<1>5. Same \in [Int -> Int] /\ \A x \in Int : Same[x] = x
  BY DEF Same
<1> DEFINE w(k) == WeighTo(Same, xs, k)
           T == {k \in 0..n : w(k) = q * k + (IF k <= r THEN k ELSE r)}
<1>6. Weigh(Same, xs) = w(n) /\ w(0) = 0
  BY <1>4, <1>5, WeighWhole
<1>7. 0 \in T
  BY <1>1, <1>6
<1>8. ASSUME NEW k \in 1..n, k - 1 \in T PROVE k \in T
  <2>1. w(k) = w(k - 1) + Same[xs[k]]
    <3>1. xs \in Seq(Int) /\ Same \in [Int -> Int] /\ k \in 1..Len(xs)
      BY <1>4, <1>5
    <3>2. \A j \in 1..Len(xs) : WeighTo(Same, xs, j) = WeighTo(Same, xs, j - 1) + Same[xs[j]]
      BY <3>1, WeighSteps, Zenon
    <3> HIDE DEF T
    <3> QED BY <3>1, <3>2
  <2>2. Same[xs[k]] = q + (IF k <= r THEN 1 ELSE 0)
    <3>1. xs[k] = Part(a, n, k) /\ Part(a, n, k) \in Int
      BY <1>3, <1>4
    <3> QED BY <1>2, <1>5, <3>1
  <2>3. w(k - 1) = q * (k - 1) + (IF k - 1 <= r THEN k - 1 ELSE r)
    BY <1>8
  <2>4. q * k = q * (k - 1) + q
    BY <1>1
  <2> HIDE DEF w
  <2>5. w(k) = q * k + (IF k <= r THEN k ELSE r)
    <3>1. q * (k - 1) \in Int /\ q * k \in Int
      BY <1>1
    <3> DEFINE u == q * (k - 1)
               z == q * k
    <3>2. u \in Int /\ z \in Int /\ z = u + q
          /\ w(k - 1) = u + (IF k - 1 <= r THEN k - 1 ELSE r)
      BY <2>3, <2>4, <3>1
    <3> HIDE DEF u, z
    <3>3. w(k) = z + (IF k <= r THEN k ELSE r)
      BY <1>1, <2>1, <2>2, <3>2
    <3> QED BY <3>3 DEF z
  <2> QED BY <2>5
<1>9. n \in T
  <2> HIDE DEF T
  <2>1. \A k \in 0..n : k \in T
    BY <1>7, <1>8, StepByStep
  <2> QED BY <2>1
<1>10. w(n) = a
  <2>1. w(n) = q * n + r
    BY <1>1, <1>9
  <2> QED BY <1>1, <2>1
<1> QED BY <1>3, <1>4, <1>6, <1>10 DEF xs

\* The providers of fast updates are paid all of the offer, or it is burnt.
LEMMA UpdatesPay ==
    ASSUME NEW To, NEW pol \in Seq(Voters), HasAddresses(To, Len(pol)),
           NEW offer, offer.amount \in Nat, NEW median, NEW value,
           NEW submitted \in Seq(DOMAIN pol)
    PROVE  /\ Pays(To, FastUpdateClaims(pol, offer, median, value, submitted), offer.amount)
           /\ Pays(To, <<Claim(BurnAddress, "DIRECT", offer.amount)>>, offer.amount)
<1> DEFINE a == offer.amount
           n == Len(submitted)
           part(i) == (a \div n) + (IF i <= a % n THEN 1 ELSE 0)
           fee(i) == Quot(part(i) * pol[submitted[i]].fee, TotalBips)
           burn == <<Claim(BurnAddress, "DIRECT", a)>>
           delta == Quot(median * offer.rewardBand, TotalPpm)
           ss == [i \in 1..n |->
                    <<Claim(<<"identity", submitted[i]>>, "FEE", fee(i)),
                      Claim(<<"delegation", submitted[i]>>, "WNAT", part(i) - fee(i))>>]
<1>1. FastUpdateClaims(pol, offer, median, value, submitted)
        = IF offer.burn \/ n = 0 \/ median = Empty THEN burn
          ELSE IF value < median - delta \/ value > median + delta THEN burn ELSE FlattenSeq(ss)
  BY DEF FastUpdateClaims
<1>2. a \in Nat /\ n \in Nat
  OBVIOUS
<1>3. Pays(To, burn, a)
  <2>1. BurnAddress \in To /\ "DIRECT" \in ClaimTypes /\ a \in Int /\ Gain(a) = a
    BY DEF HasAddresses, ClaimTypes, Gain
  <2> QED BY <2>1, PaysOne
<1>4. CASE n # 0
  <2> DEFINE xs == PartsOf(a, n)
  <2>1. /\ xs \in Seq(Int) /\ Len(xs) = n /\ DOMAIN xs = 1..n
        /\ \A i \in 1..n : xs[i] = Part(a, n, i) /\ Part(a, n, i) \in Nat
        /\ Weigh(Same, xs) = a
    <3>1. a \in Nat /\ n \in Nat \ {0}
      BY <1>2, <1>4
    <3> HIDE DEF a, n
    <3> QED BY <3>1, PartsAddUp
  <2>2. \A i \in 1..n : part(i) = Part(a, n, i)
    BY DEF Part
  <2> HIDE DEF xs, part
  <2>3. ASSUME NEW i \in 1..n PROVE Pays(To, ss[i], xs[i])
    <3> DEFINE v == submitted[i]
               f == pol[v].fee
               x == part(i)
               s == <<Claim(<<"identity", v>>, "FEE", fee(i))>>
               t == <<Claim(<<"delegation", v>>, "WNAT", x - fee(i))>>
    <3>1. v \in DOMAIN pol /\ v \in 1..Len(pol) /\ x \in Nat /\ x = xs[i]
      BY <2>1, <2>2
    <3>2. /\ <<"identity", v>> \in To /\ <<"delegation", v>> \in To
          /\ "FEE" \in ClaimTypes /\ "WNAT" \in ClaimTypes
      BY <3>1 DEF HasAddresses, ClaimTypes
    <3>3. f \in Nat /\ f <= TotalBips /\ TotalBips \in Nat \ {0}
      <4>1. pol[v] \in Voters
        BY <3>1
      <4>2. f \in 0..TotalBips
        BY <4>1 DEF Voters
      <4> HIDE DEF f
      <4> QED BY <4>2, SharesAssumption
    <3>4. fee(i) = Quot(x * f, TotalBips)
      OBVIOUS
    <3>5. PortionFor(Quot(x * f, TotalBips), f, x, TotalBips)
      <4>1. f \in Nat /\ f <= TotalBips /\ x \in Int /\ TotalBips \in Nat \ {0}
        BY <3>1, <3>3
      <4> HIDE DEF f, x
      <4> QED BY <4>1, QuotOf, Zenon
    <3> HIDE DEF fee
    <3>6. fee(i) \in Int /\ fee(i) >= 0 /\ fee(i) <= x
      BY <3>1, <3>4, <3>5 DEF PortionFor
    <3>7. ss[i] = s \o t
      OBVIOUS
    <3>8. Pays(To, s, Gain(fee(i)))
      BY <3>2, <3>6, PaysOne
    <3>9. Pays(To, t, Gain(x - fee(i)))
      <4>1. x - fee(i) \in Int
        BY <3>1, <3>6
      <4> HIDE DEF x
      <4> QED BY <3>2, <4>1, PaysOne
    <3> HIDE DEF s, t
    <3>10. Pays(To, s \o t, Gain(fee(i)) + Gain(x - fee(i)))
      BY <3>8, <3>9, PaysConcat
    <3>11. Gain(fee(i)) + Gain(x - fee(i)) = x
      <4> DEFINE y == fee(i)
      <4>1. x \in Nat /\ y \in Int /\ y >= 0 /\ y <= x
        BY <3>1, <3>6
      <4> HIDE DEF x, y
      <4>2. Gain(y) + Gain(x - y) = x
        BY <4>1 DEF Gain
      <4> QED BY <4>2 DEF y
    <3> QED BY <3>1, <3>7, <3>10, <3>11
  <2>4. AllPay(To, ss, xs)
    <3>1. ss = [i \in 1..n |-> ss[i]]
      OBVIOUS
    <3> HIDE DEF ss
    <3> QED BY <2>1, <2>3, <3>1 DEF AllPay
  <2> HIDE DEF ss
  <2>5. Pays(To, FlattenSeq(ss), a)
    BY <2>1, <2>4, PaysFlatten
  <2> QED BY <1>1, <1>3, <2>5
<1>5. CASE n = 0
  BY <1>1, <1>3, <1>5
<1> QED BY <1>3, <1>4, <1>5

\* What is burnt of a reward is a part of it.
LEMMA BurntPartIs ==
    ASSUME NEW x \in Nat
    PROVE  BurntPart(x) \in Nat /\ BurntPart(x) <= x
BY SMT DEF BurntPart, Quot

\* The signers of the FDC are paid no more than the offer, and the rest goes
\* back.
LEMMA FdcSigningPays ==
    ASSUME NEW To, NEW pol \in Seq(Voters), HasAddresses(To, Len(pol)),
           NEW offer, offer.claimBack \in To, offer.amount \in Nat, NEW round, NEW signers,
           NEW first, NEW bitVote
    PROVE  Pays(To, FdcSigningClaims(pol, offer, round, signers, first, bitVote), offer.amount)
<1> DEFINE a == offer.amount
           deadline == Min({first.time, EpochEnd(round + 1)})
           rewarded == {v \in DOMAIN signers : \/ SignedInGrace(round, signers[v])
                                               \/ SignedBefore(round, signers[v], deadline)}
           ids == [v \in DOMAIN pol |-> v]
           places == {i \in DOMAIN ids : ids[i] \in rewarded}
           order == Picked(ids, places)
           others == SumFunction([v \in DOMAIN pol |-> IF v \in rewarded THEN 0 ELSE pol[v].signing])
           ws == [i \in DOMAIN order |-> pol[order[i]].signing] \o <<others>>
           given == Shares(ws, a)
           burnt(i) == IF signers[order[i]].dominates THEN 0 ELSE BurntPart(given[i])
           claims(i) == (IF burnt(i) > 0 THEN ClaimBack(offer, burnt(i)) ELSE <<>>)
                        \o SigningSplit(pol, order[i], offer, given[i] - burnt(i))
           xs == [i \in DOMAIN order |-> given[i]]
           rest == a - SumFunction(xs)
           ss == [i \in DOMAIN order |-> claims(i)]
           back == IF rest > 0 THEN ClaimBack(offer, rest) ELSE <<>>
<1>1. FdcSigningClaims(pol, offer, round, signers, first, bitVote)
        = IF first = Empty \/ bitVote = Empty \/ bitVote = {} THEN ClaimBack(offer, a)
          ELSE FlattenSeq(ss) \o back
  BY DEF FdcSigningClaims, Select
<1>2. /\ Len(pol) \in Nat /\ DOMAIN pol = 1..Len(pol)
      /\ \A v \in DOMAIN pol : pol[v].signing \in Nat
  <2>1. \A v \in DOMAIN pol : pol[v] \in Voters
    OBVIOUS
  <2> QED BY <2>1 DEF Voters
<1>3. order \in Seq(DOMAIN pol)
  <2>1. ids \in Seq(DOMAIN pol)
    BY <1>2
  <2> HIDE DEF places, ids
  <2> QED BY <2>1, PickedElements
<1>4. others \in Nat
  <2> DEFINE f == [v \in DOMAIN pol |-> IF v \in rewarded THEN 0 ELSE pol[v].signing]
             n == Len(pol)
  <2> HIDE DEF rewarded
  <2>1. DOMAIN f = 1..n /\ n \in Nat /\ \A v \in 1..n : f[v] \in Nat
    BY <1>2
  <2> HIDE DEF f, n
  <2>2. SumFunction(f) \in Nat
    BY <2>1, WholeIsMore
  <2> QED BY <2>2 DEF f
<1>5. a \in Nat /\ Pays(To, ClaimBack(offer, a), a)
  BY BackPays
<1> HIDE DEF a, others, order, places, ids, rewarded
<1> DEFINE m == Len(order)
<1>6. /\ m \in Nat /\ DOMAIN order = 1..m /\ ws \in Seq(Nat) /\ Len(ws) = m + 1 /\ DOMAIN ws = 1..(m + 1)
      /\ \A i \in 1..m : order[i] \in DOMAIN pol
  <2>1. m \in Nat /\ DOMAIN order = 1..m /\ \A i \in 1..m : order[i] \in DOMAIN pol
    BY <1>3
  <2> DEFINE first_ == [i \in DOMAIN order |-> pol[order[i]].signing]
  <2>2. first_ \in Seq(Nat) /\ Len(first_) = m
    BY <1>2, <2>1
  <2>3. <<others>> \in Seq(Nat) /\ Len(<<others>>) = 1
    BY <1>4
  <2> HIDE DEF first_, m
  <2>4. first_ \o <<others>> \in Seq(Nat) /\ Len(first_ \o <<others>>) = m + 1
    BY <2>2, <2>3
  <2>5. ws \in Seq(Nat) /\ Len(ws) = m + 1
    BY <2>4 DEF first_
  <2> HIDE DEF ws
  <2> QED BY <2>1, <2>5
<1> HIDE DEF m, ws
<1>7. SharedOut(given, ws, a)
  BY <1>5, <1>6, SharesGive
<1> HIDE DEF given
<1>8. /\ given \in Seq(Int) /\ Len(given) = m + 1 /\ Weigh(Same, given) <= a
      /\ DOMAIN given = 1..(m + 1) /\ \A i \in DOMAIN given : given[i] >= 0
  BY <1>5, <1>6, <1>7 DEF SharedOut
<1>9. ASSUME NEW i \in 1..m PROVE Pays(To, ss[i], given[i])
  <2> DEFINE x == given[i]
             b == burnt(i)
             s == IF b > 0 THEN ClaimBack(offer, b) ELSE <<>>
             t == SigningSplit(pol, order[i], offer, x - b)
  <2>1. i \in DOMAIN given /\ i \in DOMAIN order /\ order[i] \in DOMAIN pol /\ x \in Nat
    <3>1. i \in 1..(m + 1) /\ i \in DOMAIN order
      BY <1>6
    <3>2. given[i] \in Int /\ given[i] >= 0
      BY <1>8, <3>1
    <3> QED BY <1>6, <1>8, <3>1, <3>2
  <2>2. b \in Int /\ b >= 0 /\ b <= x
    <3> DEFINE z == BurntPart(x)
    <3>1. z \in Nat /\ z <= x
      <4> HIDE DEF x
      <4> QED BY <2>1, BurntPartIs
    <3>2. b = 0 \/ b = z
      OBVIOUS
    <3> HIDE DEF b, z, x
    <3> QED BY <2>1, <3>1, <3>2
  <2>3. ss[i] = s \o t
    BY <2>1
  <2> HIDE DEF b, x
  <2>4. Pays(To, s, b)
    <3>1. Pays(To, ClaimBack(offer, b), b)
      BY <2>2, BackPays
    <3>2. Pays(To, <<>>, 0)
      <4>1. "DIRECT" \in ClaimTypes /\ 0 \in Int
        BY DEF ClaimTypes
      <4> QED BY <4>1, PaysOne, Zenon
    <3>3. CASE b > 0
      BY <3>1, <3>3
    <3>4. CASE ~(b > 0)
      <4>1. b = 0
        BY <2>2, <3>4
      <4>2. s = <<>>
        BY <3>4
      <4> QED BY <3>2, <4>1, <4>2
    <3> QED BY <3>3, <3>4
  <2>5. Pays(To, t, x - b)
    <3>1. x - b \in Int /\ Gain(x - b) = x - b
      BY <2>1, <2>2 DEF Gain
    <3> QED BY <2>1, <3>1, SplitPays
  <2> HIDE DEF s, t
  <2>6. Pays(To, s \o t, b + (x - b))
    BY <2>4, <2>5, PaysConcat
  <2>7. b + (x - b) = x
    BY <2>1, <2>2
  <2> QED BY <2>3, <2>6, <2>7 DEF x
<1>10. xs = [i \in 1..m |-> given[i]] /\ ss = [i \in 1..m |-> ss[i]] /\ m <= Len(given)
  <2>1. m \in Nat /\ DOMAIN order = 1..m /\ Len(given) = m + 1
    BY <1>6, <1>8
  <2> HIDE DEF claims
  <2>2. xs = [i \in 1..m |-> given[i]] /\ ss = [i \in 1..m |-> ss[i]]
    BY <2>1
  <2> QED BY <2>1, <2>2
<1> HIDE DEF ss, xs
<1>11. SumFunction(xs) \in Int /\ SumFunction(xs) <= a
  <2>1. /\ xs \in Seq(Int) /\ Weigh(Same, xs) \in Int /\ Weigh(Same, xs) <= Weigh(Same, given)
        /\ Weigh(Same, given) \in Int
    BY <1>6, <1>8, <1>10, FirstParts
  <2>2. SumFunction(xs) = Weigh(Same, xs)
    BY <2>1, SumIsWeight
  <2> QED BY <1>5, <1>8, <2>1, <2>2
<1>12. back = ClaimBack(offer, a - SumFunction(xs)) \/ (back = <<>> /\ SumFunction(xs) = a)
  <2> DEFINE y == SumFunction(xs)
  <2>1. y \in Int /\ y <= a /\ a \in Nat /\ back = IF a - y > 0 THEN ClaimBack(offer, a - y) ELSE <<>>
    BY <1>5, <1>11
  <2> HIDE DEF y, back
  <2>2. back = ClaimBack(offer, a - y) \/ (back = <<>> /\ y = a)
    BY <2>1
  <2> QED BY <2>2 DEF y
<1> HIDE DEF back
<1>13. Pays(To, FlattenSeq(ss) \o back, a)
  BY <1>5, <1>6, <1>8, <1>9, <1>10, <1>12, RestPays
<1> QED BY <1>1, <1>5, <1>13 DEF a

\* The parts of an offer are offers.
LEMMA SplitsAddUp ==
    ASSUME NEW offer, offer.amount \in Nat, NEW o1, o1 = SplitOffer(offer),
           NEW o2, o2 = SplitFdcOffer(offer),
           {"amount", "claimBack"} \subseteq DOMAIN offer
    PROVE  /\ o1.signing.amount \in Nat /\ o1.finalization.amount \in Nat /\ o1.median.amount \in Nat
           /\ o1.median.amount + o1.signing.amount + o1.finalization.amount = offer.amount
           /\ o2.signing.amount \in Nat /\ o2.finalization.amount \in Nat
           /\ o2.finalization.amount + o2.signing.amount = offer.amount
<1> DEFINE a == offer.amount
           x == Quot(a * SigningBips, TotalBips)
           y == Quot(a * FinalizationBips, TotalBips)
<1>1. /\ TotalBips \in Nat \ {0} /\ SigningBips \in Nat /\ FinalizationBips \in Nat /\ a \in Nat
      /\ SigningBips + FinalizationBips <= TotalBips
  BY SharesAssumption
<1>2. /\ o1.signing.amount = x /\ o1.finalization.amount = y /\ o1.median.amount = a - x - y
      /\ o2.finalization.amount = y /\ o2.signing.amount = a - y
  BY DEF SplitOffer, SplitFdcOffer
<1> HIDE DEF a
<1>3. a * SigningBips \in Nat /\ a * FinalizationBips \in Nat
      /\ a * SigningBips + a * FinalizationBips = a * (SigningBips + FinalizationBips)
      /\ a * (SigningBips + FinalizationBips) <= a * TotalBips
  <2>1. a * SigningBips \in Nat /\ a * FinalizationBips \in Nat
    BY <1>1
  <2>2. a * SigningBips + a * FinalizationBips = a * (SigningBips + FinalizationBips)
    BY <1>1
  <2>3. (SigningBips + FinalizationBips) * a <= TotalBips * a
    BY <1>1, MulMonotone
  <2> QED BY <1>1, <2>1, <2>2, <2>3
<1>4. /\ x \in Nat /\ x * TotalBips <= a * SigningBips
      /\ y \in Nat /\ y * TotalBips <= a * FinalizationBips
  <2> DEFINE u == a * SigningBips
             v == a * FinalizationBips
  <2>1. u \in Nat /\ v \in Nat /\ x = Quot(u, TotalBips) /\ y = Quot(v, TotalBips)
    BY <1>3
  <2> HIDE DEF u, v, x, y
  <2>2. x = u \div TotalBips /\ y = v \div TotalBips
    BY <2>1 DEF Quot
  <2>3. x \in Nat /\ x * TotalBips <= u /\ y \in Nat /\ y * TotalBips <= v
    BY <1>1, <2>1, <2>2, DivFloor
  <2> QED BY <2>3 DEF u, v
<1> HIDE DEF x, y
<1>5. (x + y) * TotalBips <= a * TotalBips
  <2>1. (x + y) * TotalBips = x * TotalBips + y * TotalBips
    BY <1>1, <1>4
  <2>2. x * TotalBips \in Nat /\ y * TotalBips \in Nat /\ a * TotalBips \in Nat
        /\ a * (SigningBips + FinalizationBips) \in Nat
    BY <1>1, <1>4
  <2> DEFINE p == x * TotalBips
             q == y * TotalBips
             z == a * TotalBips
             u == a * SigningBips
             v == a * FinalizationBips
             w == a * (SigningBips + FinalizationBips)
  <2>3. /\ p \in Nat /\ q \in Nat /\ z \in Nat /\ u \in Nat /\ v \in Nat /\ w \in Nat
        /\ p <= u /\ q <= v /\ u + v = w /\ w <= z
    BY <1>3, <1>4, <2>2
  <2> HIDE DEF p, q, z, u, v, w
  <2>4. p + q <= z
    BY <2>3
  <2> QED BY <2>1, <2>4 DEF p, q, z
<1>6. x + y <= a
  <2> DEFINE z == x + y
  <2>1. z \in Int /\ a \in Int /\ TotalBips \in Nat \ {0} /\ z * TotalBips <= a * TotalBips
    BY <1>1, <1>4, <1>5
  <2> HIDE DEF z
  <2>2. z <= a
    BY <2>1, MulCancel
  <2> QED BY <2>2 DEF z
<1> QED BY <1>1, <1>2, <1>4, <1>6 DEF a

-----------------------------------------------------------------------------
(* Offers and their pieces *)

\* The claims of pieces, added one after the other.
AddPieces(ps) == FoldLeft(LAMBDA all, piece : AddClaims(all, piece.claims, piece.merge), <<>>, ps)

\* A list of the pieces of offers, and what its claims pay together.
PiecesPay(To, ps, x) ==
    /\ ps \in Seq(ToSet(ps))
    /\ \E xs \in Seq(Int) : /\ Len(xs) = Len(ps) /\ Weigh(Same, xs) = x
                            /\ \A i \in DOMAIN ps : Pays(To, ps[i].claims, xs[i])

\* Two lists after one another, place by place.
LEMMA ConcatPlaces ==
    ASSUME NEW R, NEW s \in Seq(R), NEW t \in Seq(R), NEW m, m = Len(s), NEW n, n = Len(t)
    PROVE  /\ s \o t \in Seq(R) /\ Len(s \o t) = m + n /\ DOMAIN (s \o t) = 1..(m + n)
           /\ \A i \in 1..m : (s \o t)[i] = s[i]
           /\ \A i \in (m + 1)..(m + n) : (s \o t)[i] = t[i - m] /\ i - m \in 1..n
OBVIOUS

\* A list is one of its elements.
LEMMA OwnList ==
    ASSUME NEW R, NEW s \in Seq(R)
    PROVE  s \in Seq(ToSet(s))
<1>1. Len(s) \in Nat /\ DOMAIN s = 1..Len(s) /\ s = [i \in 1..Len(s) |-> s[i]]
  OBVIOUS
<1>2. \A i \in 1..Len(s) : s[i] \in ToSet(s)
  BY <1>1 DEF ToSet
<1>3. s \in [1..Len(s) -> ToSet(s)]
  BY <1>1, <1>2
<1> QED BY <1>1, <1>3

\* Pieces that pay two amounts pay both together.
LEMMA PiecesConcat ==
    ASSUME NEW To, NEW ps, NEW x, PiecesPay(To, ps, x), NEW qs, NEW y, PiecesPay(To, qs, y)
    PROVE  PiecesPay(To, ps \o qs, x + y)
<1>1. PICK xs \in Seq(Int) : /\ Len(xs) = Len(ps) /\ Weigh(Same, xs) = x
                             /\ \A i \in DOMAIN ps : Pays(To, ps[i].claims, xs[i])
  BY DEF PiecesPay
<1>2. PICK ys \in Seq(Int) : /\ Len(ys) = Len(qs) /\ Weigh(Same, ys) = y
                             /\ \A i \in DOMAIN qs : Pays(To, qs[i].claims, ys[i])
  BY DEF PiecesPay
<1> DEFINE m == Len(ps)
           n == Len(qs)
           pq == ps \o qs
           xy == xs \o ys
<1>3. /\ m \in Nat /\ DOMAIN ps = 1..m /\ n \in Nat /\ DOMAIN qs = 1..n
      /\ ps \in Seq(ToSet(ps)) /\ qs \in Seq(ToSet(qs))
      /\ Len(xs) = m /\ Len(ys) = n
  BY <1>1, <1>2 DEF PiecesPay
<1>4. /\ DOMAIN pq = 1..(m + n) /\ Len(pq) = m + n
      /\ \A i \in 1..m : pq[i] = ps[i]
      /\ \A i \in (m + 1)..(m + n) : pq[i] = qs[i - m] /\ i - m \in 1..n
      /\ pq \in Seq(ToSet(pq))
  <2> DEFINE R == ToSet(ps) \cup ToSet(qs)
  <2>1. ps \in Seq(R) /\ qs \in Seq(R)
    BY <1>3
  <2> HIDE DEF R, m, n
  <2>2. /\ ps \o qs \in Seq(R) /\ Len(ps \o qs) = m + n /\ DOMAIN (ps \o qs) = 1..(m + n)
        /\ \A i \in 1..m : (ps \o qs)[i] = ps[i]
        /\ \A i \in (m + 1)..(m + n) : (ps \o qs)[i] = qs[i - m] /\ i - m \in 1..n
    BY <2>1, ConcatPlaces DEF m, n
  <2> HIDE DEF pq
  <2>3. pq \in Seq(R)
    BY <2>2 DEF pq
  <2>4. pq \in Seq(ToSet(pq))
    BY <2>3, OwnList
  <2> QED BY <2>2, <2>4 DEF pq
<1>5. /\ xy \in Seq(Int) /\ Len(xy) = m + n
      /\ \A i \in 1..m : xy[i] = xs[i]
      /\ \A i \in (m + 1)..(m + n) : xy[i] = ys[i - m]
  <2> HIDE DEF m, n
  <2>1. xs \in Seq(Int) /\ ys \in Seq(Int) /\ m = Len(xs) /\ n = Len(ys)
    BY <1>3
  <2> QED BY <2>1, ConcatPlaces
<1>6. Weigh(Same, xy) = x + y
  <2>1. Same \in [Int -> Int]
    BY DEF Same
  <2> QED BY <1>1, <1>2, <2>1, WeighConcat
<1> HIDE DEF pq, xy, m, n
<1>8. ASSUME NEW i \in DOMAIN pq PROVE Pays(To, pq[i].claims, xy[i])
  <2>1. CASE i \in 1..m
    BY <1>1, <1>3, <1>4, <1>5, <2>1
  <2>2. CASE i \notin 1..m
    <3>1. i \in (m + 1)..(m + n)
      BY <1>3, <1>4, <2>2
    <3> QED BY <1>2, <1>3, <1>4, <1>5, <3>1
  <2> QED BY <2>1, <2>2
<1>9. PiecesPay(To, pq, x + y)
  BY <1>4, <1>5, <1>6, <1>8 DEF PiecesPay
<1> QED BY <1>9 DEF pq

\* Adding claims adds what they pay, merged or not.
LEMMA AddsUp ==
    ASSUME NEW To, NEW all, NEW x, Pays(To, all, x), NEW claims, NEW y, Pays(To, claims, y), NEW merge
    PROVE  Pays(To, AddClaims(all, claims, merge), x + y)
<1> DEFINE R == ClaimsTo(To)
           G == GainsOf(R)
           list == all \o claims
<1>1. Pays(To, list, x + y)
  BY PaysConcat
<1> HIDE DEF list
<1>2. list \in Seq(R) /\ Weigh(G, list) = x + y
  BY <1>1 DEF Pays
<1>3. Weigh(G, Merge(list)) = Weigh(G, list) /\ Merge(list) \in Seq(R)
  <2>1. G \in [R -> Int] /\ Additive(G, To)
    BY WeightsKept
  <2>2. Weigh(G, Merge(list)) = Weigh(G, list)
    BY <1>2, <2>1, WeighMerge
  <2>3. Merge(list) \in MergedTo(To)
    BY <1>2, MergeKeeps
  <2> QED BY <2>2, <2>3 DEF MergedTo
<1>4. Pays(To, Merge(list), x + y)
  BY <1>2, <1>3 DEF Pays
<1> QED BY <1>1, <1>4 DEF AddClaims, list

IsAdded(g, list, D) ==
    g = [s \in SUBSET D |-> IF s = {} THEN <<>>
                            ELSE AddClaims(g[s \ {Max(s)}], list[Max(s)].claims, list[Max(s)].merge)]

\* AddPieces folds AddClaims over the indices of a list.
LEMMA AddUnfold ==
    ASSUME NEW list, NEW g0, IsAdded(g0, list, DOMAIN list)
    PROVE  \E g : IsAdded(g, list, DOMAIN list) /\ AddPieces(list) = g[DOMAIN list]
<1> DEFINE It == CHOOSE g : IsAdded(g, list, DOMAIN list)
<1>1. IsAdded(It, list, DOMAIN list)
  OBVIOUS
<1>2. AddPieces(list) = It[DOMAIN list]
  BY DEF AddPieces, FoldLeft, MapThenFoldSet, IsAdded
<1> QED BY <1>1, <1>2

\* v goes through the claims so far.
AddSteps(v, list) ==
    /\ v[0] = <<>>
    /\ \A k \in 1..Len(list) : v[k] = AddClaims(v[k - 1], list[k].claims, list[k].merge)

\* Pieces are added one after the other.
LEMMA AddInSteps ==
    ASSUME NEW To, NEW list, list \in Seq(ToSet(list)),
           \A i \in DOMAIN list : list[i].claims \in Seq(ClaimsTo(To))
    PROVE  \E v : AddSteps(v, list) /\ AddPieces(list) = v[Len(list)]
<1> DEFINE n == Len(list)
           R == ToSet(list)
           A == Seq(ClaimsTo(To))
           op == [p \in A \X R |-> AddClaims(p[1], p[2].claims, p[2].merge)]
<1>1. n \in Nat /\ DOMAIN list = 1..n /\ list \in [1..n -> R]
  OBVIOUS
<1>2. ASSUME NEW all \in A, NEW piece \in R
      PROVE  AddClaims(all, piece.claims, piece.merge) \in A
  <2>1. piece.claims \in A
    BY <1>2 DEF ToSet
  <2>2. /\ Pays(To, all, Weigh(GainsOf(ClaimsTo(To)), all))
        /\ Pays(To, piece.claims, Weigh(GainsOf(ClaimsTo(To)), piece.claims))
    BY <2>1 DEF Pays
  <2> DEFINE new == AddClaims(all, piece.claims, piece.merge)
  <2>3. \E z : Pays(To, new, z)
    BY <2>2, AddsUp
  <2> HIDE DEF new
  <2>4. new \in A
    BY <2>3 DEF Pays
  <2> QED BY <2>4 DEF new
<1>3. op \in [A \X R -> A]
  <2> HIDE DEF A, R
  <2> QED BY <1>2
<1>4. <<>> \in A
  OBVIOUS
<1>5. HasFold(op, <<>>, list, n, A)
  <2> DEFINE D == 1..n
  <2>1. list \in [D -> R]
    BY <1>1
  <2> HIDE DEF op, n, R, A
  <2> QED BY <1>1, <1>3, <1>4, <2>1, FoldDefined, Zenon
<1>6. PICK g0 \in [SUBSET (1..n) -> A] : FoldsUp(g0, op, <<>>, list, n)
  BY <1>5 DEF HasFold
<1>7. IsAdded(g0, list, 1..n)
  <2> SUFFICES ASSUME NEW s \in SUBSET (1..n)
               PROVE  g0[s] = IF s = {} THEN <<>>
                              ELSE AddClaims(g0[s \ {Max(s)}], list[Max(s)].claims, list[Max(s)].merge)
    BY DEF IsAdded
  <2>1. CASE s # {}
    <3>1. Max(s) \in 1..n
      <4>1. s \in SUBSET Nat /\ \A m \in s : m <= n
        OBVIOUS
      <4> QED BY <1>1, <2>1, <4>1, MaxOfNaturals
    <3>2. g0[s] = op[<<g0[s \ {Max(s)}], list[Max(s)]>>]
      BY <1>6, <2>1 DEF FoldsUp
    <3> HIDE DEF R, A
    <3>3. g0[s \ {Max(s)}] \in A /\ list[Max(s)] \in R
      BY <1>1, <3>1
    <3> QED BY <2>1, <3>2, <3>3
  <2>2. CASE s = {}
    BY <1>6, <2>2 DEF FoldsUp
  <2> QED BY <2>1, <2>2
<1>8. PICK g : IsAdded(g, list, 1..n) /\ AddPieces(list) = g[1..n]
  BY <1>1, <1>7, AddUnfold
<1> DEFINE v == [k \in 0..n |-> g[1..k]]
<1>9. v[0] = <<>>
  <2>1. 1..0 \in SUBSET (1..n) /\ 1..0 = {} /\ 0 \in 0..n
    BY <1>1
  <2> QED BY <1>8, <2>1 DEF IsAdded
<1>10. ASSUME NEW k \in 1..n
       PROVE  v[k] = AddClaims(v[k - 1], list[k].claims, list[k].merge)
  <2>1. k \in Nat \ {0} /\ 1..k \in SUBSET (1..n) /\ k \in 0..n /\ k - 1 \in 0..n
    BY <1>1
  <2>2. Max(1..k) = k /\ (1..k) \ {k} = 1..(k - 1) /\ 1..k # {}
    BY <2>1, MaxOfInterval, IntervalStep
  <2>3. g[1..k] = AddClaims(g[1..(k - 1)], list[k].claims, list[k].merge)
    BY <1>8, <2>1, <2>2 DEF IsAdded
  <2> QED BY <2>1, <2>3
<1>11. v[n] = g[1..n]
  BY <1>1
<1> HIDE DEF v, A, R
<1>12. AddSteps(v, list)
  BY <1>9, <1>10 DEF AddSteps
<1> QED BY <1>8, <1>11, <1>12

\* What pieces pay, their claims pay together.
LEMMA AddedPays ==
    ASSUME NEW To, NEW ps, NEW x, PiecesPay(To, ps, x)
    PROVE  Pays(To, AddPieces(ps), x)
<1>1. PICK xs \in Seq(Int) : /\ Len(xs) = Len(ps) /\ Weigh(Same, xs) = x
                             /\ \A i \in DOMAIN ps : Pays(To, ps[i].claims, xs[i])
  BY DEF PiecesPay
<1> DEFINE n == Len(ps)
<1>2. n \in Nat /\ DOMAIN ps = 1..n /\ ps \in Seq(ToSet(ps)) /\ Len(xs) = n
  BY <1>1 DEF PiecesPay
<1>3. \A i \in DOMAIN ps : ps[i].claims \in Seq(ClaimsTo(To))
  BY <1>1 DEF Pays
<1>4. PICK v : AddSteps(v, ps) /\ AddPieces(ps) = v[n]
  BY <1>2, <1>3, AddInSteps
<1>5. Same \in [Int -> Int] /\ \A i \in 1..n : Same[xs[i]] = xs[i]
  BY <1>2 DEF Same
<1>6. /\ Weigh(Same, xs) = WeighTo(Same, xs, n) /\ WeighTo(Same, xs, 0) = 0
      /\ \A k \in 1..n : WeighTo(Same, xs, k) = WeighTo(Same, xs, k - 1) + Same[xs[k]]
  <2>1. /\ Weigh(Same, xs) = WeighTo(Same, xs, Len(xs)) /\ WeighTo(Same, xs, 0) = 0
        /\ \A k \in 1..Len(xs) : WeighTo(Same, xs, k) = WeighTo(Same, xs, k - 1) + Same[xs[k]]
    <3>1. xs \in Seq(Int) /\ Same \in [Int -> Int]
      BY <1>5
    <3> HIDE DEF n
    <3> QED BY <3>1, WeighSteps, Zenon
  <2> QED BY <1>2, <2>1
<1> DEFINE T == {k \in 0..n : Pays(To, v[k], WeighTo(Same, xs, k))}
<1>7. 0 \in T
  <2>1. v[0] = <<>> /\ 0 \in 0..n
    BY <1>2, <1>4 DEF AddSteps
  <2>2. Pays(To, <<>>, 0)
    BY WeighEmpty DEF Pays
  <2> QED BY <1>6, <2>1, <2>2
<1>8. ASSUME NEW k \in 1..n, k - 1 \in T PROVE k \in T
  <2>1. v[k] = AddClaims(v[k - 1], ps[k].claims, ps[k].merge)
    BY <1>4 DEF AddSteps
  <2>2. Pays(To, v[k - 1], WeighTo(Same, xs, k - 1)) /\ Pays(To, ps[k].claims, xs[k])
    BY <1>1, <1>2, <1>8
  <2>3. Pays(To, v[k], WeighTo(Same, xs, k - 1) + xs[k])
    BY <2>1, <2>2, AddsUp
  <2>4. WeighTo(Same, xs, k) = WeighTo(Same, xs, k - 1) + xs[k]
    BY <1>5, <1>6
  <2>5. k \in 0..n
    BY <1>2
  <2> QED BY <2>3, <2>4, <2>5
<1>9. n \in T
  <2> HIDE DEF T, n
  <2>1. \A k \in 0..n : k \in T
    BY <1>2, <1>7, <1>8, StepByStep
  <2> QED BY <1>2, <2>1
<1> QED BY <1>1, <1>4, <1>6, <1>9

\* Elements that weigh what numbers say.
LEMMA SumsAlike ==
    ASSUME NEW xs \in Seq(Int), NEW W, NEW t, Alike(W, t, Same, xs)
    PROVE  Weigh(W, t) = Weigh(Same, xs)
<1>1. Same \in [Int -> Int]
  BY DEF Same
<1>2. xs \in Seq(Int) /\ Alike(W, t, Same, xs)
  OBVIOUS
<1> QED BY <1>1, <1>2, WeighAlike, SMT

\* The pieces of offers that pay each offer pay all of them.
LEMMA OffersPay ==
    ASSUME NEW To, NEW offers, offers \in Seq(ToSet(offers)), \A o \in ToSet(offers) : o.amount \in Int,
           NEW ps, ps = [i \in DOMAIN offers |-> ps[i]],
           \A i \in DOMAIN offers : Pays(To, ps[i].claims, offers[i].amount)
    PROVE  PiecesPay(To, ps, Amount(offers)) /\ Amount(offers) \in Int
<1> DEFINE n == Len(offers)
           R == ToSet(offers)
           W == [o \in R |-> o.amount]
           xs == [i \in 1..n |-> offers[i].amount]
<1>1. n \in Nat /\ DOMAIN offers = 1..n
  OBVIOUS
<1>2. W \in [R -> Int] /\ \A o \in R : W[o] = o.amount
  OBVIOUS
<1>3. \A i \in 1..n : offers[i] \in R
  BY <1>1 DEF ToSet
<1> HIDE DEF W
<1>4. Amount(offers) = Weigh(W, offers) /\ Weigh(W, offers) \in Int
  <2> HIDE DEF R
  <2>1. offers \in Seq(R)
    BY DEF R
  <2> QED BY <1>2, <2>1, AmountIsSum
<1>5. xs \in Seq(Int) /\ DOMAIN xs = 1..n /\ Len(xs) = n /\ \A i \in 1..n : xs[i] = offers[i].amount
  <2>1. \A i \in 1..n : offers[i].amount \in Int
    BY <1>3
  <2> QED BY <1>1, <2>1
<1> HIDE DEF xs, R
<1>6. Weigh(Same, xs) = Weigh(W, offers)
  <2>1. Same \in [Int -> Int]
    BY DEF Same
  <2>2. \A i \in 1..n : Same[xs[i]] = W[offers[i]]
    <3> SUFFICES ASSUME NEW i \in 1..n PROVE Same[xs[i]] = W[offers[i]]
      OBVIOUS
    <3>1. xs[i] = offers[i].amount /\ xs[i] \in Int /\ offers[i] \in R
      BY <1>3, <1>5
    <3> QED BY <1>2, <3>1 DEF Same
  <2>3. Alike(W, offers, Same, xs)
    BY <1>1, <1>5, <2>2 DEF Alike
  <2>4. Weigh(W, offers) = Weigh(Same, xs)
    <3>1. xs \in Seq(Int) /\ Same \in [Int -> Int] /\ Alike(W, offers, Same, xs)
      BY <1>5, <2>1, <2>3
    <3> QED BY <3>1, SumsAlike, Zenon
  <2> QED BY <2>4
<1>7. DOMAIN ps = 1..n /\ Len(ps) = n /\ ps \in Seq(ToSet(ps))
  <2>1. ps = [i \in 1..n |-> ps[i]] /\ DOMAIN ps = 1..n
    BY <1>1
  <2>2. \A i \in 1..n : ps[i] \in ToSet(ps)
    BY <2>1 DEF ToSet
  <2>3. ps \in [1..n -> ToSet(ps)]
    BY <2>1, <2>2
  <2> QED BY <1>1, <2>1, <2>3
<1>8. \A i \in DOMAIN ps : Pays(To, ps[i].claims, xs[i])
  BY <1>1, <1>5, <1>7
<1> QED BY <1>4, <1>5, <1>6, <1>7, <1>8 DEF PiecesPay

-----------------------------------------------------------------------------
(* The claims of a round *)

\* Who may claim for a round of a scenario with these transactions.
Beneficiaries(s, txs) ==
    {BurnAddress}
    \cup {o.claimBack : o \in ToSet(s.ftsoOffers) \cup ToSet(s.updateOffers) \cup ToSet(s.fdcOffers)}
    \cup {<<tag, v>> : tag \in {"identity", "delegation"}, v \in DOMAIN s.policy}
    \cup {<<"node", v, i>> : v \in DOMAIN s.policy, i \in Nat}
    \cup {<<"signing", tx.sender>> : tx \in ToSet(txs)}

\* Transactions of the chain, and the finalizations among them: one for each
\* sender.
FinalizedBy(To, data) ==
    /\ data.first # Empty => <<"signing", data.first.sender>> \in To
    /\ \E R : data.finalizations \in Seq(R)
    /\ SendersDistinct(data.finalizations)

\* The data of a protocol is finalized by those who may claim.
LEMMA DataFinalized ==
    ASSUME NEW s, NEW txs, txs \in Seq(ToSet(txs)), NEW protocol
    PROVE  FinalizedBy(Beneficiaries(s, txs), ProtocolData(txs, protocol))
<1> DEFINE R == ToSet(txs)
           To == Beneficiaries(s, txs)
           inWindow == {i \in DOMAIN txs : /\ txs[i].kind = "finalize" /\ txs[i].time >= WindowStart(0)
                                           /\ txs[i].time <= WindowEnd(0)}
           window == Picked(txs, inWindow)
           good == {i \in DOMAIN window : /\ window[i].round = 0 /\ window[i].protocol = protocol
                                          /\ window[i].epoch = PolicyEpoch /\ window[i].valid}
           relevant == Picked(window, good)
           list == FirstOfSender(relevant)
           successes == {i \in DOMAIN list : list[i].successfulOnChain}
           successful == Picked(list, successes)
           data == ProtocolData(txs, protocol)
<1>1. WindowOf(txs, "finalize", 0) = window
  BY DEF WindowOf, InRange, Select
<1>2. ExtractFinalizations(window, 0, PolicyEpoch, protocol) = list
  BY DEF ExtractFinalizations, Select
<1>3. FirstSuccessful(list) = IF successful = <<>> THEN Empty ELSE successful[1]
  BY DEF FirstSuccessful, Select
<1>4. /\ data.finalizations = list
      /\ data.first = IF successful = <<>> THEN Empty ELSE successful[1]
  <2> HIDE DEF list, successful
  <2>1. /\ data.finalizations = ExtractFinalizations(WindowOf(txs, "finalize", 0), 0, PolicyEpoch, protocol)
        /\ data.first = FirstSuccessful(ExtractFinalizations(WindowOf(txs, "finalize", 0), 0, PolicyEpoch, protocol))
    BY DEF ProtocolData
  <2> HIDE DEF data, window
  <2> QED BY <1>1, <1>2, <1>3, <2>1
<1> HIDE DEF data
<1>5. window \in Seq(R)
  <2> HIDE DEF inWindow, R
  <2>1. txs \in Seq(R)
    BY DEF R
  <2> QED BY <2>1, PickedElements
<1> HIDE DEF window, inWindow
<1>6. relevant \in Seq(R)
  <2> HIDE DEF good, R
  <2> QED BY <1>5, PickedElements
<1> HIDE DEF relevant, good
<1>7. list \in Seq(R) /\ SendersDistinct(list)
  <2> HIDE DEF R
  <2> QED BY <1>6, FirstsDistinct
<1> HIDE DEF list
<1>8. successful \in Seq(R)
  <2> HIDE DEF successes, R
  <2> QED BY <1>7, PickedElements
<1> HIDE DEF successful, successes
<1>9. successful # <<>> => successful[1] \in R
  <2> HIDE DEF R
  <2> QED BY <1>8
<1>10. \A tx \in R : <<"signing", tx.sender>> \in To
  BY DEF Beneficiaries
<1> HIDE DEF R, To
<1>11. data.first # Empty => <<"signing", data.first.sender>> \in To
  BY <1>4, <1>9, <1>10
<1>12. \E R_ : data.finalizations \in Seq(R_)
  BY <1>4, <1>7
<1>13. SendersDistinct(data.finalizations)
  BY <1>4, <1>7
<1> QED BY <1>11, <1>12, <1>13 DEF FinalizedBy, data, To

\* What a well-formed scenario is made of.
LEMMA ScenarioHas ==
    ASSUME WellFormed(scenario), NEW txs, NEW To, To = Beneficiaries(scenario, txs)
    PROVE  /\ policy \in Seq(Voters) /\ HasAddresses(To, Len(policy)) /\ BurnAddress \in To
           /\ scenario.finalizers \in SUBSET DOMAIN policy
           /\ scenario.updates # Empty => scenario.updates.submitted \in Seq(DOMAIN policy)
           /\ \A o \in ToSet(scenario.ftsoOffers) : "primaryShare" \in DOMAIN o /\ o.primaryShare \in 0..TotalPpm
           /\ \A offers \in {scenario.ftsoOffers, scenario.updateOffers, scenario.fdcOffers} :
                 /\ offers \in Seq(ToSet(offers))
                 /\ \A o \in ToSet(offers) : /\ {"amount", "claimBack"} \subseteq DOMAIN o
                                             /\ o.amount \in Nat /\ o.claimBack \in To
<1>1. policy \in Seq(Voters) /\ DOMAIN policy = 1..Len(policy) /\ policy = scenario.policy
  BY DEF WellFormed, policy
<1>2. HasAddresses(To, Len(policy)) /\ BurnAddress \in To
  <2>1. BurnAddress \in To
    BY DEF Beneficiaries
  <2>2. ASSUME NEW v \in 1..Len(policy)
        PROVE  /\ <<"identity", v>> \in To /\ <<"delegation", v>> \in To
               /\ \A i \in Nat : <<"node", v, i>> \in To
    <3>1. v \in DOMAIN scenario.policy
      BY <1>1
    <3> QED BY <3>1 DEF Beneficiaries
  <2> QED BY <2>1, <2>2 DEF HasAddresses
<1>3. \A o \in ToSet(scenario.ftsoOffers) \cup ToSet(scenario.updateOffers) \cup ToSet(scenario.fdcOffers) :
         o.claimBack \in To
  BY DEF Beneficiaries
<1>4. \A offers \in {scenario.ftsoOffers, scenario.updateOffers, scenario.fdcOffers} :
                 /\ offers \in Seq(ToSet(offers))
                 /\ \A o \in ToSet(offers) : /\ {"amount", "claimBack"} \subseteq DOMAIN o
                                             /\ o.amount \in Nat
  BY DEF WellFormed
<1>5. /\ scenario.finalizers \in SUBSET DOMAIN policy
      /\ scenario.updates # Empty => scenario.updates.submitted \in Seq(DOMAIN policy)
      /\ \A o \in ToSet(scenario.ftsoOffers) : "primaryShare" \in DOMAIN o /\ o.primaryShare \in 0..TotalPpm
  BY <1>1 DEF WellFormed
<1> QED BY <1>1, <1>2, <1>3, <1>4, <1>5

\* The claims of an FTSO offer pay it.
LEMMA FtsoOfferPays ==
    ASSUME NEW To, policy \in Seq(Voters), HasAddresses(To, Len(policy)),
           scenario.finalizers \in SUBSET DOMAIN policy,
           NEW offer, {"amount", "claimBack"} \subseteq DOMAIN offer, offer.amount \in Nat,
           offer.claimBack \in To, "primaryShare" \in DOMAIN offer, offer.primaryShare \in 0..TotalPpm,
           NEW data, FinalizedBy(To, data)
    PROVE  Pays(To, FtsoOfferClaims(offer, data), offer.amount)
<1> DEFINE split == SplitOffer(offer)
           values == RevealedValues
           result == RoundMedian
           coin == scenario.coin
           A == MedianClaims(policy, split.median, values, result, coin)
           eligible == MedianEligible(A)
           B == SigningClaims(policy, split.signing, 0, data.signatures, data.first, eligible)
           C == FinalizationClaims(policy, split.finalization, 0, data.first, data.finalizations,
                                   scenario.finalizers, eligible)
           D == PenaltyClaims(policy, offer, scenario.revealOffenders)
           E == PenaltyClaims(policy, offer, DoubleSigners(0, data.signatures))
<1>1. FtsoOfferClaims(offer, data) = IF offer.burn THEN ClaimBack(offer, offer.amount)
                                     ELSE A \o B \o C \o D \o E
  BY DEF FtsoOfferClaims
<1>2. /\ split.signing.amount \in Nat /\ split.finalization.amount \in Nat /\ split.median.amount \in Nat
      /\ split.median.amount + split.signing.amount + split.finalization.amount = offer.amount
  <2> DEFINE fdcSplit == SplitFdcOffer(offer)
  <2>1. split = SplitOffer(offer) /\ fdcSplit = SplitFdcOffer(offer)
    OBVIOUS
  <2> HIDE DEF split, fdcSplit
  <2> QED BY <2>1, SplitsAddUp
<1>3. /\ split.signing.claimBack \in To /\ split.finalization.claimBack \in To
      /\ split.median.claimBack \in To /\ split.median.primaryShare \in 0..TotalPpm
  <2>1. /\ split.signing.claimBack = offer.claimBack /\ split.finalization.claimBack = offer.claimBack
        /\ split.median.claimBack = offer.claimBack
    BY DEF SplitOffer
  <2>2. split.median.primaryShare = offer.primaryShare
    BY DEF SplitOffer
  <2> HIDE DEF split
  <2> QED BY <2>1, <2>2
<1> HIDE DEF split, values, result, coin
<1>4. Pays(To, A, split.median.amount)
  BY <1>2, <1>3, MedianPays
<1> HIDE DEF A, eligible
<1>5. Pays(To, B, split.signing.amount)
  BY <1>2, <1>3, SigningPays
<1>6. Pays(To, C, split.finalization.amount)
  <2>1. PICK R : data.finalizations \in Seq(R)
    BY DEF FinalizedBy
  <2>2. /\ data.first # Empty => <<"signing", data.first.sender>> \in To
        /\ SendersDistinct(data.finalizations)
    BY DEF FinalizedBy
  <2> QED BY <1>2, <1>3, <2>1, <2>2, FinalizationPays
<1>7. Pays(To, D, 0) /\ Pays(To, E, 0)
  BY PenaltiesPay
<1> HIDE DEF B, C, D, E
<1> DEFINE x == split.median.amount
           y == split.signing.amount
           z == split.finalization.amount
<1> HIDE DEF x, y, z
<1>8. Pays(To, A \o B, x + y)
  BY <1>4, <1>5, PaysConcat DEF x, y
<1>9. Pays(To, A \o B \o C, x + y + z)
  BY <1>6, <1>8, PaysConcat DEF z
<1>10. Pays(To, A \o B \o C \o D, x + y + z + 0)
  BY <1>7, <1>9, PaysConcat
<1>11. Pays(To, A \o B \o C \o D \o E, x + y + z + 0 + 0)
  BY <1>7, <1>10, PaysConcat
<1>12. x + y + z + 0 + 0 = offer.amount
  BY <1>2 DEF x, y, z
<1>13. Pays(To, ClaimBack(offer, offer.amount), offer.amount)
  <2>1. offer.amount \in Int /\ offer.amount >= 0
    OBVIOUS
  <2> QED BY <2>1, BackPays
<1> QED BY <1>1, <1>11, <1>12, <1>13

\* The claims of a fast update offer pay it.
LEMMA UpdateOfferPays ==
    ASSUME NEW To, policy \in Seq(Voters), HasAddresses(To, Len(policy)),
           scenario.updates # Empty => scenario.updates.submitted \in Seq(DOMAIN policy),
           NEW offer, offer.amount \in Nat
    PROVE  Pays(To, FastUpdateOfferClaims(offer), offer.amount)
<1> DEFINE median == RoundMedian.median
           value == scenario.updates.value
           submitted == scenario.updates.submitted
<1>1. FastUpdateOfferClaims(offer)
        = IF scenario.updates = Empty THEN <<Claim(BurnAddress, "DIRECT", offer.amount)>>
          ELSE FastUpdateClaims(policy, offer, median, value, submitted)
  BY DEF FastUpdateOfferClaims
<1> HIDE DEF median, value
<1>2. CASE scenario.updates = Empty
  <2>1. <<>> \in Seq(DOMAIN policy)
    OBVIOUS
  <2>2. Pays(To, <<Claim(BurnAddress, "DIRECT", offer.amount)>>, offer.amount)
    BY <2>1, UpdatesPay
  <2> QED BY <1>1, <1>2, <2>2
<1>3. CASE scenario.updates # Empty
  <2>1. submitted \in Seq(DOMAIN policy)
    BY <1>3
  <2> HIDE DEF submitted
  <2>2. Pays(To, FastUpdateClaims(policy, offer, median, value, submitted), offer.amount)
    BY <2>1, UpdatesPay
  <2> QED BY <1>1, <1>3, <2>2
<1> QED BY <1>2, <1>3

\* The claims of an FDC offer pay it.
LEMMA FdcOfferPays ==
    ASSUME NEW To, policy \in Seq(Voters), HasAddresses(To, Len(policy)),
           scenario.finalizers \in SUBSET DOMAIN policy,
           NEW fdcOffer, {"amount", "claimBack"} \subseteq DOMAIN fdcOffer, fdcOffer.amount \in Nat,
           NEW data, FinalizedBy(To, data), NEW fdc
    PROVE  Pays(To, FdcOfferClaims(fdcOffer, data, fdc), fdcOffer.amount)
<1> DEFINE offer == [fdcOffer EXCEPT !.claimBack = BurnAddress]
           split == SplitFdcOffer(offer)
           C == FinalizationClaims(policy, split.finalization, 0, data.first, data.finalizations,
                                   scenario.finalizers, scenario.finalizers)
           B == FdcSigningClaims(policy, split.signing, 0, fdc.signers, data.first, fdc.consensus)
           D == FdcPenaltyClaims(policy, offer, FdcOffenders(fdc))
<1>1. FdcOfferClaims(fdcOffer, data, fdc) = IF offer.burn THEN ClaimBack(offer, offer.amount)
                                            ELSE C \o B \o D
  BY DEF FdcOfferClaims
<1>2. /\ offer.amount = fdcOffer.amount /\ offer.claimBack = BurnAddress
      /\ {"amount", "claimBack"} \subseteq DOMAIN offer
      /\ BurnAddress \in To
  BY DEF HasAddresses
<1> HIDE DEF offer
<1>3. /\ split.signing.amount \in Nat /\ split.finalization.amount \in Nat
      /\ split.finalization.amount + split.signing.amount = offer.amount
  <2> DEFINE ftsoSplit == SplitOffer(offer)
  <2>1. split = SplitFdcOffer(offer) /\ ftsoSplit = SplitOffer(offer)
    OBVIOUS
  <2> HIDE DEF split, ftsoSplit
  <2> QED BY <1>2, <2>1, SplitsAddUp
<1>4. split.signing.claimBack \in To /\ split.finalization.claimBack \in To
  <2>1. split.signing.claimBack = offer.claimBack /\ split.finalization.claimBack = offer.claimBack
    BY <1>2 DEF SplitFdcOffer
  <2> HIDE DEF split
  <2> QED BY <1>2, <2>1
<1> HIDE DEF split
<1>5. Pays(To, B, split.signing.amount)
  <2> DEFINE signers == fdc.signers
             bitVote == fdc.consensus
             first == data.first
  <2> HIDE DEF signers, bitVote, first
  <2>1. Pays(To, FdcSigningClaims(policy, split.signing, 0, signers, first, bitVote), split.signing.amount)
    BY <1>3, <1>4, FdcSigningPays
  <2> QED BY <2>1 DEF signers, bitVote, first
<1>6. Pays(To, C, split.finalization.amount)
  <2>1. PICK R : data.finalizations \in Seq(R)
    BY DEF FinalizedBy
  <2>2. /\ data.first # Empty => <<"signing", data.first.sender>> \in To
        /\ SendersDistinct(data.finalizations)
    BY DEF FinalizedBy
  <2> QED BY <1>3, <1>4, <2>1, <2>2, FinalizationPays
<1>7. Pays(To, D, 0)
  BY <1>2, PenaltiesPay
<1> HIDE DEF B, C, D
<1> DEFINE y == split.signing.amount
           z == split.finalization.amount
<1> HIDE DEF y, z
<1>8. Pays(To, C \o B, z + y)
  BY <1>5, <1>6, PaysConcat DEF y, z
<1>9. Pays(To, C \o B \o D, z + y + 0)
  BY <1>7, <1>8, PaysConcat
<1>10. z + y + 0 = fdcOffer.amount
  BY <1>2, <1>3 DEF y, z
<1>11. Pays(To, ClaimBack(offer, offer.amount), fdcOffer.amount)
  <2>1. offer.amount \in Int /\ offer.amount >= 0 /\ offer.claimBack \in To
    BY <1>2
  <2> QED BY <1>2, <2>1, BackPays
<1> QED BY <1>1, <1>9, <1>10, <1>11

\* The claims of a round pay all that was offered.
LEMMA RoundPays ==
    ASSUME WellFormed(scenario), NEW txs, txs \in Seq(ToSet(txs)),
           NEW To, To = Beneficiaries(scenario, txs)
    PROVE  Pays(To, RoundClaims(txs), Offered)
<1> DEFINE ftso == ProtocolData(txs, Ftso)
           data == ProtocolData(txs, Fdc)
           fdc == FdcData(txs)
           F == FtsoPieces(ftso)
           U == FastUpdatePieces
           D == FdcPieces(data, fdc)
           x == Amount(scenario.ftsoOffers)
           y == Amount(scenario.updateOffers)
           z == Amount(scenario.fdcOffers)
<1>1. RoundClaims(txs) = AddPieces(F \o U \o D)
  BY DEF RoundClaims, AddPieces
<1>2. FinalizedBy(To, ftso) /\ FinalizedBy(To, data)
  BY DataFinalized
<1>3. /\ policy \in Seq(Voters) /\ HasAddresses(To, Len(policy)) /\ BurnAddress \in To
      /\ scenario.finalizers \in SUBSET DOMAIN policy
      /\ scenario.updates # Empty => scenario.updates.submitted \in Seq(DOMAIN policy)
  BY ScenarioHas
<1>4. /\ \A o \in ToSet(scenario.ftsoOffers) : "primaryShare" \in DOMAIN o /\ o.primaryShare \in 0..TotalPpm
      /\ \A offers \in {scenario.ftsoOffers, scenario.updateOffers, scenario.fdcOffers} :
            /\ offers \in Seq(ToSet(offers))
            /\ \A o \in ToSet(offers) : /\ {"amount", "claimBack"} \subseteq DOMAIN o
                                        /\ o.amount \in Nat /\ o.claimBack \in To
  BY ScenarioHas
<1> HIDE DEF ftso, data, fdc
<1>5. PiecesPay(To, F, x) /\ x \in Int
  <2> DEFINE offers == scenario.ftsoOffers
  <2>1. /\ offers \in Seq(ToSet(offers))
        /\ \A o \in ToSet(offers) : /\ {"amount", "claimBack"} \subseteq DOMAIN o
                                    /\ o.amount \in Nat /\ o.claimBack \in To
                                    /\ "primaryShare" \in DOMAIN o /\ o.primaryShare \in 0..TotalPpm
    BY <1>4
  <2>2. F = [i \in DOMAIN offers |-> F[i]] /\ \A i \in DOMAIN offers : F[i].claims = FtsoOfferClaims(offers[i], ftso)
    BY DEF FtsoPieces
  <2> HIDE DEF offers, F
  <2>3. ASSUME NEW i \in DOMAIN offers PROVE Pays(To, F[i].claims, offers[i].amount)
    <3> DEFINE o == offers[i]
    <3>1. o \in ToSet(offers)
      BY DEF ToSet
    <3>2. F[i].claims = FtsoOfferClaims(o, ftso)
      BY <2>2
    <3> HIDE DEF o
    <3>3. Pays(To, FtsoOfferClaims(o, ftso), o.amount)
      BY <1>2, <1>3, <2>1, <3>1, FtsoOfferPays
    <3> QED BY <3>2, <3>3 DEF o
  <2>4. offers \in Seq(ToSet(offers)) /\ \A o \in ToSet(offers) : o.amount \in Int
    BY <2>1
  <2>5. F = [i \in DOMAIN offers |-> F[i]] /\ \A i \in DOMAIN offers : Pays(To, F[i].claims, offers[i].amount)
    BY <2>2, <2>3
  <2>6. PiecesPay(To, F, Amount(offers)) /\ Amount(offers) \in Int
    BY <2>4, <2>5, OffersPay
  <2> QED BY <2>6 DEF offers
<1>6. PiecesPay(To, U, y) /\ y \in Int
  <2> DEFINE offers == scenario.updateOffers
  <2>1. /\ offers \in Seq(ToSet(offers))
        /\ \A o \in ToSet(offers) : o.amount \in Nat
    BY <1>4
  <2>2. U = [i \in DOMAIN offers |-> U[i]] /\ \A i \in DOMAIN offers : U[i].claims = FastUpdateOfferClaims(offers[i])
    BY DEF FastUpdatePieces
  <2> HIDE DEF offers, U
  <2>3. ASSUME NEW i \in DOMAIN offers PROVE Pays(To, U[i].claims, offers[i].amount)
    <3> DEFINE o == offers[i]
    <3>1. o \in ToSet(offers)
      BY DEF ToSet
    <3>2. U[i].claims = FastUpdateOfferClaims(o)
      BY <2>2
    <3> HIDE DEF o
    <3>3. Pays(To, FastUpdateOfferClaims(o), o.amount)
      BY <1>3, <2>1, <3>1, UpdateOfferPays
    <3> QED BY <3>2, <3>3 DEF o
  <2>4. offers \in Seq(ToSet(offers)) /\ \A o \in ToSet(offers) : o.amount \in Int
    BY <2>1
  <2>5. U = [i \in DOMAIN offers |-> U[i]] /\ \A i \in DOMAIN offers : Pays(To, U[i].claims, offers[i].amount)
    BY <2>2, <2>3
  <2>6. PiecesPay(To, U, Amount(offers)) /\ Amount(offers) \in Int
    BY <2>4, <2>5, OffersPay
  <2> QED BY <2>6 DEF offers
<1>7. PiecesPay(To, D, z) /\ z \in Int
  <2> DEFINE offers == scenario.fdcOffers
  <2>1. /\ offers \in Seq(ToSet(offers))
        /\ \A o \in ToSet(offers) : /\ {"amount", "claimBack"} \subseteq DOMAIN o
                                    /\ o.amount \in Nat
    BY <1>4
  <2>2. D = [i \in DOMAIN offers |-> D[i]] /\ \A i \in DOMAIN offers : D[i].claims = FdcOfferClaims(offers[i], data, fdc)
    BY DEF FdcPieces
  <2> HIDE DEF offers, D
  <2>3. ASSUME NEW i \in DOMAIN offers PROVE Pays(To, D[i].claims, offers[i].amount)
    <3> DEFINE o == offers[i]
    <3>1. o \in ToSet(offers)
      BY DEF ToSet
    <3>2. D[i].claims = FdcOfferClaims(o, data, fdc)
      BY <2>2
    <3> HIDE DEF o
    <3>3. Pays(To, FdcOfferClaims(o, data, fdc), o.amount)
      BY <1>2, <1>3, <2>1, <3>1, FdcOfferPays
    <3> QED BY <3>2, <3>3 DEF o
  <2>4. offers \in Seq(ToSet(offers)) /\ \A o \in ToSet(offers) : o.amount \in Int
    BY <2>1
  <2>5. D = [i \in DOMAIN offers |-> D[i]] /\ \A i \in DOMAIN offers : Pays(To, D[i].claims, offers[i].amount)
    BY <2>2, <2>3
  <2>6. PiecesPay(To, D, Amount(offers)) /\ Amount(offers) \in Int
    BY <2>4, <2>5, OffersPay
  <2> QED BY <2>6 DEF offers
<1> HIDE DEF F, U, D, x, y, z
<1>8. PiecesPay(To, F \o U, x + y)
  BY <1>5, <1>6, PiecesConcat
<1>9. PiecesPay(To, F \o U \o D, x + y + z)
  BY <1>7, <1>8, PiecesConcat
<1>10. Offered = x + y + z
  BY DEF Offered, x, y, z
<1> QED BY <1>1, <1>9, <1>10, AddedPays

\* OffersPaidOut, of a well-formed scenario whatever was sent.
LEMMA PaidOut ==
    ASSUME WellFormed(scenario), sent \in Seq(ToSet(sent))
    PROVE  OffersPaidOut
<1> DEFINE To == Beneficiaries(scenario, sent)
           claims == RoundClaims(sent)
<1>1. Pays(To, claims, Offered)
  BY RoundPays
<1> HIDE DEF To, claims
<1>2. claims \in Seq(ClaimsTo(To)) /\ Weigh(GainsOf(ClaimsTo(To)), claims) = Offered
  BY <1>1 DEF Pays
<1>3. Amount(Positive(claims)) = Offered
  BY <1>2, PositiveIs
<1> QED BY <1>3 DEF OffersPaidOut, claims

\* Once penalties are burnt too.
LEMMA PenaltiesAreBurnt ==
    ASSUME WellFormed(scenario), sent \in Seq(ToSet(sent))
    PROVE  PenaltiesBurnt
<1> DEFINE To == Beneficiaries(scenario, sent)
           R == ClaimsTo(To)
           claims == RoundClaims(sent)
           merged == Merge(claims)
<1>1. Pays(To, claims, Offered) /\ BurnAddress \in To
  BY RoundPays, ScenarioHas
<1> HIDE DEF To, claims
<1>2. claims \in Seq(R) /\ Weigh(GainsOf(R), claims) = Offered
  BY <1>1 DEF Pays
<1>3. merged \in MergedTo(To)
  BY <1>2, MergeKeeps
<1>4. Weigh(GainsOf(R), merged) = Offered
  <2>1. GainsOf(R) \in [R -> Int] /\ Additive(GainsOf(R), To)
    BY WeightsKept
  <2> QED BY <1>2, <2>1, WeighMerge
<1>5. merged \in Seq(R)
  BY <1>3 DEF MergedTo
<1> HIDE DEF merged
<1>6. Amount(Positive(merged)) = Offered
  BY <1>4, <1>5, PositiveIs
<1>7. /\ ~BurnThrows(merged) /\ MergeWithBurn(merged) \in MergedTo(To)
      /\ Amount(MergeWithBurn(merged)) = Offered
      /\ \A i \in DOMAIN MergeWithBurn(merged) : MergeWithBurn(merged)[i].amount >= 0
  BY <1>1, <1>3, <1>6, BurntAndMerged
<1>8. \A c \in ToSet(MergeWithBurn(merged)) : c.amount >= 0
  BY <1>7 DEF ToSet
<1> QED BY <1>7, <1>8 DEF PenaltiesBurnt, merged, claims

-----------------------------------------------------------------------------
(* One more transaction *)

\* What is picked of a list with one more element.
LEMMA PickedAppend ==
    ASSUME NEW R, NEW list \in Seq(R), NEW x \in R, NEW old, NEW new,
           \A i \in 1..Len(list) : i \in new <=> i \in old
    PROVE  Picked(Append(list, x), new)
              = IF Len(list) + 1 \in new THEN Append(Picked(list, old), x) ELSE Picked(list, old)
<1> DEFINE n == Len(list)
           longer == Append(list, x)
<1>1. n \in Nat /\ longer \in Seq(R) /\ Len(longer) = n + 1 /\ longer[n + 1] = x
      /\ \A i \in 1..n : longer[i] = list[i]
  OBVIOUS
<1> HIDE DEF longer
<1>2. PICK v \in [0..n -> Seq(R)] : PickSteps(v, list, old) /\ Picked(list, old) = v[n]
  BY PickedSteps
<1>3. PICK w \in [0..Len(longer) -> Seq(R)] :
         PickSteps(w, longer, new) /\ Picked(longer, new) = w[Len(longer)]
  BY <1>1, PickedSteps
<1>4. /\ v[0] = <<>> /\ \A k \in 1..n : v[k] = IF k \in old THEN Append(v[k - 1], list[k]) ELSE v[k - 1]
      /\ w[0] = <<>>
      /\ \A k \in 1..(n + 1) : w[k] = IF k \in new THEN Append(w[k - 1], longer[k]) ELSE w[k - 1]
  BY <1>1, <1>2, <1>3 DEF PickSteps
<1> DEFINE T == {k \in 0..n : w[k] = v[k]}
<1>5. 0 \in T
  BY <1>1, <1>4
<1>6. ASSUME NEW k \in 1..n, k - 1 \in T
      PROVE  k \in T
  <2>1. k \in 0..n /\ k \in 1..(n + 1) /\ (k \in new <=> k \in old) /\ longer[k] = list[k]
    BY <1>1
  <2>2. w[k - 1] = v[k - 1]
    BY <1>6
  <2>3. w[k] = v[k]
    BY <1>4, <2>1, <2>2
  <2> QED BY <2>1, <2>3
<1>7. n \in T
  <2> HIDE DEF T, n
  <2>1. \A k \in 0..n : k \in T
    BY <1>1, <1>5, <1>6, StepByStep
  <2> QED BY <1>1, <2>1
<1>8. w[n] = v[n]
  BY <1>7
<1>9. n + 1 \in 1..(n + 1) /\ (n + 1) - 1 = n
  BY <1>1
<1>10. w[n + 1] = IF n + 1 \in new THEN Append(w[n], x) ELSE w[n]
  BY <1>1, <1>4, <1>9
<1> QED BY <1>1, <1>2, <1>3, <1>8, <1>10 DEF longer

\* A list that stays, or has this element more.
AddsAtMost(new, old, x) == new = old \/ new = Append(old, x)

\* What tests pick of such a list.
LEMMA SelectAdds ==
    ASSUME NEW R, NEW old \in Seq(R), NEW x \in R, NEW new, AddsAtMost(new, old, x), NEW good,
           NEW olds, olds = {i \in DOMAIN old : old[i] \in good},
           NEW news, news = {i \in DOMAIN new : new[i] \in good}
    PROVE  /\ AddsAtMost(Picked(new, news), Picked(old, olds), x)
           /\ x \notin good => Picked(new, news) = Picked(old, olds)
           /\ Picked(old, olds) \in Seq(R)
<1>1. Picked(old, olds) \in Seq(R)
  BY PickedElements
<1>2. CASE new = old
  BY <1>1, <1>2 DEF AddsAtMost
<1>3. CASE new = Append(old, x)
  <2>1. /\ DOMAIN old = 1..Len(old) /\ DOMAIN new = 1..(Len(old) + 1) /\ Len(old) \in Nat
        /\ new[Len(old) + 1] = x /\ \A i \in 1..Len(old) : new[i] = old[i]
    BY <1>3
  <2>2. \A i \in 1..Len(old) : i \in news <=> i \in olds
    BY <2>1
  <2>3. Len(old) + 1 \in news <=> x \in good
    BY <2>1
  <2>4. Picked(Append(old, x), news)
           = IF Len(old) + 1 \in news THEN Append(Picked(old, olds), x) ELSE Picked(old, olds)
    BY <2>2, PickedAppend
  <2> QED BY <1>1, <1>3, <2>3, <2>4 DEF AddsAtMost
<1> QED BY <1>2, <1>3 DEF AddsAtMost

\* The first of each sender.
LEMMA FirstAdds ==
    ASSUME NEW R, NEW old \in Seq(R), NEW x \in R, NEW new, AddsAtMost(new, old, x)
    PROVE  AddsAtMost(FirstOfSender(new), FirstOfSender(old), x) /\ FirstOfSender(old) \in Seq(R)
<1> DEFINE olds == {i \in DOMAIN old : \A j \in 1..(i - 1) : old[j].sender # old[i].sender}
           news == {i \in DOMAIN new : \A j \in 1..(i - 1) : new[j].sender # new[i].sender}
<1>0. FirstOfSender(old) = Picked(old, olds) /\ FirstOfSender(new) = Picked(new, news)
  BY DEF FirstOfSender
<1>1. Picked(old, olds) \in Seq(R)
  <2> HIDE DEF olds
  <2> QED BY PickedElements
<1>2. CASE new = old
  BY <1>0, <1>1, <1>2 DEF AddsAtMost
<1>3. CASE new = Append(old, x)
  <2>1. /\ DOMAIN old = 1..Len(old) /\ DOMAIN new = 1..(Len(old) + 1) /\ Len(old) \in Nat
        /\ \A i \in 1..Len(old) : new[i] = old[i]
    BY <1>3
  <2>2. ASSUME NEW i \in 1..Len(old) PROVE i \in news <=> i \in olds
    <3>1. \A j \in 1..(i - 1) : new[j] = old[j]
      BY <2>1
    <3>2. i \in DOMAIN old /\ i \in DOMAIN new /\ new[i] = old[i]
      BY <2>1
    <3> QED BY <3>1, <3>2
  <2> HIDE DEF news, olds
  <2>4. Picked(Append(old, x), news)
           = IF Len(old) + 1 \in news THEN Append(Picked(old, olds), x) ELSE Picked(old, olds)
    BY <2>2, PickedAppend
  <2> QED BY <1>0, <1>1, <1>3, <2>4 DEF AddsAtMost
<1> QED BY <1>2, <1>3 DEF AddsAtMost

\* The window of a round on a chain with one more transaction.
LEMMA WindowAdds ==
    ASSUME NEW R, NEW txs \in Seq(R), NEW x \in R, NEW kind
    PROVE  /\ AddsAtMost(WindowOf(Append(txs, x), kind, 0), WindowOf(txs, kind, 0), x)
           /\ WindowOf(txs, kind, 0) \in Seq(R)
           /\ ~(x.time <= WindowEnd(0)) => WindowOf(Append(txs, x), kind, 0) = WindowOf(txs, kind, 0)
<1> DEFINE In(tx) == tx.kind = kind /\ tx.time >= WindowStart(0) /\ tx.time <= WindowEnd(0)
           new == Append(txs, x)
           good == {tx \in R : In(tx)}
           olds == {i \in DOMAIN txs : txs[i] \in good}
           news == {i \in DOMAIN new : new[i] \in good}
<1>1. new \in Seq(R)
  OBVIOUS
<1>2. /\ olds = {i \in DOMAIN txs : In(txs[i])}
      /\ news = {i \in DOMAIN new : In(new[i])}
  <2> HIDE DEF In, new
  <2> QED BY <1>1
<1>3. WindowOf(txs, kind, 0) = Picked(txs, olds) /\ WindowOf(new, kind, 0) = Picked(new, news)
  <2> HIDE DEF olds, news, new
  <2> QED BY <1>2 DEF WindowOf, InRange, Select
<1>4. ~(x.time <= WindowEnd(0)) => x \notin good
  OBVIOUS
<1> HIDE DEF good
<1>5. AddsAtMost(new, txs, x)
  BY DEF AddsAtMost
<1> HIDE DEF new
<1>6. PICK o, w : o = olds /\ w = news
  OBVIOUS
<1>7. /\ AddsAtMost(Picked(new, w), Picked(txs, o), x)
      /\ x \notin good => Picked(new, w) = Picked(txs, o)
      /\ Picked(txs, o) \in Seq(R)
  <2> HIDE DEF In
  <2> QED BY <1>5, <1>6, SelectAdds
<1> HIDE DEF olds, news
<1> QED BY <1>3, <1>4, <1>6, <1>7 DEF new

\* What comes after the window changes nothing.
LEMMA LateIgnored ==
    ASSUME NEW R, NEW txs \in Seq(R), NEW x \in R, ~(x.time <= WindowEnd(0)),
           NEW new, new = Append(txs, x)
    PROVE  RoundClaims(new) = RoundClaims(txs) /\ (RoundThrows(new) <=> RoundThrows(txs))
<1>1. \A kind : WindowOf(new, kind, 0) = WindowOf(txs, kind, 0)
  BY WindowAdds
<1>2. \A protocol : ProtocolData(new, protocol) = ProtocolData(txs, protocol)
  <2> SUFFICES ASSUME NEW protocol PROVE ProtocolData(new, protocol) = ProtocolData(txs, protocol)
    OBVIOUS
  <2>1. /\ WindowOf(new, "finalize", 0) = WindowOf(txs, "finalize", 0)
        /\ WindowOf(new, "sign", 0) = WindowOf(txs, "sign", 0)
    BY <1>1
  <2> QED BY <2>1 DEF ProtocolData
<1>3. FdcData(new) = FdcData(txs)
  <2>1. ProtocolData(new, Fdc) = ProtocolData(txs, Fdc)
    BY <1>2
  <2> QED BY <2>1 DEF FdcData
<1>4. RoundClaims(new) = RoundClaims(txs)
  <2>1. \A ys : RoundClaims(ys) = AddPieces(FtsoPieces(ProtocolData(ys, Ftso)) \o FastUpdatePieces
                                            \o FdcPieces(ProtocolData(ys, Fdc), FdcData(ys)))
    BY DEF RoundClaims, AddPieces
  <2>2. ProtocolData(new, Ftso) = ProtocolData(txs, Ftso) /\ ProtocolData(new, Fdc) = ProtocolData(txs, Fdc)
    BY <1>2
  <2>3. /\ RoundClaims(new) = AddPieces(FtsoPieces(ProtocolData(new, Ftso)) \o FastUpdatePieces
                                        \o FdcPieces(ProtocolData(new, Fdc), FdcData(new)))
        /\ RoundClaims(txs) = AddPieces(FtsoPieces(ProtocolData(txs, Ftso)) \o FastUpdatePieces
                                        \o FdcPieces(ProtocolData(txs, Fdc), FdcData(txs)))
    BY <2>1
  <2> QED BY <1>3, <2>2, <2>3
<1>5. RoundThrows(new) <=> RoundThrows(txs)
  <2>1. ProtocolData(new, Ftso) = ProtocolData(txs, Ftso) /\ ProtocolData(new, Fdc) = ProtocolData(txs, Fdc)
    BY <1>2
  <2> QED BY <1>3, <2>1 DEF RoundThrows, FdcDataThrows
<1> QED BY <1>4, <1>5

\* The finalizations of a protocol on a chain with one more transaction: the
\* first to succeed stays so.
LEMMA FinalizationsAdd ==
    ASSUME NEW R, NEW txs \in Seq(R), NEW x \in R, NEW protocol,
           NEW old, old = ProtocolData(txs, protocol),
           NEW new, new = ProtocolData(Append(txs, x), protocol)
    PROVE  /\ AddsAtMost(new.finalizations, old.finalizations, x)
           /\ old.finalizations \in Seq(R)
           /\ old.first # Empty => new.first = old.first
<1> DEFINE longer == Append(txs, x)
           w == WindowOf(txs, "finalize", 0)
           v == WindowOf(longer, "finalize", 0)
           Counts(tx) == tx.round = 0 /\ tx.protocol = protocol /\ tx.epoch = PolicyEpoch /\ tx.valid
           good == {tx \in R : Counts(tx)}
           ws == {i \in DOMAIN w : w[i] \in good}
           vs == {i \in DOMAIN v : v[i] \in good}
           p == Picked(w, ws)
           q == Picked(v, vs)
           f == FirstOfSender(p)
           g == FirstOfSender(q)
           done_ == {tx \in R : tx.successfulOnChain}
           fs == {i \in DOMAIN f : f[i] \in done_}
           gs == {i \in DOMAIN g : g[i] \in done_}
           s == Picked(f, fs)
           t == Picked(g, gs)
<1>1. AddsAtMost(v, w, x) /\ w \in Seq(R) /\ v \in Seq(R)
  <2>1. AddsAtMost(v, w, x) /\ w \in Seq(R)
    BY WindowAdds
  <2> HIDE DEF v, w
  <2> QED BY <2>1 DEF AddsAtMost
<1> HIDE DEF v, w
<1>2. ExtractFinalizations(w, 0, PolicyEpoch, protocol) = f /\ ExtractFinalizations(v, 0, PolicyEpoch, protocol) = g
  <2>1. /\ ws = {i \in DOMAIN w : Counts(w[i])}
        /\ vs = {i \in DOMAIN v : Counts(v[i])}
    <3> HIDE DEF Counts
    <3> QED BY <1>1
  <2> HIDE DEF ws, vs
  <2> QED BY <2>1 DEF ExtractFinalizations, Select
<1>3. AddsAtMost(q, p, x) /\ p \in Seq(R)
  <2> HIDE DEF good
  <2> QED BY <1>1, SelectAdds
<1> HIDE DEF p, q, good
<1>4. AddsAtMost(g, f, x) /\ f \in Seq(R)
  BY <1>3, FirstAdds
<1> HIDE DEF f, g
<1>5. g \in Seq(R)
  BY <1>4 DEF AddsAtMost
<1>6. AddsAtMost(t, s, x) /\ s \in Seq(R)
  <2> HIDE DEF done_
  <2> QED BY <1>4, SelectAdds
<1>7. /\ FirstSuccessful(f) = IF s = <<>> THEN Empty ELSE s[1]
      /\ FirstSuccessful(g) = IF t = <<>> THEN Empty ELSE t[1]
  <2>1. /\ fs = {i \in DOMAIN f : f[i].successfulOnChain}
        /\ gs = {i \in DOMAIN g : g[i].successfulOnChain}
    BY <1>4, <1>5
  <2> HIDE DEF fs, gs
  <2> QED BY <2>1 DEF FirstSuccessful, Select
<1> HIDE DEF s, t
<1>8. s # <<>> => t # <<>> /\ t[1] = s[1]
  BY <1>6 DEF AddsAtMost
<1>9. /\ old.finalizations = f /\ old.first = FirstSuccessful(f)
      /\ new.finalizations = g /\ new.first = FirstSuccessful(g)
  <2>1. /\ old.finalizations = ExtractFinalizations(w, 0, PolicyEpoch, protocol)
        /\ old.first = FirstSuccessful(ExtractFinalizations(w, 0, PolicyEpoch, protocol))
    BY DEF ProtocolData, w
  <2>2. /\ new.finalizations = ExtractFinalizations(v, 0, PolicyEpoch, protocol)
        /\ new.first = FirstSuccessful(ExtractFinalizations(v, 0, PolicyEpoch, protocol))
    BY DEF ProtocolData, v
  <2> QED BY <1>2, <2>1, <2>2
<1> QED BY <1>4, <1>7, <1>8, <1>9

-----------------------------------------------------------------------------
(* What finalizers are paid *)

\* The addresses of a voter are among these.
HasOwn(To, v) ==
    /\ <<"identity", v>> \in To /\ <<"delegation", v>> \in To
    /\ \A i \in Nat : <<"node", v, i>> \in To

\* Claims of an amount's sign.
SignedTo(To, a) ==
    {c \in ClaimsTo(To) : (a >= 0 => c.amount >= 0) /\ (a <= 0 => c.amount <= 0)}

\* The split of an amount gives nobody but the voter, or the one the offer goes
\* back to, anything, and nothing of another sign.
LEMMA SplitSigns ==
    ASSUME NEW To, NEW pol \in Seq(Voters), NEW v \in DOMAIN pol, HasOwn(To, v),
           NEW offer, offer.claimBack \in To, NEW a \in Int
    PROVE  SigningSplit(pol, v, offer, a) \in Seq(SignedTo(To, a))
<1> DEFINE nodes == pol[v].nodes
           staked == SumFunction(nodes)
           total == pol[v].delegation + staked
           sA == Quot(a * staked, total)
           dA == a - sA
           cap == Min({StakingFeeCap, pol[v].fee})
           dF == Quot(dA * pol[v].fee, TotalBips)
           sF == Quot(sA * cap, TotalBips)
           given == Shares(nodes, sA - sF)
           A == IF dF + sF # 0 THEN <<Claim(<<"identity", v>>, "FEE", dF + sF)>> ELSE <<>>
           B == <<Claim(<<"delegation", v>>, "WNAT", dA - dF)>>
           C == [i \in DOMAIN nodes |-> Claim(<<"node", v, i>>, "MIRROR", given[i])]
           R == SignedTo(To, a)
           Signed(x) == x \in Int /\ (a >= 0 => x >= 0) /\ (a <= 0 => x <= 0)
<1>1. /\ pol[v].delegation \in Nat /\ nodes \in Seq(Nat) /\ pol[v].fee \in 0..TotalBips
      /\ v \in 1..Len(pol) /\ Len(pol) \in Nat
  <2>1. pol[v] \in Voters /\ v \in 1..Len(pol) /\ Len(pol) \in Nat
    OBVIOUS
  <2> QED BY <2>1 DEF Voters
<1>2. staked \in Nat
  BY <1>1, WeightsLeft
<1>3. TotalBips \in Nat \ {0} /\ StakingFeeCap \in 0..TotalBips
  BY SharesAssumption
<1>4. SigningSplit(pol, v, offer, a) = IF total = 0 THEN ClaimBack(offer, a) ELSE A \o B \o C
  BY DEF SigningSplit
<1>5. ASSUME NEW to \in To, NEW type \in {"FEE", "WNAT", "DIRECT", "MIRROR"}, NEW x, Signed(x)
      PROVE  Claim(to, type, x) \in R
  <2>1. type \in ClaimTypes
    BY DEF ClaimTypes
  <2>2. Claim(to, type, x) \in ClaimsTo(To) /\ Claim(to, type, x).amount = x
    BY <1>5, <2>1 DEF Claim, ClaimsTo
  <2> QED BY <1>5, <2>2 DEF SignedTo
<1>6. cap \in 0..TotalBips
  <2> DEFINE S == {StakingFeeCap, pol[v].fee}
  <2>1. S \in SUBSET Nat /\ S # {} /\ \A x \in S : x \in 0..TotalBips
    BY <1>1, <1>3
  <2>2. Min(S) \in S
    <3> HIDE DEF S
    <3> QED BY <2>1, MinOfNaturals
  <2> QED BY <2>1, <2>2
<1>7. CASE total = 0
  <2>1. ClaimBack(offer, a) = <<Claim(offer.claimBack, "DIRECT", a)>>
    BY DEF ClaimBack
  <2>2. Claim(offer.claimBack, "DIRECT", a) \in R
    <3>1. Signed(a)
      OBVIOUS
    <3> HIDE DEF Signed, R
    <3> QED BY <1>5, <3>1
  <2> HIDE DEF R
  <2>3. ClaimBack(offer, a) \in Seq(R)
    BY <2>1, <2>2
  <2> HIDE DEF A, B, C
  <2> QED BY <1>4, <1>7, <2>3 DEF R
<1>8. CASE total # 0
  <2>0. total \in Nat \ {0} /\ staked <= total
    BY <1>1, <1>2, <1>8
  <2>1. PortionFor(sA, staked, a, total)
    <3> HIDE DEF total, staked
    <3> QED BY <1>2, <2>0, QuotOf
  <2>2. sA \in Int /\ dA \in Int
    BY <2>1 DEF PortionFor
  <2>3. PortionFor(dF, pol[v].fee, dA, TotalBips)
    <3> DEFINE f == pol[v].fee
    <3>1. f \in Nat /\ f <= TotalBips /\ dA \in Int
      BY <1>1, <2>2
    <3> HIDE DEF f, dA
    <3>2. PortionFor(Quot(dA * f, TotalBips), f, dA, TotalBips)
      BY <1>3, <3>1, QuotOf
    <3> QED BY <3>2 DEF f
  <2>4. PortionFor(sF, cap, sA, TotalBips)
    <3>1. cap \in Nat /\ cap <= TotalBips /\ sA \in Int
      BY <1>6, <2>2
    <3> HIDE DEF cap, sA
    <3>2. PortionFor(Quot(sA * cap, TotalBips), cap, sA, TotalBips)
      BY <1>3, <3>1, QuotOf
    <3> QED BY <3>2
  <2>5. dF \in Int /\ sF \in Int
    BY <2>3, <2>4 DEF PortionFor
  <2> HIDE DEF dF, sF, dA, sA, cap, total, nodes
  <2>6. dA = a - sA
    BY DEF dA
  <2>7. SharedOut(given, nodes, sA - sF)
    <3>1. sA - sF \in Int
      BY <2>2, <2>5
    <3> QED BY <1>1, <3>1, SharesGive
  <2>8. Signed(dF + sF) /\ Signed(dA - dF) /\ Signed(sA - sF)
    <3>1. CASE a >= 0
      <4>1. sA >= 0 /\ sA <= a
        BY <2>1, <3>1 DEF PortionFor
      <4>2. dA >= 0
        BY <2>2, <2>6, <4>1
      <4>3. dF >= 0 /\ dF <= dA /\ sF >= 0 /\ sF <= sA
        BY <2>3, <2>4, <4>1, <4>2 DEF PortionFor
      <4>4. a = 0 => sA = 0 /\ dA = 0 /\ dF = 0 /\ sF = 0
        BY <2>2, <2>5, <2>6, <4>1, <4>2, <4>3
      <4> QED BY <2>2, <2>5, <2>6, <3>1, <4>1, <4>2, <4>3, <4>4
    <3>2. CASE a < 0
      <4>1. sA <= 0 /\ a <= sA
        BY <2>1, <3>2 DEF PortionFor
      <4>2. dA <= 0
        BY <2>2, <2>6, <4>1
      <4>3. dF <= 0 /\ dA <= dF /\ sF <= 0 /\ sA <= sF
        BY <2>3, <2>4, <4>1, <4>2 DEF PortionFor
      <4> QED BY <2>2, <2>5, <2>6, <3>2, <4>1, <4>2, <4>3
    <3> QED BY <3>1, <3>2
  <2>9. ASSUME NEW i \in DOMAIN nodes PROVE Signed(given[i])
    <3>1. given[i] \in Int /\ (sA - sF >= 0 => given[i] >= 0) /\ (sA - sF <= 0 => given[i] <= 0)
      <4>1. given \in Seq(Int) /\ DOMAIN given = 1..Len(nodes) /\ DOMAIN nodes = 1..Len(nodes)
        BY <1>1, <2>7 DEF SharedOut
      <4> HIDE DEF given
      <4> QED BY <2>7, <4>1 DEF SharedOut
    <3> HIDE DEF given
    <3> QED BY <2>8, <3>1
  <2> HIDE DEF given, Signed, R
  <2>10. C \in Seq(R)
    <3>1. ASSUME NEW i \in DOMAIN nodes PROVE Claim(<<"node", v, i>>, "MIRROR", given[i]) \in R
      <4>1. i \in Nat
        BY <1>1
      <4>2. <<"node", v, i>> \in To
        BY <4>1 DEF HasOwn
      <4> QED BY <1>5, <2>9, <4>2
    <3>2. DOMAIN nodes = 1..Len(nodes) /\ Len(nodes) \in Nat
      BY <1>1
    <3> QED BY <3>1, <3>2
  <2>11. B \in Seq(R)
    <3>1. Claim(<<"delegation", v>>, "WNAT", dA - dF) \in R
      BY <1>5, <2>8 DEF HasOwn
    <3> QED BY <3>1
  <2>12. A \in Seq(R)
    <3>1. Claim(<<"identity", v>>, "FEE", dF + sF) \in R
      BY <1>5, <2>8 DEF HasOwn
    <3> QED BY <3>1
  <2> HIDE DEF A, B, C
  <2>13. (A \o B) \o C \in Seq(R)
    BY <2>10, <2>11, <2>12
  <2> QED BY <1>4, <1>8, <2>13 DEF total, R
<1> QED BY <1>7, <1>8

-----------------------------------------------------------------------------
\* Claims that take nothing.
GiftsTo(To) == {c \in ClaimsTo(To) : c.amount >= 0}

\* What a voter's addresses get.
PartOf(R, v) == [c \in R |-> IF c.to[2] = v THEN c.amount ELSE 0]

\* They are weights of claims, and of gifts never negative.
LEMMA PartsAre ==
    ASSUME NEW To, NEW v
    PROVE  /\ PartOf(ClaimsTo(To), v) \in [ClaimsTo(To) -> Int]
           /\ PartOf(GiftsTo(To), v) \in [GiftsTo(To) -> Int]
           /\ \A c \in GiftsTo(To) : PartOf(GiftsTo(To), v)[c] >= 0
<1>1. \A c \in ClaimsTo(To) : c.amount \in Int
  BY DEF ClaimsTo
<1>2. GiftsTo(To) \subseteq ClaimsTo(To) /\ \A c \in GiftsTo(To) : c.amount >= 0
  BY DEF GiftsTo
<1> QED BY <1>1, <1>2 DEF PartOf

\* What a voter is paid is what its addresses get.
LEMMA VoterPaid ==
    ASSUME NEW To, NEW list \in Seq(ClaimsTo(To)), NEW v
    PROVE  Amount(Select(list, LAMBDA c : c.to[2] = v)) = Weigh(PartOf(ClaimsTo(To), v), list)
<1> DEFINE R == ClaimsTo(To)
           W == AmountsOf(R)
           V == PartOf(R, v)
           indices == {i \in DOMAIN list : list[i].to[2] = v}
           picked == Picked(list, indices)
<1>1. Select(list, LAMBDA c : c.to[2] = v) = picked
  BY DEF Select
<1>2. W \in [R -> Int] /\ V \in [R -> Int] /\ list \in Seq(R)
  BY WeightsKept, PartsAre
<1>3. OnlyAt(V, W, list, indices)
  <2>1. ASSUME NEW i \in DOMAIN list
        PROVE  V[list[i]] = IF i \in indices THEN W[list[i]] ELSE 0
    <3>1. list[i] \in R
      OBVIOUS
    <3> HIDE DEF R
    <3> QED BY <3>1 DEF PartOf, AmountsOf
  <2> QED BY <2>1 DEF OnlyAt
<1> HIDE DEF R, W, V, indices
<1>4. picked \in Seq(R) /\ Weigh(W, picked) = Weigh(V, list)
  <2>1. picked \in Seq(R)
    BY <1>2, PickedElements
  <2>2. Weigh(W, picked) = Weigh(V, list)
    BY <1>2, <1>3, WeighPicked
  <2> QED BY <2>1, <2>2
<1>5. Amount(picked) = Weigh(W, picked)
  BY <1>4, AmountIs DEF R, W
<1> QED BY <1>1, <1>4, <1>5 DEF R, V

\* Gifts weigh the same among all claims.
LEMMA GiftsWeigh ==
    ASSUME NEW To, NEW list \in Seq(GiftsTo(To)), NEW v
    PROVE  /\ list \in Seq(ClaimsTo(To))
           /\ Weigh(PartOf(ClaimsTo(To), v), list) = Weigh(PartOf(GiftsTo(To), v), list)
           /\ Weigh(PartOf(GiftsTo(To), v), list) \in Int
           /\ Weigh(PartOf(GiftsTo(To), v), list) >= 0
<1> DEFINE R == ClaimsTo(To)
           G == GiftsTo(To)
           W == PartOf(R, v)
           V == PartOf(G, v)
<1>1. G \subseteq R /\ V \in [G -> Int] /\ W \in [R -> Int] /\ \A c \in G : V[c] >= 0
  BY PartsAre DEF GiftsTo
<1>2. \A c \in G : W[c] = V[c]
  BY <1>1 DEF PartOf
<1> HIDE DEF R, G, W, V
<1>3. list \in Seq(G) /\ list \in Seq(R)
  BY <1>1 DEF G
<1>4. Alike(W, list, V, list)
  <2>1. \A i \in DOMAIN list : list[i] \in G
    BY <1>3
  <2> QED BY <1>2, <2>1 DEF Alike
<1>5. Weigh(W, list) = Weigh(V, list)
  <2>1. V \in [G -> Int] /\ list \in Seq(G) /\ Alike(W, list, V, list)
    BY <1>1, <1>3, <1>4
  <2> QED BY <2>1, WeighAlike
<1>6. Weigh(V, list) \in Int
  BY <1>1, <1>3, WeighWhole
<1>7. Weigh(V, list) >= 0
  <2>1. \A i \in DOMAIN list : V[list[i]] >= 0
    BY <1>1, <1>3
  <2> QED BY <1>1, <1>3, <2>1, WeighSign
<1> QED BY <1>3, <1>5, <1>6, <1>7 DEF R, G, W, V

\* The splits of parts among the voters of a list, one for each.
SplitsOf(pol, offer, list, given) ==
    [i \in DOMAIN list |-> SigningSplit(pol, list[i].sender, offer, given[i])]

CanSplit(To, pol, offer, list, given) ==
    /\ offer.claimBack \in To /\ given \in Seq(Nat) /\ Len(list) <= Len(given)
    /\ \A i \in DOMAIN list : list[i].sender \in DOMAIN pol

\* Splits are lists of gifts.
LEMMA SplitsGive ==
    ASSUME NEW To, NEW pol \in Seq(Voters), HasAddresses(To, Len(pol)), NEW offer,
           NEW R, NEW list \in Seq(R), NEW given, CanSplit(To, pol, offer, list, given)
    PROVE  SplitsOf(pol, offer, list, given) \in Seq(Seq(GiftsTo(To)))
<1> DEFINE ss == SplitsOf(pol, offer, list, given)
           n == Len(list)
<1>1. n \in Nat /\ DOMAIN list = 1..n /\ n <= Len(given) /\ Len(given) \in Nat
      /\ \A i \in 1..n : given[i] \in Nat
  BY DEF CanSplit
<1>2. ASSUME NEW i \in 1..n
      PROVE  SigningSplit(pol, list[i].sender, offer, given[i]) \in Seq(GiftsTo(To))
  <2> DEFINE a == given[i]
             u == list[i].sender
  <2>1. a \in Int /\ a >= 0 /\ u \in DOMAIN pol /\ offer.claimBack \in To
    BY <1>1 DEF CanSplit
  <2>2. HasOwn(To, u)
    <3>1. u \in 1..Len(pol)
      BY <2>1
    <3> QED BY <3>1 DEF HasOwn, HasAddresses
  <2>3. SignedTo(To, a) \subseteq GiftsTo(To)
    BY <2>1 DEF SignedTo, GiftsTo
  <2> HIDE DEF a, u
  <2>4. SigningSplit(pol, u, offer, a) \in Seq(SignedTo(To, a))
    BY <2>1, <2>2, SplitSigns
  <2>5. SigningSplit(pol, u, offer, a) \in Seq(GiftsTo(To))
    BY <2>3, <2>4
  <2> QED BY <2>5 DEF a, u
<1> QED BY <1>1, <1>2 DEF SplitsOf

\* One voter more takes nothing from the others.
LEMMA SplitsGrow ==
    ASSUME NEW To, NEW pol \in Seq(Voters), HasAddresses(To, Len(pol)), NEW offer,
           NEW R, NEW list \in Seq(R), NEW x \in R, NEW new, AddsAtMost(new, list, x),
           NEW given, CanSplit(To, pol, offer, new, given), NEW v
    PROVE  Weigh(PartOf(GiftsTo(To), v), FlattenSeq(SplitsOf(pol, offer, new, given)))
              >= Weigh(PartOf(GiftsTo(To), v), FlattenSeq(SplitsOf(pol, offer, list, given)))
<1> DEFINE G == GiftsTo(To)
           V == PartOf(G, v)
           ss == SplitsOf(pol, offer, list, given)
           tt == SplitsOf(pol, offer, new, given)
           F == [s \in Seq(G) |-> Weigh(V, s)]
<1>1. new \in Seq(R)
  BY DEF AddsAtMost
<1>2. CanSplit(To, pol, offer, list, given)
  <2>1. Len(list) <= Len(new) /\ \A i \in DOMAIN list : i \in DOMAIN new /\ new[i] = list[i]
    BY DEF AddsAtMost
  <2>2. Len(list) \in Nat /\ Len(new) \in Nat /\ (given \in Seq(Nat) => Len(given) \in Nat)
    BY <1>1
  <2> QED BY <2>1, <2>2 DEF CanSplit
<1>3. ss \in Seq(Seq(G)) /\ tt \in Seq(Seq(G))
  BY <1>1, <1>2, SplitsGive
<1>4. V \in [G -> Int] /\ \A s \in Seq(G) : Weigh(V, s) \in Int /\ Weigh(V, s) >= 0
  BY PartsAre, GiftsWeigh
<1> HIDE DEF V, G
<1>5. F \in [Seq(G) -> Int] /\ Weigh(V, FlattenSeq(ss)) = Weigh(F, ss) /\ Weigh(V, FlattenSeq(tt)) = Weigh(F, tt)
  BY <1>3, <1>4, WeighFlatten
<1>6. CASE new = list
  <2>1. Weigh(F, ss) \in Int
    BY <1>3, <1>5, WeighWhole
  <2> QED BY <1>5, <1>6, <2>1 DEF V, G
<1>7. CASE new = Append(list, x)
  <2> DEFINE n == Len(list)
             last == tt[n + 1]
  <2>1. /\ n \in Nat /\ DOMAIN list = 1..n /\ DOMAIN new = 1..(n + 1)
        /\ \A i \in 1..n : new[i] = list[i]
    BY <1>7
  <2>2. /\ DOMAIN ss = 1..n /\ DOMAIN tt = 1..(n + 1) /\ \A i \in 1..n : tt[i] = ss[i]
    BY <2>1 DEF SplitsOf
  <2> HIDE DEF ss, tt, n
  <2>3. tt = Append(ss, last) /\ last \in Seq(G)
    BY <1>3, <2>1, <2>2
  <2> HIDE DEF last
  <2>4. Weigh(F, ss) \in Int /\ Weigh(F, Append(ss, last)) = Weigh(F, ss) + F[last]
    <3> HIDE DEF F
    <3> QED BY <1>3, <1>5, <2>3, WeighAppend
  <2>5. F[last] \in Int /\ F[last] >= 0
    BY <1>4, <2>3
  <2> HIDE DEF F
  <2>6. Weigh(F, tt) >= Weigh(F, ss)
    BY <2>3, <2>4, <2>5
  <2> QED BY <1>5, <2>6 DEF V, G, ss, tt
<1> QED BY <1>6, <1>7 DEF AddsAtMost

-----------------------------------------------------------------------------
\* The finalizations that are rewarded, as calculateFinalizationRewardClaims finds
\* them: in the grace period, of the selected, of the eligible.
InGraceOf(fs, round, finalizers) ==
    Picked(fs, {i \in DOMAIN fs : FinalizedInGrace(round, finalizers, fs[i])})

RewardedOf(fs, round, finalizers, eligible) ==
    Picked(InGraceOf(fs, round, finalizers),
           {i \in DOMAIN InGraceOf(fs, round, finalizers) :
               InGraceOf(fs, round, finalizers)[i].sender \in eligible})

GraceParts(finalizers, amount) == Shares([i \in 1..Cardinality(finalizers) |-> 1], amount)

\* One finalization more.
LEMMA RewardedAdds ==
    ASSUME NEW R, NEW old \in Seq(R), NEW x \in R, NEW new, AddsAtMost(new, old, x),
           NEW round, NEW finalizers, NEW eligible
    PROVE  /\ AddsAtMost(RewardedOf(new, round, finalizers, eligible),
                         RewardedOf(old, round, finalizers, eligible), x)
           /\ RewardedOf(old, round, finalizers, eligible) \in Seq(R)
<1> DEFINE good == {f \in R : FinalizedInGrace(round, finalizers, f)}
           olds == {i \in DOMAIN old : old[i] \in good}
           news == {i \in DOMAIN new : new[i] \in good}
           p == Picked(old, olds)
           q == Picked(new, news)
<1>1. new \in Seq(R)
  BY DEF AddsAtMost
<1>2. InGraceOf(old, round, finalizers) = p /\ InGraceOf(new, round, finalizers) = q
  <2>1. /\ olds = {i \in DOMAIN old : FinalizedInGrace(round, finalizers, old[i])}
        /\ news = {i \in DOMAIN new : FinalizedInGrace(round, finalizers, new[i])}
    BY <1>1
  <2> HIDE DEF olds, news
  <2> QED BY <2>1 DEF InGraceOf
<1>3. AddsAtMost(q, p, x) /\ p \in Seq(R)
  <2> HIDE DEF good
  <2> QED BY <1>1, SelectAdds
<1> HIDE DEF p, q, good
<1>4. q \in Seq(R)
  BY <1>3 DEF AddsAtMost
<1> DEFINE best == {f \in R : f.sender \in eligible}
           ps == {i \in DOMAIN p : p[i] \in best}
           qs == {i \in DOMAIN q : q[i] \in best}
<1>5. /\ RewardedOf(old, round, finalizers, eligible) = Picked(p, ps)
      /\ RewardedOf(new, round, finalizers, eligible) = Picked(q, qs)
  <2>1. /\ ps = {i \in DOMAIN p : p[i].sender \in eligible}
        /\ qs = {i \in DOMAIN q : q[i].sender \in eligible}
    BY <1>3, <1>4
  <2> HIDE DEF ps, qs
  <2> QED BY <1>2, <2>1 DEF RewardedOf
<1>6. AddsAtMost(Picked(q, qs), Picked(p, ps), x) /\ Picked(p, ps) \in Seq(R)
  <2> HIDE DEF best
  <2> QED BY <1>3, SelectAdds
<1> QED BY <1>5, <1>6

\* All of the rewarded are selected, and no more than these.
LEMMA RewardedFew ==
    ASSUME NEW R, NEW fs \in Seq(R), SendersDistinct(fs), NEW round, NEW S,
           NEW finalizers \in SUBSET S, IsFiniteSet(S), NEW eligible, NEW amount \in Nat
    PROVE  LET list == RewardedOf(fs, round, finalizers, eligible)
               given == GraceParts(finalizers, amount)
           IN  /\ list \in Seq(R) /\ Len(list) <= Len(given)
               /\ given \in Seq(Nat)
               /\ \A i \in DOMAIN list : list[i].sender \in finalizers
               /\ InGraceOf(fs, round, finalizers) = <<>> => list = <<>>
<1> DEFINE inTime == {i \in DOMAIN fs : FinalizedInGrace(round, finalizers, fs[i])}
           inGrace == Picked(fs, inTime)
           good == {i \in DOMAIN inGrace : inGrace[i].sender \in eligible}
           list == Picked(inGrace, good)
           n == Cardinality(finalizers)
           ones == [i \in 1..n |-> 1]
           given == Shares(ones, amount)
<1>1. /\ InGraceOf(fs, round, finalizers) = inGrace
      /\ RewardedOf(fs, round, finalizers, eligible) = list
      /\ GraceParts(finalizers, amount) = given
  BY DEF InGraceOf, RewardedOf, GraceParts
<1>2. IsFiniteSet(finalizers) /\ n \in Nat
  <2>1. IsFiniteSet(finalizers)
    BY FS_Subset
  <2> QED BY <2>1, FS_CardinalityType
<1>3. /\ inGrace \in Seq(R) /\ SendersDistinct(inGrace)
      /\ \A k \in DOMAIN inGrace : inGrace[k].sender \in finalizers
  <2>1. \A i \in inTime : fs[i].sender \in finalizers
    BY DEF FinalizedInGrace
  <2> HIDE DEF inTime
  <2>2. /\ inGrace \in Seq(R) /\ SendersDistinct(inGrace)
        /\ \A k \in DOMAIN inGrace : \E i \in DOMAIN fs : i \in inTime /\ inGrace[k] = fs[i]
    BY PickedSenders
  <2> HIDE DEF inGrace
  <2> QED BY <2>1, <2>2
<1> HIDE DEF inGrace, inTime
<1>4. /\ list \in Seq(R) /\ SendersDistinct(list)
      /\ \A k \in DOMAIN list : list[k].sender \in finalizers
      /\ inGrace = <<>> => list = <<>>
  <2> HIDE DEF good
  <2>2. /\ list \in Seq(R) /\ SendersDistinct(list)
        /\ \A k \in DOMAIN list : \E i \in DOMAIN inGrace : i \in good /\ list[k] = inGrace[i]
    BY <1>3, PickedSenders
  <2> HIDE DEF list
  <2>3. inGrace = <<>> => list = <<>>
    <3> SUFFICES ASSUME inGrace = <<>> PROVE list = <<>>
      OBVIOUS
    <3>1. DOMAIN inGrace = {}
      OBVIOUS
    <3>2. DOMAIN list = {}
      BY <2>2, <3>1
    <3> QED BY <2>2, <3>2
  <2> QED BY <1>3, <2>2, <2>3
<1> HIDE DEF list, good
<1>5. Len(list) <= n
  BY <1>2, <1>4, FewSenders
<1>6. ones \in Seq(Nat) /\ Len(ones) = n /\ DOMAIN ones = 1..n
  BY <1>2
<1> HIDE DEF n, ones
<1>7. SharedOut(given, ones, amount)
  BY <1>6, SharesGive
<1> HIDE DEF given
<1>8. /\ given \in Seq(Int) /\ Len(given) = n /\ DOMAIN given = 1..n
      /\ \A i \in 1..n : given[i] \in Int /\ given[i] >= 0
  <2>1. /\ given \in Seq(Int) /\ Len(given) = n
        /\ \A i \in DOMAIN ones : amount >= 0 => given[i] >= 0
    BY <1>6, <1>7 DEF SharedOut
  <2>2. amount >= 0
    OBVIOUS
  <2> HIDE DEF given
  <2>3. DOMAIN given = 1..n /\ \A i \in 1..n : given[i] \in Int
    BY <1>2, <1>6, <2>1
  <2> QED BY <1>6, <2>1, <2>2, <2>3
<1>9. given \in Seq(Nat)
  BY <1>2, <1>8
<1> QED BY <1>1, <1>4, <1>5, <1>8, <1>9

\* One element.
LEMMA WeighOne ==
    ASSUME NEW R, NEW W \in [R -> Int], NEW a \in R
    PROVE  <<a>> \in Seq(R) /\ Weigh(W, <<a>>) = W[a]
<1>1. PICK b \in R : b = a
  OBVIOUS
<1>2. <<a>> \in Seq(R) /\ Weigh(W, <<a>>) = W[a] /\ <<a, b>> \in Seq(R)
      /\ Weigh(W, <<a, b>>) = W[a] + W[b]
  BY WeighPair
<1> QED BY <1>2

\* What a voter gets of a list of claims, under any of its addresses.
PaidTo(claims, v) == Amount(Select(claims, LAMBDA c : c.to[2] = v))

\* A voter is paid its splits, and nothing of what goes back to another.
SplitsArePaid(To, pol, offer, round, first, R, fs, finalizers, eligible, v) ==
    LET list == RewardedOf(fs, round, finalizers, eligible)
        given == GraceParts(finalizers, offer.amount)
    IN  /\ CanSplit(To, pol, offer, list, given)
        /\ PaidTo(FinalizationClaims(pol, offer, round, first, fs, finalizers, eligible), v)
             = Weigh(PartOf(GiftsTo(To), v), FlattenSeq(SplitsOf(pol, offer, list, given)))

\* What that rests on.
SplitsCanBePaid(To, pol, offer, round, first, R, fs, finalizers, eligible, v) ==
    /\ pol \in Seq(Voters) /\ HasAddresses(To, Len(pol))
    /\ offer.claimBack \in To /\ offer.amount \in Nat
    /\ first # Empty /\ ~FinalizedOutsideGrace(round, first)
    /\ fs \in Seq(R) /\ SendersDistinct(fs)
    /\ finalizers \in SUBSET DOMAIN pol /\ eligible # {} /\ offer.claimBack[2] # v

\* The finalizers' claims pay a voter its splits.
LEMMA FinalizerPaid ==
    ASSUME NEW To, NEW pol, NEW offer, NEW round, NEW first, NEW R, NEW fs,
           NEW finalizers, NEW eligible, NEW v,
           SplitsCanBePaid(To, pol, offer, round, first, R, fs, finalizers, eligible, v)
    PROVE  SplitsArePaid(To, pol, offer, round, first, R, fs, finalizers, eligible, v)
<1> SUFFICES ASSUME pol \in Seq(Voters), HasAddresses(To, Len(pol)),
                    offer.claimBack \in To, offer.amount \in Nat,
                    first # Empty, ~FinalizedOutsideGrace(round, first),
                    fs \in Seq(R), SendersDistinct(fs),
                    finalizers \in SUBSET DOMAIN pol, eligible # {}, offer.claimBack[2] # v
             PROVE  SplitsArePaid(To, pol, offer, round, first, R, fs, finalizers, eligible, v)
  BY DEF SplitsCanBePaid
<1> DEFINE a == offer.amount
           list == RewardedOf(fs, round, finalizers, eligible)
           given == GraceParts(finalizers, a)
           inGrace == InGraceOf(fs, round, finalizers)
           ss == SplitsOf(pol, offer, list, given)
           xs == [i \in DOMAIN list |-> given[i]]
           rest == a - SumFunction(xs)
           back == IF rest # 0 THEN ClaimBack(offer, rest) ELSE <<>>
           claims == FinalizationClaims(pol, offer, round, first, fs, finalizers, eligible)
           G == GiftsTo(To)
           C == ClaimsTo(To)
           V == PartOf(G, v)
           W == PartOf(C, v)
<1>1. claims = IF inGrace = <<>> \/ eligible = {} THEN ClaimBack(offer, a) ELSE FlattenSeq(ss) \o back
  BY DEF FinalizationClaims, Select, InGraceOf, RewardedOf, GraceParts, SplitsOf
<1>2. IsFiniteSet(DOMAIN pol)
  <2> DEFINE n == Len(pol)
  <2>1. n \in Nat /\ DOMAIN pol = 1..n
    OBVIOUS
  <2> HIDE DEF n
  <2>2. IsFiniteSet(1..n)
    <3>1. n \in Int /\ 1 \in Int
      BY <2>1
    <3> QED BY <3>1, FS_Interval
  <2> QED BY <2>1, <2>2
<1>3. /\ list \in Seq(R) /\ Len(list) <= Len(given) /\ given \in Seq(Nat)
      /\ \A i \in DOMAIN list : list[i].sender \in finalizers
      /\ inGrace = <<>> => list = <<>>
  <2>1. a \in Nat
    OBVIOUS
  <2> HIDE DEF a
  <2> QED BY <1>2, <2>1, RewardedFew
<1>4. CanSplit(To, pol, offer, list, given)
  BY <1>3 DEF CanSplit
<1> HIDE DEF inGrace
<1>5. SumFunction(xs) \in Int
  <2> HIDE DEF list, given
  <2>1. /\ Len(list) \in Nat /\ DOMAIN list = 1..Len(list) /\ Len(given) \in Nat
        /\ \A i \in 1..Len(given) : given[i] \in Nat
    BY <1>3
  <2>2. xs \in Seq(Int)
    BY <1>3, <2>1
  <2> QED BY <2>2, SumIsWeight
<1> HIDE DEF list, given, xs
<1>6. ss \in Seq(Seq(G))
  BY <1>3, <1>4, SplitsGive
<1>7. V \in [G -> Int] /\ W \in [C -> Int]
  BY PartsAre
<1>8. FlattenSeq(ss) \in Seq(G)
  <2> HIDE DEF V, G, ss
  <2> QED BY <1>6, <1>7, WeighFlatten
<1>9. FlattenSeq(ss) \in Seq(C) /\ Weigh(W, FlattenSeq(ss)) = Weigh(V, FlattenSeq(ss))
  BY <1>8, GiftsWeigh
<1>10. ASSUME NEW x \in Int
       PROVE  ClaimBack(offer, x) \in Seq(C) /\ Weigh(W, ClaimBack(offer, x)) = 0
  <2> DEFINE c == Claim(offer.claimBack, "DIRECT", x)
  <2>1. c \in C /\ c.to = offer.claimBack
    BY DEF Claim, ClaimsTo, ClaimTypes
  <2>2. W[c] = 0
    <3> HIDE DEF c, C
    <3> QED BY <2>1 DEF PartOf
  <2>3. ClaimBack(offer, x) = <<c>>
    BY DEF ClaimBack
  <2> HIDE DEF c, C, W
  <2>4. <<c>> \in Seq(C) /\ Weigh(W, <<c>>) = W[c]
    <3>1. c \in C /\ W \in [C -> Int]
      BY <1>7, <2>1
    <3> QED BY <3>1, WeighOne
  <2> QED BY <2>2, <2>3, <2>4
<1> HIDE DEF V, W, G, C
<1>11. claims \in Seq(C) /\ Weigh(W, claims) = Weigh(V, FlattenSeq(ss))
  <2>1. CASE inGrace = <<>>
    <3>1. list = <<>>
      BY <1>3, <2>1
    <3>2. ss = <<>>
      BY <3>1 DEF SplitsOf
    <3>3. FlattenSeq(<<>>) = <<>>
      BY DEF FlattenSeq
    <3>4. Weigh(V, <<>>) = 0
      BY WeighEmpty
    <3>5. claims = ClaimBack(offer, a) /\ a \in Int
      BY <1>1, <2>1
    <3> HIDE DEF ss, claims, a
    <3> QED BY <1>10, <3>2, <3>3, <3>4, <3>5
  <2>2. CASE inGrace # <<>>
    <3>1. claims = FlattenSeq(ss) \o back
      BY <1>1, <2>2
    <3>2. back \in Seq(C) /\ Weigh(W, back) = 0
      <4>1. rest \in Int
        BY <1>5
      <4>2. Weigh(W, <<>>) = 0 /\ <<>> \in Seq(C)
        BY WeighEmpty
      <4> HIDE DEF rest
      <4> QED BY <1>10, <4>1, <4>2
    <3> HIDE DEF ss, claims, back
    <3>3. /\ FlattenSeq(ss) \o back \in Seq(C) /\ Weigh(W, FlattenSeq(ss)) \in Int
          /\ Weigh(W, FlattenSeq(ss) \o back) = Weigh(W, FlattenSeq(ss)) + Weigh(W, back)
      BY <1>7, <1>9, <3>2, WeighConcat
    <3> QED BY <1>9, <3>1, <3>2, <3>3
  <2> QED BY <2>1, <2>2
<1>12. PaidTo(claims, v) = Weigh(W, claims)
  BY <1>11, VoterPaid DEF C, W, PaidTo
<1> QED BY <1>4, <1>11, <1>12 DEF a, list, given, ss, V, G, claims, SplitsArePaid

\* A list to which at most one is added.
LEMMA AddedIsList ==
    ASSUME NEW R, NEW old \in Seq(R), NEW new, NEW x \in R, AddsAtMost(new, old, x)
    PROVE  new \in Seq(R)
<1>1. Append(old, x) \in Seq(R)
  OBVIOUS
<1> QED BY <1>1 DEF AddsAtMost

-----------------------------------------------------------------------------
(* Offers of the rounds of an epoch *)

\* Lists whose elements have amounts in Nat.
HasAmounts(list) == list \in Seq(ToSet(list)) /\ \A o \in ToSet(list) : o.amount \in Nat

\* Their total is a natural number, the sum of the amounts.
LEMMA TotalIs ==
    ASSUME NEW list, HasAmounts(list)
    PROVE  /\ Total(list) = Weigh([o \in ToSet(list) |-> o.amount], list)
           /\ Total(list) \in Nat
<1> DEFINE R == ToSet(list)
           W == [o \in R |-> o.amount]
           S == DOMAIN list
           f == [i \in S |-> W[list[i]]]
<1>1. W \in [R -> Int] /\ (\A r \in R : W[r] = r.amount) /\ list \in Seq(R)
  BY DEF HasAmounts
<1>2. Total(list) = Weigh(W, list)
  <2> HIDE DEF W, R
  <2> QED BY <1>1, AmountIsSum
<1>3. IsFiniteSet(S) /\ \A i \in S : f[i] \in Nat
  <2>1. S = 1..Len(list) /\ Len(list) \in Nat
    BY <1>1
  <2>2. IsFiniteSet(S)
    <3> HIDE DEF S
    <3> QED BY <2>1, FS_Interval
  <2>3. \A i \in S : list[i] \in R
    BY <1>1
  <2> QED BY <2>2, <2>3 DEF HasAmounts
<1>4. SumFunctionOnSet(f, S) \in Nat
  <2> HIDE DEF f, S
  <2> QED BY <1>3, NaturalSum
<1>5. Weigh(W, list) = SumFunctionOnSet(f, S)
  BY DEF Weigh
<1> QED BY <1>2, <1>4, <1>5

\* Offers of equal parts of an amount add up to it.
LEMMA TotalOfParts ==
    ASSUME NEW a \in Nat, NEW n \in Nat \ {0}, NEW offers, offers \in Seq(ToSet(offers)),
           Len(offers) = n, \A i \in 1..n : offers[i].amount = Part(a, n, i)
    PROVE  Total(offers) = a
<1> DEFINE R == ToSet(offers)
           W == [o \in R |-> o.amount]
           xs == PartsOf(a, n)
<1>1. /\ xs \in Seq(Int) /\ DOMAIN xs = 1..n /\ Weigh(Same, xs) = a
      /\ \A i \in 1..n : xs[i] = Part(a, n, i) /\ Part(a, n, i) \in Nat
  <2> HIDE DEF xs
  <2> QED BY PartsAddUp DEF xs
<1>2. DOMAIN offers = 1..n /\ \A i \in 1..n : offers[i] \in R
  OBVIOUS
<1>3. HasAmounts(offers)
  <2>1. \A o \in R : \E i \in 1..n : o = offers[i]
    BY <1>2 DEF ToSet
  <2> QED BY <1>1, <2>1 DEF HasAmounts
<1>4. Total(offers) = Weigh(W, offers)
  BY <1>3, TotalIs
<1>5. Alike(W, offers, Same, xs)
  <2> SUFFICES ASSUME NEW i \in 1..n PROVE W[offers[i]] = Same[xs[i]]
    BY <1>1, <1>2 DEF Alike
  <2>1. W[offers[i]] = Part(a, n, i)
    BY <1>2
  <2>2. Same[xs[i]] = Part(a, n, i)
    BY <1>1 DEF Same
  <2> QED BY <2>1, <2>2
<1>6. Weigh(W, offers) = Weigh(Same, xs)
  <2> HIDE DEF W, xs
  <2> QED BY <1>1, <1>5, SumsAlike
<1> QED BY <1>1, <1>4, <1>6

\* Parts of an amount differ by one at most.
LEMMA PartsAreClose ==
    ASSUME NEW a \in Nat, NEW n \in Nat \ {0}, NEW i, NEW j
    PROVE  Part(a, n, i) <= Part(a, n, j) + 1
<1> DEFINE q == a \div n
<1>1. q \in Int
  OBVIOUS
<1> HIDE DEF q
<1>2. Part(a, n, i) \in {q, q + 1} /\ Part(a, n, j) \in {q, q + 1}
  BY <1>1 DEF Part, q
<1> QED BY <1>1, <1>2

\* Inflation offers, each for a list of feeds.
HasFeeds(inflation) ==
    HasAmounts(inflation) /\ \A o \in ToSet(inflation) : o.feeds \in Seq(ToSet(o.feeds))

\* The configuration of a feed is an offer.
LEMMA ConfigurationIs ==
    ASSUME NEW inflation, HasFeeds(inflation), NEW community, NEW feed
    PROVE  "amount" \in DOMAIN FeedConfiguration(inflation, community, feed)
<1> DEFINE lists == [i \in DOMAIN inflation |-> InflationFeedOffers(inflation[i])]
           R == UNION {ToSet(lists[i]) : i \in DOMAIN inflation}
           all == FlattenSeq(lists)
           indices == {i \in DOMAIN all : all[i].feed = feed}
           own == Picked(all, indices)
<1>1. inflation \in Seq(ToSet(inflation)) /\ DOMAIN inflation = 1..Len(inflation) /\ Len(inflation) \in Nat
  BY DEF HasFeeds, HasAmounts
<1>2. ASSUME NEW i \in DOMAIN inflation
      PROVE  lists[i] \in Seq(ToSet(lists[i])) /\ \A o \in ToSet(lists[i]) : "amount" \in DOMAIN o
  <2> DEFINE offer == inflation[i]
             it == InflationFeedOffers(offer)
  <2>1. offer.feeds \in Seq(ToSet(offer.feeds))
    BY <1>1 DEF HasFeeds, ToSet
  <2>2. DOMAIN offer.feeds = 1..Len(offer.feeds) /\ Len(offer.feeds) \in Nat
    <3> HIDE DEF offer
    <3> QED BY <2>1
  <2>3. /\ DOMAIN it = DOMAIN offer.feeds /\ it = [k \in DOMAIN offer.feeds |-> it[k]]
        /\ \A k \in DOMAIN it : "amount" \in DOMAIN it[k]
    BY DEF InflationFeedOffers
  <2>4. lists[i] = it
    OBVIOUS
  <2> HIDE DEF it, lists, offer
  <2>5. it \in Seq(ToSet(it))
    BY <2>2, <2>3 DEF ToSet
  <2> QED BY <2>3, <2>4, <2>5 DEF ToSet
<1>3. lists \in Seq(Seq(R))
  <2>1. DOMAIN lists = 1..Len(inflation) /\ lists = [i \in 1..Len(inflation) |-> lists[i]]
    BY <1>1
  <2>2. ASSUME NEW i \in 1..Len(inflation) PROVE lists[i] \in Seq(R)
    <3>1. lists[i] \in Seq(ToSet(lists[i])) /\ ToSet(lists[i]) \subseteq R
      BY <1>1, <1>2
    <3> HIDE DEF lists, R
    <3> QED BY <3>1
  <2> HIDE DEF lists, R
  <2> QED BY <1>1, <2>1, <2>2
<1>4. \A r \in R : "amount" \in DOMAIN r
  BY <1>2
<1> HIDE DEF lists, R
<1>5. all \in Seq(R)
  <2>1. PICK W : W = [r \in R |-> 0]
    OBVIOUS
  <2>2. W \in [R -> Int]
    BY <2>1
  <2> QED BY <1>3, <2>2, WeighFlatten
<1> HIDE DEF all
<1>6. own \in Seq(R)
  BY <1>5, PickedElements
<1>7. FeedConfiguration(inflation, community, feed)
        = IF own # <<>> THEN Last(own)
          ELSE CommunityFeedOffer(Select(community, LAMBDA o : o.feed = feed)[1])
  BY DEF FeedConfiguration, Select, all, lists
<1>8. own # <<>> => Last(own) \in R
  <2> HIDE DEF own
  <2> QED BY <1>6 DEF Last
<1>9. \A o : "amount" \in DOMAIN CommunityFeedOffer(o)
  BY DEF CommunityFeedOffer
<1> HIDE DEF own
<1> QED BY <1>4, <1>7, <1>8, <1>9

\* The offer of a round.
LEMMA RoundOfferIs ==
    ASSUME NEW inflation, HasFeeds(inflation), NEW community, NEW n, NEW round, NEW feed
    PROVE  LET offer == RoundOffer(inflation, community, n, round, feed)
           IN  /\ "amount" \in DOMAIN offer
               /\ offer.amount = Part(Total(inflation) + Total(community), n, round)
<1> DEFINE c == FeedConfiguration(inflation, community, feed)
           x == Part(Total(inflation) + Total(community), n, round)
<1>1. "amount" \in DOMAIN c
  BY ConfigurationIs
<1>2. RoundOffer(inflation, community, n, round, feed) = [c EXCEPT !.amount = x]
  BY DEF RoundOffer
<1> HIDE DEF c, x
<1> QED BY <1>1, <1>2 DEF x

\* An offer marked to be burnt or not.
LEMMA BurnMarked ==
    ASSUME NEW offer, "amount" \in DOMAIN offer, NEW burn
    PROVE  /\ WithBurn(offer, burn).amount = offer.amount /\ WithBurn(offer, burn).burn = burn
           /\ \A other : [WithBurn(offer, other) EXCEPT !.burn = burn] = WithBurn(offer, burn)
BY DEF WithBurn

\* Offers of all rounds: equal parts, burnt without a random number.
OffersOf(offers, total, randoms) ==
    /\ offers \in Seq(ToSet(offers)) /\ Len(offers) = Len(randoms) /\ DOMAIN offers = DOMAIN randoms
    /\ \A i \in DOMAIN randoms : /\ offers[i].amount = Part(total, Len(randoms), i)
                                 /\ offers[i].burn = (randoms[i] = Empty)

\* Those made at once are such.
LEMMA GranulatedAre ==
    ASSUME NEW inflation, HasFeeds(inflation), NEW community, NEW feeds, NEW X, NEW randoms \in Seq(X)
    PROVE  OffersOf(GranulatedOffers(inflation, community, feeds, randoms),
                    Total(inflation) + Total(community), randoms)
<1> DEFINE offers == GranulatedOffers(inflation, community, feeds, randoms)
           n == Len(randoms)
           total == Total(inflation) + Total(community)
           it(i) == RoundOffer(inflation, community, n, i, SelectedFeed(feeds, randoms[i]))
<1>1. DOMAIN randoms = 1..n /\ n \in Nat
  OBVIOUS
<1>2. offers = [i \in 1..n |-> WithBurn(it(i), randoms[i] = Empty)]
  BY <1>1 DEF GranulatedOffers
<1>3. ASSUME NEW i \in 1..n
      PROVE  offers[i].amount = Part(total, n, i) /\ offers[i].burn = (randoms[i] = Empty)
  <2>1. "amount" \in DOMAIN it(i) /\ it(i).amount = Part(total, n, i)
    BY RoundOfferIs
  <2> DEFINE y == it(i)
             b == randoms[i] = Empty
  <2>2. offers[i] = WithBurn(y, b)
    BY <1>2
  <2> HIDE DEF y, b
  <2>3. WithBurn(y, b).amount = y.amount /\ WithBurn(y, b).burn = b
    BY <2>1, BurnMarked DEF y
  <2> QED BY <2>1, <2>2, <2>3 DEF y, b
<1> HIDE DEF offers
<1>4. DOMAIN offers = 1..n /\ Len(offers) = n /\ offers \in Seq(ToSet(offers))
  <2>1. DOMAIN offers = 1..n /\ offers = [i \in 1..n |-> offers[i]]
    BY <1>2
  <2> HIDE DEF n
  <2> QED BY <1>1, <2>1 DEF ToSet
<1> QED BY <1>1, <1>3, <1>4 DEF OffersOf, offers

-----------------------------------------------------------------------------
(* Feeds that are offered, and offers fixed to them *)

\* The values of a function on a finite set.
LEMMA ImageIsFinite ==
    ASSUME NEW S, IsFiniteSet(S), NEW f
    PROVE  IsFiniteSet({f[x] : x \in S})
<1> DEFINE T == {f[x] : x \in S}
           g == [x \in S |-> f[x]]
<1>1. g \in Surjection(S, T)
  BY DEF Surjection
<1> HIDE DEF T, g
<1> QED BY <1>1, FS_Surjection DEF T

\* The elements of a list.
LEMMA ElementsAreFinite ==
    ASSUME NEW list, list \in Seq(ToSet(list))
    PROVE  IsFiniteSet(ToSet(list))
<1>1. DOMAIN list = 1..Len(list) /\ Len(list) \in Nat
  OBVIOUS
<1>2. IsFiniteSet(1..Len(list))
  BY <1>1, FS_Interval
<1> QED BY <1>1, <1>2, ImageIsFinite DEF ToSet

\* What is offered for some feeds has a sequence of feeds that is not empty.
LEMMA FeedSequenceIs ==
    ASSUME NEW lists, lists \in Seq(ToSet(lists)), \A l \in ToSet(lists) : l \in Seq(ToSet(l)) /\ l # <<>>,
           NEW community, community \in Seq(ToSet(community)),
           lists # <<>> \/ community # <<>>
    PROVE  LET feeds == FeedSequence(lists, community)
           IN  feeds \in Seq(ToSet(feeds)) /\ feeds # <<>>
<1> DEFINE inflation == UNION {ToSet(l) : l \in ToSet(lists)}
           others == {o.feed : o \in ToSet(community)}
           S == inflation \cup others
           n == Cardinality(S)
           feeds == FeedSequence(lists, community)
<1>1. IsFiniteSet(inflation)
  <2> DEFINE L == ToSet(lists)
             f == [l \in L |-> ToSet(l)]
             U == {f[l] : l \in L}
  <2>1. IsFiniteSet(L)
    BY ElementsAreFinite
  <2>2. \A l \in L : IsFiniteSet(ToSet(l))
    BY ElementsAreFinite
  <2>3. IsFiniteSet(U)
    <3> HIDE DEF L, f
    <3> QED BY <2>1, ImageIsFinite
  <2>4. \A T \in U : IsFiniteSet(T)
    BY <2>2
  <2>5. UNION U = inflation
    OBVIOUS
  <2> HIDE DEF U
  <2>6. IsFiniteSet(UNION U)
    BY <2>3, <2>4, FS_UNION
  <2> QED BY <2>5, <2>6
<1>2. IsFiniteSet(others)
  <2> DEFINE C == ToSet(community)
             f == [o \in C |-> o.feed]
  <2>1. IsFiniteSet(C)
    BY ElementsAreFinite
  <2>2. IsFiniteSet({f[o] : o \in C})
    <3> HIDE DEF C, f
    <3> QED BY <2>1, ImageIsFinite
  <2> QED BY <2>2
<1>3. S # {}
  <2>1. CASE lists # <<>>
    <3>1. lists[1] \in ToSet(lists)
      BY <2>1 DEF ToSet
    <3> DEFINE l == lists[1]
    <3>2. l \in Seq(ToSet(l)) /\ l # <<>>
      BY <3>1
    <3> HIDE DEF l
    <3>3. l[1] \in ToSet(l)
      BY <3>2 DEF ToSet
    <3> QED BY <3>1, <3>3 DEF l
  <2>2. CASE community # <<>>
    <3>1. community[1] \in ToSet(community)
      BY <2>2 DEF ToSet
    <3>2. community[1].feed \in others
      BY <3>1
    <3> HIDE DEF others, inflation
    <3> QED BY <3>2
  <2> QED BY <2>1, <2>2
<1>4. n \in Nat /\ n # 0
  <2>1. IsFiniteSet(S)
    <3> HIDE DEF inflation, others
    <3> QED BY <1>1, <1>2, FS_Union
  <2> HIDE DEF S
  <2> QED BY <1>3, <2>1, FS_CardinalityType, FS_EmptySet
<1> DEFINE before(feed) == {other \in S : CanonicallyBefore(inflation, community, other, feed)}
           next(i) == CHOOSE feed \in S : Cardinality(before(feed)) = i - 1
<1>5. DOMAIN feeds = 1..n /\ feeds = [i \in 1..n |-> feeds[i]]
  <2>1. feeds = [i \in 1..n |-> next(i)]
    BY Zenon DEF FeedSequence
  <2> HIDE DEF feeds, n, next
  <2> QED BY <2>1
<1> HIDE DEF feeds, n, before, next
<1>6. feeds \in Seq(ToSet(feeds)) /\ Len(feeds) = n
  <2> DEFINE T == ToSet(feeds)
  <2>1. n \in Nat /\ \A i \in 1..n : feeds[i] \in T
    BY <1>4, <1>5 DEF ToSet
  <2> HIDE DEF T
  <2>2. feeds \in Seq(T) /\ Len(feeds) = n
    BY ONLY <1>5, <2>1
  <2> QED BY <2>2 DEF T
<1>7. feeds # <<>>
  BY ONLY <1>4, <1>6
<1> QED BY <1>6, <1>7 DEF feeds

\* The feed of a round is one of the sequence.
LEMMA SelectedIsFeed ==
    ASSUME NEW feeds, feeds \in Seq(ToSet(feeds)), feeds # <<>>, NEW random \in Nat \cup {Empty}
    PROVE  SelectedFeed(feeds, random) \in ToSet(feeds)
<1>1. DOMAIN feeds = 1..Len(feeds) /\ Len(feeds) \in Nat \ {0}
  OBVIOUS
<1> DEFINE n == Len(feeds)
<1>2. CASE random = Empty
  BY <1>1, <1>2 DEF SelectedFeed, ToSet
<1>3. CASE random # Empty
  <2>1. (random % n) + 1 \in 1..n
    BY <1>1, <1>3
  <2> QED BY <1>1, <1>3, <2>1 DEF SelectedFeed, ToSet
<1> QED BY <1>2, <1>3

\* Offers fixed later are the offers made at once.
LEMMA FixedAre ==
    ASSUME NEW inflation, HasFeeds(inflation), NEW community,
           NEW feeds, feeds \in Seq(ToSet(feeds)), feeds # <<>>,
           NEW randoms \in Seq(Nat \cup {Empty})
    PROVE  FixOffers(OfferTemplates(inflation, community, feeds, Len(randoms)), feeds, randoms)
             = GranulatedOffers(inflation, community, feeds, randoms)
<1> DEFINE n == Len(randoms)
           templates == OfferTemplates(inflation, community, feeds, n)
           fixed == FixOffers(templates, feeds, randoms)
           made == GranulatedOffers(inflation, community, feeds, randoms)
           offer(i, feed) == RoundOffer(inflation, community, n, i, feed)
           feedOf(i) == SelectedFeed(feeds, randoms[i])
           burnt(i) == randoms[i] = Empty
<1>1. DOMAIN randoms = 1..n /\ n \in Nat
  OBVIOUS
<1>2. fixed = [i \in 1..n |-> [templates[i][feedOf(i)] EXCEPT !.burn = burnt(i)]]
  <2> HIDE DEF templates
  <2> QED BY <1>1 DEF FixOffers
<1>3. made = [i \in 1..n |-> WithBurn(offer(i, feedOf(i)), burnt(i))]
  BY <1>1 DEF GranulatedOffers
<1>4. \A i \in 1..n, feed \in ToSet(feeds) : templates[i][feed] = WithBurn(offer(i, feed), FALSE)
  BY DEF OfferTemplates
<1>5. ASSUME NEW i \in 1..n
      PROVE  [templates[i][feedOf(i)] EXCEPT !.burn = burnt(i)] = WithBurn(offer(i, feedOf(i)), burnt(i))
  <2> DEFINE feed == feedOf(i)
             y == offer(i, feed)
             b == burnt(i)
  <2>1. feed \in ToSet(feeds)
    <3>1. randoms[i] \in Nat \cup {Empty}
      BY <1>1
    <3> QED BY <3>1, SelectedIsFeed
  <2>2. templates[i][feed] = WithBurn(y, FALSE)
    BY <1>4, <2>1
  <2>3. "amount" \in DOMAIN y
    BY RoundOfferIs
  <2> HIDE DEF y, b, templates
  <2>4. [WithBurn(y, FALSE) EXCEPT !.burn = b] = WithBurn(y, b)
    BY <2>3, BurnMarked
  <2> QED BY <2>2, <2>4 DEF y, b
<1> HIDE DEF fixed, made, templates, offer, feedOf, burnt
<1>6. fixed = made
  BY <1>2, <1>3, <1>5
<1> QED BY <1>6 DEF fixed, made, templates

-----------------------------------------------------------------------------
(* Offers for fast updates and for attestations, with the fees of requests *)

SumOver(f, A) == SumFunction([x \in A |-> f[x]])

\* It is the sum over the set.
LEMMA SumOverIs ==
    ASSUME NEW A, IsFiniteSet(A), NEW f, \A x \in A : f[x] \in Int
    PROVE  SumOver(f, A) = SumFunctionOnSet(f, A)
<1> DEFINE e == [x \in A |-> f[x]]
<1>1. DOMAIN e = A /\ \A x \in A : e[x] = f[x] /\ f[x] \in Int
  OBVIOUS
<1>2. SumOver(f, A) = SumFunction(e)
  BY DEF SumOver
<1> HIDE DEF e
<1>3. SumFunctionOnSet(e, A) = SumFunctionOnSet(f, A)
  BY <1>1, SumSame
<1> QED BY <1>1, <1>2, <1>3 DEF SumFunction

\* The sum over a part of a set.
LEMMA PartIsSummed ==
    ASSUME NEW S, IsFiniteSet(S), NEW f, \A x \in S : f[x] \in Nat, NEW A \in SUBSET S
    PROVE  /\ SumOver(f, A) = SumFunctionOnSet(f, A)
           /\ SumFunctionOnSet(f, A) \in Nat
           /\ SumFunctionOnSet(f, S \ A) \in Nat
           /\ SumFunctionOnSet(f, S) = SumFunctionOnSet(f, A) + SumFunctionOnSet(f, S \ A)
<1>1. /\ IsFiniteSet(A) /\ IsFiniteSet(S \ A)
      /\ \A x \in A : f[x] \in Int /\ f[x] \in Nat
      /\ \A x \in S \ A : f[x] \in Nat
  BY FS_Subset
<1>2. IntegersOn(f, S)
  BY DEF IntegersOn
<1>3. SumFunctionOnSet(f, A) \in Nat
  BY <1>1, NaturalSum
<1>4. SumFunctionOnSet(f, S \ A) \in Nat
  <2> DEFINE B == S \ A
  <2>1. IsFiniteSet(B) /\ \A x \in B : f[x] \in Nat
    BY <1>1
  <2> HIDE DEF B
  <2>2. SumFunctionOnSet(f, B) \in Nat
    BY <2>1, NaturalSum
  <2> QED BY <2>2 DEF B
<1>5. SumOver(f, A) = SumFunctionOnSet(f, A)
  BY <1>1, SumOverIs
<1>6. SumFunctionOnSet(f, S) = SumFunctionOnSet(f, A) + SumFunctionOnSet(f, S \ A)
  BY <1>2, SumSplit
<1> QED BY <1>3, <1>4, <1>5, <1>6

PartSummed(S, f, A) ==
    IsFiniteSet(S) /\ A \in SUBSET S /\ (\A x \in S : f[x] \in Nat) =>
        /\ SumOver(f, A) = SumFunctionOnSet(f, A)
        /\ SumFunctionOnSet(f, A) \in Nat /\ SumFunctionOnSet(f, S \ A) \in Nat
        /\ SumFunctionOnSet(f, S) = SumFunctionOnSet(f, A) + SumFunctionOnSet(f, S \ A)

\* The same for all sets and parts.
LEMMA PartsAreSummed == \A S, f, A : PartSummed(S, f, A)
<1> SUFFICES ASSUME NEW S, NEW f, NEW A PROVE PartSummed(S, f, A)
  OBVIOUS
<1>1. ASSUME IsFiniteSet(S), A \in SUBSET S, \A x \in S : f[x] \in Nat
      PROVE  SumOver(f, A) = SumFunctionOnSet(f, A)
  <2>1. IsFiniteSet(A) /\ \A x \in A : f[x] \in Int
    BY <1>1, FS_Subset
  <2> QED BY <2>1, SumOverIs
<1>2. ASSUME IsFiniteSet(S), A \in SUBSET S, \A x \in S : f[x] \in Nat
      PROVE  SumFunctionOnSet(f, A) \in Nat /\ SumFunctionOnSet(f, S \ A) \in Nat
  BY <1>2, PartIsSummed
<1>3. ASSUME IsFiniteSet(S), A \in SUBSET S, \A x \in S : f[x] \in Nat
      PROVE  SumFunctionOnSet(f, S) = SumFunctionOnSet(f, A) + SumFunctionOnSet(f, S \ A)
  BY <1>3, PartIsSummed
<1> QED BY <1>1, <1>2, <1>3 DEF PartSummed

\* Offers for fast updates add up to inflation and incentives.
LEMMA FastUpdatesTotal ==
    ASSUME NEW a \in Nat, NEW incentives \in Seq(Nat), NEW configurations,
           NEW X, NEW randoms \in Seq(X), randoms # <<>>
    PROVE  Total(FastUpdateOffers(a, incentives, configurations, randoms)) = a + SumFunction(incentives)
<1> DEFINE offers == FastUpdateOffers(a, incentives, configurations, randoms)
           n == Len(randoms)
           total == a + SumFunction(incentives)
<1>1. n \in Nat \ {0} /\ DOMAIN randoms = 1..n
  OBVIOUS
<1>2. total \in Nat
  <2>1. Len(incentives) \in Nat /\ DOMAIN incentives = 1..Len(incentives)
        /\ \A v \in 1..Len(incentives) : incentives[v] \in Nat
    OBVIOUS
  <2>2. SumFunction(incentives) \in Nat
    BY <2>1, WholeIsMore
  <2> QED BY <2>2
<1>3. DOMAIN offers = 1..n /\ offers = [i \in 1..n |-> offers[i]]
      /\ \A i \in 1..n : offers[i].amount = Part(total, n, i)
  BY <1>1 DEF FastUpdateOffers
<1> HIDE DEF offers, n, total
<1>4. offers \in Seq(ToSet(offers)) /\ Len(offers) = n
  <2> DEFINE T == ToSet(offers)
  <2>1. n \in Nat /\ \A i \in 1..n : offers[i] \in T
    BY <1>1, <1>3 DEF ToSet
  <2> HIDE DEF T
  <2>2. offers \in Seq(T) /\ Len(offers) = n
    BY ONLY <1>3, <2>1
  <2> QED BY <2>2 DEF T
<1>5. Total(offers) = total
  BY <1>1, <1>2, <1>3, <1>4, TotalOfParts
<1> QED BY <1>5 DEF offers, total

\* Requests of a round with their marks.
HasFees(requests) ==
    /\ requests \in Seq(ToSet(requests))
    /\ \A k \in DOMAIN requests : requests[k].fee \in Nat /\ requests[k].confirmed \in BOOLEAN

FeesFrom(requests, confirmed) ==
    SumFunction([i \in {i \in DOMAIN requests : requests[i].confirmed = confirmed} |-> requests[i].fee])

\* Every fee is one of a request that was confirmed, or of one that was not.
LEMMA FeesAddUp ==
    ASSUME NEW requests, HasFees(requests)
    PROVE  LET fees == [k \in DOMAIN requests |-> requests[k].fee]
           IN  /\ fees \in Seq(Int)
               /\ FeesFrom(requests, TRUE) \in Nat /\ FeesFrom(requests, FALSE) \in Nat
               /\ Weigh(Same, fees) = FeesFrom(requests, TRUE) + FeesFrom(requests, FALSE)
<1> DEFINE S == DOMAIN requests
           f == [k \in S |-> requests[k].fee]
           A == {i \in S : requests[i].confirmed = TRUE}
           B == {i \in S : requests[i].confirmed = FALSE}
           n == Len(requests)
<1>1. S = 1..n /\ n \in Nat /\ \A k \in S : f[k] \in Nat
  BY DEF HasFees
<1>2. IsFiniteSet(S) /\ A \in SUBSET S /\ B = S \ A
  <2>1. IsFiniteSet(S)
    <3> HIDE DEF S, n
    <3> QED BY <1>1, FS_Interval
  <2> QED BY <2>1 DEF HasFees
<1>3. f \in Seq(Int)
  <2>1. f = [k \in 1..n |-> f[k]] /\ \A k \in 1..n : f[k] \in Int
    BY <1>1
  <2> HIDE DEF f, S, n
  <2> QED BY <1>1, <2>1
<1>4. Weigh(Same, f) = SumFunctionOnSet(f, S)
  <2>1. DOMAIN f = S
    OBVIOUS
  <2>2. SumFunction(f) = Weigh(Same, f)
    <3> HIDE DEF f
    <3> QED BY <1>3, SumIsWeight
  <2> HIDE DEF f
  <2> QED BY <2>1, <2>2 DEF SumFunction
<1>5. FeesFrom(requests, TRUE) = SumOver(f, A) /\ FeesFrom(requests, FALSE) = SumOver(f, B)
  <2>1. [i \in A |-> requests[i].fee] = [x \in A |-> f[x]] /\ [i \in B |-> requests[i].fee] = [x \in B |-> f[x]]
    OBVIOUS
  <2> QED BY <2>1 DEF FeesFrom, SumOver
<1>6. S \ B = A /\ B \in SUBSET S
  BY <1>2
<1> HIDE DEF f, A, B, S
<1>7. /\ SumOver(f, A) = SumFunctionOnSet(f, A)
      /\ SumFunctionOnSet(f, A) \in Nat
      /\ SumFunctionOnSet(f, S) = SumFunctionOnSet(f, A) + SumFunctionOnSet(f, S \ A)
  <2>1. IsFiniteSet(S) /\ A \in SUBSET S /\ \A x \in S : f[x] \in Nat
    BY <1>1, <1>2
  <2>2. PartSummed(S, f, A)
    BY PartsAreSummed, Zenon
  <2> QED BY <2>1, <2>2 DEF PartSummed
<1>8. SumOver(f, B) = SumFunctionOnSet(f, B) /\ SumFunctionOnSet(f, B) \in Nat
  <2>1. IsFiniteSet(S) /\ B \in SUBSET S /\ \A x \in S : f[x] \in Nat
    BY <1>1, <1>2, <1>6
  <2>2. PartSummed(S, f, B)
    BY PartsAreSummed, Zenon
  <2> QED BY <2>1, <2>2 DEF PartSummed
<1>9. f \in Seq(Int) /\ FeesFrom(requests, TRUE) \in Nat /\ FeesFrom(requests, FALSE) \in Nat
      /\ Weigh(Same, f) = FeesFrom(requests, TRUE) + FeesFrom(requests, FALSE)
  BY <1>2, <1>3, <1>4, <1>5, <1>7, <1>8
<1> QED BY <1>9 DEF f, S

\* Attestation types with shares of the inflation.
HasShares(configurations) ==
    /\ configurations \in Seq(ToSet(configurations))
    /\ \A c \in ToSet(configurations) : c.share \in Nat
    /\ \E c \in ToSet(configurations) : c.share > 0

\* The part of the inflation that is burnt is a part of it.
SharesIn(configurations, S) == SumFunction([i \in S |-> configurations[i].share])

LEMMA BurntIsPart ==
    ASSUME NEW a \in Nat, NEW configurations, HasShares(configurations),
           NEW S \in SUBSET DOMAIN configurations
    PROVE  (SharesIn(configurations, S) * a) \div SharesIn(configurations, DOMAIN configurations) \in 0..a
<1> DEFINE D == DOMAIN configurations
           f == [i \in D |-> configurations[i].share]
           n == Len(configurations)
<1>1. D = 1..n /\ n \in Nat /\ (\A i \in D : f[i] \in Nat) /\ \E i \in D : f[i] > 0
  BY DEF HasShares, ToSet
<1>2. IsFiniteSet(D)
  <2> HIDE DEF D, n
  <2> QED BY <1>1, FS_Interval
<1>3. \A T \in SUBSET D : SharesIn(configurations, T) = SumOver(f, T)
  <2> SUFFICES ASSUME NEW T \in SUBSET D PROVE SharesIn(configurations, T) = SumOver(f, T)
    OBVIOUS
  <2>1. [i \in T |-> configurations[i].share] = [x \in T |-> f[x]]
    OBVIOUS
  <2> HIDE DEF f
  <2> QED BY <2>1 DEF SharesIn, SumOver
<1>4. S \in SUBSET D /\ D \in SUBSET D
  OBVIOUS
<1> HIDE DEF f, D, n
<1> DEFINE w == SumFunctionOnSet(f, S)
           b == SumFunctionOnSet(f, D)
           v == SumFunctionOnSet(f, D \ S)
<1>5. SharesIn(configurations, S) = w /\ w \in Nat /\ v \in Nat /\ b = w + v
  <2>1. SumOver(f, S) = w /\ w \in Nat /\ v \in Nat /\ b = w + v
    <3>1. IsFiniteSet(D) /\ S \in SUBSET D /\ \A x \in D : f[x] \in Nat
      BY <1>1, <1>2, <1>4
    <3>2. PartSummed(D, f, S)
      BY PartsAreSummed, Zenon
    <3> QED BY <3>1, <3>2 DEF PartSummed
  <2> QED BY <1>3, <1>4, <2>1
<1>6. SharesIn(configurations, D) = b /\ b \in Nat
  <2>1. \A i \in D : f[i] \in Int
    BY <1>1
  <2>2. SumOver(f, D) = b
    BY <1>2, <2>1, SumOverIs
  <2>3. b \in Nat
    BY <1>1, <1>2, NaturalSum
  <2> QED BY <1>3, <1>4, <2>2, <2>3
<1>7. b > 0
  <2>1. PICK i \in D : f[i] > 0
    BY <1>1
  <2>2. f[i] <= b /\ f[i] \in Nat
    BY <1>1, <1>2, NaturalSum
  <2> HIDE DEF b
  <2> QED BY <1>6, <2>1, <2>2
<1> HIDE DEF w, b, v
<1>8. w <= b /\ b \in Nat \ {0} /\ w \in Nat
  BY <1>5, <1>6, <1>7
<1>9. (w * a) \div b \in 0..a
  BY <1>8, PartOfWhole
<1> QED BY <1>5, <1>6, <1>9 DEF D

\* The two offers of a round.
FdcPair(a, b, n, round, requests) ==
    <<[amount |-> Part(a, n, round) + FeesFrom(requests, TRUE), burn |-> FALSE],
      [amount |-> Part(b, n, round) + FeesFrom(requests, FALSE), burn |-> TRUE]>>

FeeList(requests) == [k \in DOMAIN requests |-> requests[k].fee]

FeesOfRounds(rounds) == [i \in DOMAIN rounds |-> FeeList(rounds[i])]

\* The offers of all rounds have two parts of the inflation and all fees.
LEMMA PairsAddUp ==
    ASSUME NEW a \in Nat, NEW b \in Nat, NEW rounds, rounds \in Seq(ToSet(rounds)), rounds # <<>>,
           \A i \in DOMAIN rounds : HasFees(rounds[i])
    PROVE  Total(FlattenSeq([i \in 1..Len(rounds) |-> FdcPair(a, b, Len(rounds), i, rounds[i])]))
             = a + b + SumFunction(FlattenSeq(FeesOfRounds(rounds)))
<1> DEFINE n == Len(rounds)
           R == [amount : Int, burn : BOOLEAN]
           W == [o \in R |-> o.amount]
           pairs == [i \in 1..n |-> FdcPair(a, b, n, i, rounds[i])]
           V == [list \in Seq(R) |-> Weigh(W, list)]
           lists == FeesOfRounds(rounds)
           U == [list \in Seq(Int) |-> Weigh(Same, list)]
           one == [i \in 1..n |-> Part(a, n, i)]
           two == [i \in 1..n |-> Part(b, n, i)]
           both == [i \in 1..n |-> one[i] + two[i]]
           fee == [i \in 1..n |-> U[lists[i]]]
           all == [i \in 1..n |-> both[i] + fee[i]]
<1>1. n \in Nat \ {0} /\ DOMAIN rounds = 1..n
  OBVIOUS
<1> HIDE DEF n
<1>2. ASSUME NEW i \in 1..n
      PROVE  /\ lists[i] \in Seq(Int) /\ lists[i] = FeeList(rounds[i])
             /\ FeesFrom(rounds[i], TRUE) \in Nat /\ FeesFrom(rounds[i], FALSE) \in Nat
             /\ Weigh(Same, lists[i]) = FeesFrom(rounds[i], TRUE) + FeesFrom(rounds[i], FALSE)
  <2> DEFINE q == rounds[i]
  <2>1. lists[i] = FeeList(q)
    BY <1>1 DEF FeesOfRounds
  <2>2. HasFees(q)
    BY <1>1
  <2> HIDE DEF q
  <2>3. /\ FeeList(q) \in Seq(Int)
        /\ FeesFrom(q, TRUE) \in Nat /\ FeesFrom(q, FALSE) \in Nat
        /\ Weigh(Same, FeeList(q)) = FeesFrom(q, TRUE) + FeesFrom(q, FALSE)
    BY <2>2, FeesAddUp DEF FeeList
  <2> QED BY <2>1, <2>3 DEF q
<1>3. /\ Same \in [Int -> Int] /\ U \in [Seq(Int) -> Int]
      /\ lists \in Seq(Seq(Int)) /\ DOMAIN lists = 1..n
  <2>1. DOMAIN lists = 1..n /\ lists = [i \in 1..n |-> lists[i]]
    BY <1>1 DEF FeesOfRounds
  <2>2. Same \in [Int -> Int]
    BY DEF Same
  <2>3. <<>> \in Seq(Seq(Int))
    OBVIOUS
  <2>4. U \in [Seq(Int) -> Int]
    BY <2>2, <2>3, WeighFlatten
  <2> HIDE DEF lists, U
  <2>5. n \in Nat /\ \A i \in 1..n : lists[i] \in Seq(Int)
    BY <1>1, <1>2
  <2>6. lists \in Seq(Seq(Int))
    BY ONLY <2>1, <2>5
  <2> QED BY <2>1, <2>2, <2>4, <2>6
<1>4. /\ FlattenSeq(lists) \in Seq(Int)
      /\ Weigh(Same, FlattenSeq(lists)) = Weigh(U, lists)
  <2> HIDE DEF lists
  <2>1. lists \in Seq(Seq(Int)) /\ Same \in [Int -> Int]
    BY <1>3
  <2> QED BY <2>1, WeighFlatten
<1>5. SumFunction(FlattenSeq(lists)) = Weigh(U, lists)
  <2> HIDE DEF lists, U
  <2> QED BY <1>4, SumIsWeight
<1>6. ASSUME NEW i \in 1..n
      PROVE  /\ one[i] \in Nat /\ two[i] \in Nat /\ fee[i] \in Nat
             /\ pairs[i] \in Seq(R) /\ V[pairs[i]] = all[i] /\ all[i] \in Int
  <2> DEFINE t == FeesFrom(rounds[i], TRUE)
             u == FeesFrom(rounds[i], FALSE)
             x == Part(a, n, i)
             y == Part(b, n, i)
             o == [amount |-> x + t, burn |-> FALSE]
             p == [amount |-> y + u, burn |-> TRUE]
  <2>1. x \in Nat /\ y \in Nat
    BY <1>1, PartsAddUp
  <2>2. t \in Nat /\ u \in Nat /\ fee[i] = t + u
    BY <1>2
  <2>3. one[i] = x /\ two[i] = y /\ all[i] = x + y + fee[i]
    OBVIOUS
  <2>4. pairs[i] = <<o, p>>
    BY DEF FdcPair
  <2> HIDE DEF t, u, x, y, fee, one, two, all, pairs
  <2>5. o \in R /\ p \in R /\ W[o] = x + t /\ W[p] = y + u
    BY <2>1, <2>2
  <2>6. W \in [R -> Int]
    OBVIOUS
  <2> HIDE DEF o, p, R, W
  <2>7. <<o, p>> \in Seq(R) /\ Weigh(W, <<o, p>>) = W[o] + W[p]
    BY <2>5, <2>6, WeighPair
  <2> QED BY <2>1, <2>2, <2>3, <2>4, <2>5, <2>7
<1>7. W \in [R -> Int] /\ pairs \in Seq(Seq(R)) /\ DOMAIN pairs = 1..n
  <2>1. W \in [R -> Int] /\ DOMAIN pairs = 1..n /\ pairs = [i \in 1..n |-> pairs[i]]
    OBVIOUS
  <2> HIDE DEF W, R, pairs
  <2>2. n \in Nat /\ \A i \in 1..n : pairs[i] \in Seq(R)
    BY <1>1, <1>6
  <2> DEFINE Q == Seq(R)
  <2>3. n \in Nat /\ (\A i \in 1..n : pairs[i] \in Q) /\ pairs = [i \in 1..n |-> pairs[i]]
    BY <2>1, <2>2
  <2> HIDE DEF Q
  <2>4. pairs \in Seq(Q)
    BY ONLY <2>3
  <2> QED BY <2>1, <2>4 DEF Q
<1>8. /\ FlattenSeq(pairs) \in Seq(R)
      /\ Weigh(W, FlattenSeq(pairs)) = Weigh(V, pairs)
  <2> HIDE DEF pairs, W, R
  <2> QED BY <1>7, WeighFlatten
<1>9. Total(FlattenSeq(pairs)) = Weigh(V, pairs)
  <2>1. \A r \in R : W[r] = r.amount
    OBVIOUS
  <2> HIDE DEF pairs, W, R, V
  <2> QED BY <1>7, <1>8, <2>1, AmountIsSum
<1> DEFINE S == 1..n
<1>10. Weigh(V, pairs) = SumFunctionOnSet(all, S)
  <2>1. [i \in DOMAIN pairs |-> V[pairs[i]]] = all
    <3>1. all = [i \in 1..n |-> all[i]]
      OBVIOUS
    <3> HIDE DEF all, V, pairs
    <3> QED BY <1>6, <1>7, <3>1
  <2> HIDE DEF pairs, V, all
  <2> QED BY <1>7, <2>1 DEF Weigh
<1>11. Weigh(U, lists) = SumFunctionOnSet(fee, S)
  <2>1. [i \in DOMAIN lists |-> U[lists[i]]] = fee
    BY <1>3
  <2> HIDE DEF lists, U, fee
  <2> QED BY <1>3, <2>1 DEF Weigh
<1>12. IsFiniteSet(S)
  BY <1>1, FS_Interval
<1>13. /\ IntegersOn(one, S) /\ IntegersOn(two, S) /\ IntegersOn(fee, S) /\ IntegersOn(both, S)
       /\ \A i \in S : both[i] = one[i] + two[i]
       /\ \A i \in S : all[i] = both[i] + fee[i]
  <2>1. \A i \in S : both[i] = one[i] + two[i] /\ all[i] = both[i] + fee[i]
    OBVIOUS
  <2> HIDE DEF one, two, fee, both, all
  <2>2. \A i \in S : one[i] \in Nat /\ two[i] \in Nat /\ fee[i] \in Nat
    BY <1>6
  <2>3. \A i \in S : both[i] \in Int
    BY <2>1, <2>2
  <2> QED BY <2>1, <2>2, <2>3 DEF IntegersOn
<1>14. SumFunctionOnSet(one, S) = a /\ SumFunctionOnSet(two, S) = b
  <2>1. one \in Seq(Int) /\ two \in Seq(Int) /\ Weigh(Same, one) = a /\ Weigh(Same, two) = b
    BY <1>1, PartsAddUp DEF PartsOf
  <2>2. DOMAIN one = S /\ DOMAIN two = S
    OBVIOUS
  <2> HIDE DEF one, two
  <2> QED BY <2>1, <2>2, SumIsWeight DEF SumFunction
<1> HIDE DEF one, two, fee, both, all, S, V, U, pairs, lists
<1>15. /\ SumFunctionOnSet(both, S) = SumFunctionOnSet(one, S) + SumFunctionOnSet(two, S)
       /\ SumFunctionOnSet(both, S) \in Int
  BY <1>12, <1>13, SumPlus
<1>16. SumFunctionOnSet(all, S) = SumFunctionOnSet(both, S) + SumFunctionOnSet(fee, S)
  BY <1>12, <1>13, SumPlus
<1>17. Total(FlattenSeq(pairs)) = a + b + SumFunction(FlattenSeq(lists))
  BY <1>5, <1>9, <1>10, <1>11, <1>14, <1>15, <1>16
<1> QED BY <1>17 DEF pairs, lists, n

\* FDC offers add up to the inflation and all fees.
LEMMA FdcTotal ==
    ASSUME NEW a \in Nat, NEW configurations, HasShares(configurations),
           NEW rounds, rounds \in Seq(ToSet(rounds)), rounds # <<>>,
           \A i \in DOMAIN rounds : HasFees(rounds[i])
    PROVE  Total(FlattenSeq(FdcOffers(a, configurations, rounds)))
             = a + SumFunction(FlattenSeq(FeesOfRounds(rounds)))
<1> DEFINE D == DOMAIN configurations
           seldom == {i \in D : configurations[i].appearances < configurations[i].minRequests}
           b == (SharesIn(configurations, seldom) * a) \div SharesIn(configurations, D)
           n == Len(rounds)
           pairs == [i \in 1..n |-> FdcPair(a - b, b, n, i, rounds[i])]
           fees == SumFunction(FlattenSeq(FeesOfRounds(rounds)))
<1>1. b \in 0..a
  <2>1. seldom \in SUBSET DOMAIN configurations
    OBVIOUS
  <2> HIDE DEF seldom
  <2> QED BY <2>1, BurntIsPart
<1>2. FdcOffers(a, configurations, rounds) = pairs
  BY DEF FdcOffers, FdcPair, FeesFrom, SharesIn
<1> HIDE DEF b, fees
<1>3. b \in Nat /\ a - b \in Nat /\ (a - b) + b = a
  BY <1>1
<1>4. Total(FlattenSeq(pairs)) = (a - b) + b + fees
  <2> DEFINE x == a - b
  <2>1. x \in Nat
    BY <1>3
  <2> HIDE DEF x
  <2>2. Total(FlattenSeq([i \in 1..Len(rounds) |-> FdcPair(x, b, Len(rounds), i, rounds[i])]))
          = x + b + SumFunction(FlattenSeq(FeesOfRounds(rounds)))
    BY <1>3, <2>1, PairsAddUp
  <2> QED BY <2>2 DEF x, fees
<1> QED BY <1>2, <1>3, <1>4 DEF fees

-----------------------------------------------------------------------------
(* Groups of the same requests, and the bit votes that confirm them *)
\* Indices of a list, in their order.
LEMMA IndicesInOrder ==
    ASSUME NEW n \in Nat, NEW S \in SUBSET (1..n)
    PROVE  LET p == Picked([i \in 1..n |-> i], S)
           IN  /\ p \in Seq(Nat)
               /\ \A k \in DOMAIN p : p[k] \in S
               /\ \A i \in S : \E k \in DOMAIN p : p[k] = i
               /\ \A k, l \in DOMAIN p : k < l => p[k] < p[l]
<1> DEFINE list == [i \in 1..n |-> i]
           p == Picked(list, S)
<1>1. list \in Seq(Nat) /\ Len(list) = n /\ DOMAIN list = 1..n /\ \A i \in 1..n : list[i] = i
  OBVIOUS
<1> HIDE DEF list
<1>2. p \in Seq(Nat) /\ HasPlaces(p, list, S, n)
  BY <1>1, PickedPlaces
<1> HIDE DEF p
<1>3. PICK h : PlacesTo(h, p, list, S, n)
  BY <1>2 DEF HasPlaces
<1>4. DOMAIN p = 1..Len(p) /\ Len(p) \in Nat
  BY <1>2
<1>5. ASSUME NEW k \in DOMAIN p PROVE p[k] \in S /\ h[k] = p[k]
  BY <1>1, <1>3, <1>4, <1>5 DEF PlacesTo
<1>6. ASSUME NEW i \in S PROVE \E k \in DOMAIN p : p[k] = i
  BY <1>1, <1>3, <1>4, <1>5 DEF PlacesTo
<1>7. ASSUME NEW k \in DOMAIN p, NEW l \in DOMAIN p, k < l PROVE p[k] < p[l]
  <2>1. h[k] < h[l]
    BY <1>3, <1>4, <1>7 DEF PlacesTo
  <2> QED BY <2>1, <1>5
<1> QED BY <1>2, <1>5, <1>6, <1>7 DEF p, list

\* The first of the same requests each, in order.
FirstRequests(requests) ==
    {i \in DOMAIN requests : \A j \in 1..(i - 1) : requests[j] # requests[i]}

\* There is a group for each of them: it first, then the same requests.
GroupsOf(groups, firsts, requests) ==
    /\ firsts \in Seq(Nat) /\ DOMAIN groups = DOMAIN firsts /\ Len(groups) = Len(firsts)
    /\ \A k \in DOMAIN firsts :
          /\ firsts[k] \in FirstRequests(requests)
          /\ groups[k][1] = firsts[k]
          /\ ToSet(groups[k]) = {j \in DOMAIN requests : requests[j] = requests[firsts[k]]}
    /\ \A k, l \in DOMAIN firsts : k # l => firsts[k] # firsts[l]

\* Such are the groups of uniqueRequestsIndices.
LEMMA GroupsAre ==
    ASSUME NEW X, NEW requests \in Seq(X)
    PROVE  \E firsts : GroupsOf(UniqueRequests(requests), firsts, requests)
<1> DEFINE n == Len(requests)
           list == [i \in 1..n |-> i]
           same(i) == {j \in DOMAIN requests : requests[j] = requests[i]}
           F == FirstRequests(requests)
           firsts == Picked(list, F)
           groups == UniqueRequests(requests)
<1>1. n \in Nat /\ DOMAIN requests = 1..n
  OBVIOUS
<1>2. F \in SUBSET (1..n) /\ \A i \in 1..n : same(i) \in SUBSET (1..n)
  BY <1>1 DEF FirstRequests
<1>3. /\ firsts \in Seq(Nat)
      /\ \A k \in DOMAIN firsts : firsts[k] \in F
      /\ \A k, l \in DOMAIN firsts : k < l => firsts[k] < firsts[l]
  <2> HIDE DEF F, n
  <2> QED BY <1>1, <1>2, IndicesInOrder
<1>4. groups = [k \in DOMAIN firsts |-> Picked(list, same(firsts[k]))]
  BY <1>1 DEF UniqueRequests, FirstRequests
<1> HIDE DEF firsts, groups, F
<1>5. ASSUME NEW k \in DOMAIN firsts
      PROVE  groups[k][1] = firsts[k] /\ ToSet(groups[k]) = same(firsts[k])
  <2> DEFINE i == firsts[k]
             S == same(i)
             g == Picked(list, S)
  <2>1. i \in F /\ i \in 1..n
    BY <1>2, <1>3
  <2>2. S \in SUBSET (1..n) /\ i \in S
    BY <1>1, <1>2, <2>1
  <2> HIDE DEF S
  <2>3. /\ g \in Seq(Nat)
        /\ \A l \in DOMAIN g : g[l] \in S
        /\ \A j \in S : \E l \in DOMAIN g : g[l] = j
        /\ \A l, m \in DOMAIN g : l < m => g[l] < g[m]
    <3> HIDE DEF n
    <3> QED BY <1>1, <2>2, IndicesInOrder
  <2>4. groups[k] = g
    BY <1>4 DEF S
  <2> HIDE DEF g
  <2>5. ToSet(g) = S
    BY <2>3 DEF ToSet
  <2>6. PICK l \in DOMAIN g : g[l] = i
    BY <2>2, <2>3
  <2>7. DOMAIN g = 1..Len(g) /\ Len(g) \in Nat /\ 1 \in DOMAIN g /\ 1 <= l
    BY <2>3, <2>6
  <2>8. g[1] \in Nat /\ i \in Nat /\ g[1] \in S /\ g[1] <= i
    <3>1. g[1] \in Nat /\ g[1] \in S /\ g[l] \in Nat
      BY <2>3, <2>7
    <3>2. CASE l = 1
      BY <3>1, <3>2, <2>6
    <3>3. CASE 1 < l
      BY <3>1, <3>3, <2>3, <2>6, <2>7
    <3> QED BY <3>2, <3>3, <2>7
  <2>9. ~(g[1] < i)
    <3> SUFFICES ASSUME g[1] < i PROVE FALSE
      OBVIOUS
    <3>1. g[1] \in 1..(i - 1)
      BY <2>2, <2>8
    <3>2. requests[g[1]] # requests[i]
      BY <2>1, <3>1 DEF F, FirstRequests
    <3>3. requests[g[1]] = requests[i]
      BY <2>8 DEF S
    <3> QED BY <3>2, <3>3
  <2>10. g[1] = i
    BY <2>8, <2>9
  <2> QED BY <2>4, <2>5, <2>10 DEF S
<1>6. \A k, l \in DOMAIN firsts : k # l => firsts[k] # firsts[l]
  <2> SUFFICES ASSUME NEW k \in DOMAIN firsts, NEW l \in DOMAIN firsts, k # l
               PROVE  firsts[k] # firsts[l]
    OBVIOUS
  <2>1. k \in Nat /\ l \in Nat /\ firsts[k] \in Nat /\ firsts[l] \in Nat
    BY <1>3
  <2>2. k < l \/ l < k
    BY <2>1
  <2> QED BY <1>3, <2>1, <2>2
<1>7. DOMAIN groups = DOMAIN firsts /\ Len(groups) = Len(firsts)
  <2>1. DOMAIN groups = DOMAIN firsts
    BY <1>4
  <2>2. DOMAIN firsts = 1..Len(firsts) /\ Len(firsts) \in Nat
    BY <1>3
  <2> QED BY <2>1, <2>2
<1>8. GroupsOf(groups, firsts, requests)
  BY <1>3, <1>5, <1>6, <1>7 DEF GroupsOf, F
<1> QED BY <1>8 DEF groups

\* What counts for the appearances.
CountedOnce(requests, bits) ==
    LET marks == MarkRequests(requests, bits)
    IN  {j \in DOMAIN requests : marks[j].confirmed /\ ~marks[j].duplicate}

\* A bit vote of requests of the round: one counts for every bit.
LEMMA CountedAre ==
    ASSUME NEW X, NEW requests \in Seq(X), NEW bits, bits = Empty \/ bits \in SUBSET Nat,
           ~BitVoteThrows(requests, bits)
    PROVE  LET counted == CountedOnce(requests, bits)
           IN  /\ IsFiniteSet(counted)
               /\ Cardinality(counted) = IF bits = Empty THEN 0 ELSE Cardinality(bits)
<1> DEFINE groups == UniqueRequests(requests)
           chosen == IF bits = Empty THEN {} ELSE bits
           confirmed == IF bits = Empty THEN {} ELSE {groups[i + 1] : i \in bits}
           C == CountedOnce(requests, bits)
<1>1. PICK firsts : GroupsOf(groups, firsts, requests)
  BY GroupsAre
<1> HIDE DEF groups
<1>2. C = {j \in DOMAIN requests : /\ \E group \in confirmed : j \in ToSet(group)
                                   /\ ~\E group \in confirmed : j \in ToSet(group) /\ j # group[1]}
  BY DEF CountedOnce, MarkRequests, groups
<1>3. \A b \in chosen : b \in Nat /\ b + 1 \in DOMAIN firsts
  <2> SUFFICES ASSUME NEW b \in chosen PROVE b \in Nat /\ b + 1 \in DOMAIN firsts
    OBVIOUS
  <2>1. b \in Nat /\ bits # Empty /\ b \in bits
    OBVIOUS
  <2>2. ~(b >= Len(groups))
    BY <2>1 DEF BitVoteThrows, groups
  <2>3. DOMAIN firsts = 1..Len(firsts) /\ Len(firsts) \in Nat /\ Len(groups) = Len(firsts)
    BY <1>1 DEF GroupsOf
  <2> QED BY <2>1, <2>2, <2>3
<1>4. confirmed = {groups[b + 1] : b \in chosen}
  OBVIOUS
<1> HIDE DEF confirmed, C, chosen
<1>5. ASSUME NEW b \in chosen
      PROVE  /\ firsts[b + 1] \in FirstRequests(requests)
             /\ groups[b + 1][1] = firsts[b + 1]
             /\ ToSet(groups[b + 1]) = {j \in DOMAIN requests : requests[j] = requests[firsts[b + 1]]}
  BY <1>1, <1>3 DEF GroupsOf
<1>6. ASSUME NEW b \in chosen
      PROVE  firsts[b + 1] \in C
  <2> DEFINE j == firsts[b + 1]
  <2>1. j \in DOMAIN requests /\ j \in ToSet(groups[b + 1]) /\ groups[b + 1] \in confirmed
    BY <1>4, <1>5 DEF FirstRequests
  <2>2. ASSUME NEW c \in chosen, j \in ToSet(groups[c + 1]), j # groups[c + 1][1]
        PROVE  FALSE
    <3> DEFINE i == firsts[c + 1]
    <3>1. /\ i # j /\ requests[j] = requests[i]
          /\ i \in FirstRequests(requests) /\ j \in FirstRequests(requests)
      BY <1>5, <2>2
    <3>2. DOMAIN requests = 1..Len(requests) /\ Len(requests) \in Nat
      OBVIOUS
    <3> HIDE DEF i, j
    <3>3. i \in Nat /\ j \in Nat /\ i >= 1 /\ j >= 1 /\ (i < j \/ j < i)
      BY <3>1, <3>2 DEF FirstRequests
    <3>4. ~(i < j)
      BY <3>1, <3>3 DEF FirstRequests
    <3>5. ~(j < i)
      BY <3>1, <3>3 DEF FirstRequests
    <3> QED BY <3>3, <3>4, <3>5
  <2> HIDE DEF j
  <2> QED BY <1>2, <1>4, <2>1, <2>2 DEF j
<1>7. ASSUME NEW j \in C
      PROVE  \E b \in chosen : j = firsts[b + 1]
  <2>1. PICK b \in chosen : j \in ToSet(groups[b + 1])
    BY <1>2, <1>4
  <2>2. j = groups[b + 1][1]
    BY <1>2, <1>4, <2>1
  <2> QED BY <1>5, <2>2
<1> DEFINE f == [b \in chosen |-> firsts[b + 1]]
<1>8. \A b, c \in chosen : f[b] = f[c] => b = c
  <2> SUFFICES ASSUME NEW b \in chosen, NEW c \in chosen, b # c PROVE firsts[b + 1] # firsts[c + 1]
    OBVIOUS
  <2>1. b + 1 \in DOMAIN firsts /\ c + 1 \in DOMAIN firsts /\ b + 1 # c + 1
    BY <1>3
  <2> QED BY <1>1, <2>1 DEF GroupsOf
<1>9. f \in Bijection(chosen, C)
  <2>1. f \in [chosen -> C]
    BY <1>6
  <2>2. \A j \in C : \E b \in chosen : f[b] = j
    BY <1>7
  <2> HIDE DEF f
  <2> QED BY <1>8, <2>1, <2>2 DEF Bijection, Injection, IsInjective, Surjection
<1>10. IsFiniteSet(chosen)
  <2> DEFINE m == Len(firsts)
  <2>1. m \in Nat /\ \A b \in chosen : b \in 0..m
    <3>1. DOMAIN firsts = 1..m /\ m \in Nat
      BY <1>1 DEF GroupsOf
    <3> QED BY <1>3, <3>1
  <2> HIDE DEF m
  <2>2. IsFiniteSet(0..m)
    BY <2>1, FS_Interval
  <2> QED BY <2>1, <2>2, FS_Subset
<1>11. IsFiniteSet(C) /\ Cardinality(C) = Cardinality(chosen)
  <2>1. ExistsBijection(chosen, C)
    BY <1>9 DEF ExistsBijection
  <2> HIDE DEF f
  <2> QED BY <1>10, <2>1, FS_Bijection
<1>12. Cardinality(chosen) = IF bits = Empty THEN 0 ELSE Cardinality(bits)
  BY FS_EmptySet DEF chosen
<1> QED BY <1>11, <1>12 DEF C
=============================================================================
