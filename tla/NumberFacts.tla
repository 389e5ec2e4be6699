---------------------------- MODULE NumberFacts ----------------------------
(***************************************************************************)
(* Facts about numbers that the proofs rest on: smallest and largest       *)
(* elements (Min and Max of FiniteSetsExt), sums (SumFunctionOnSet of      *)
(* Functions) and division.                                                *)
(***************************************************************************)
EXTENDS FiniteSetsExt, Functions, FiniteSetTheorems, TLAPS

-----------------------------------------------------------------------------
(* Smallest and largest elements *)

\* A set of natural numbers that is not empty has a smallest element.  The
\* intervals from 1 to its elements are finite sets, so one of them contains no
\* other.
LEMMA LeastNatural ==
    ASSUME NEW T \in SUBSET Nat, T # {}
    PROVE  \E n \in T : \A m \in T : n <= m
<1> DEFINE Upto(n) == 1..n
           U == {Upto(n) : n \in T}
<1>1. \A n \in T : IsFiniteSet(Upto(n)) /\ Upto(n) \in SUBSET Nat
  BY FS_Interval
<1>2. U \subseteq FiniteSubsetsOf(Nat) /\ U # {}
  BY <1>1 DEF FiniteSubsetsOf
<1>3. PICK u \in U : \A v \in U : <<v, u>> \notin StrictSubsetOrdering(Nat)
  <2> HIDE DEF U
  <2> QED BY <1>2, FS_StrictSubsetOrderingWellFounded, WFMin
<1>4. PICK n \in T : u = Upto(n)
  OBVIOUS
<1>5. ASSUME NEW m \in T, m < n
      PROVE  FALSE
  <2>1. n \in Upto(n) /\ n \notin Upto(m) /\ Upto(m) \subseteq Upto(n)
    BY <1>5
  <2>2. <<Upto(m), Upto(n)>> \in StrictSubsetOrdering(Nat)
    BY <1>1, <2>1 DEF StrictSubsetOrdering
  <2> QED BY <1>3, <1>4, <2>2
<1> QED BY <1>4, <1>5

\* Min(S) is what its name says.
LEMMA MinOfNaturals ==
    ASSUME NEW S \in SUBSET Nat, S # {}
    PROVE  Min(S) \in S /\ \A m \in S : Min(S) <= m
BY LeastNatural DEF Min

\* Max(S) is what its name says, for a set with a bound.
LEMMA MaxOfNaturals ==
    ASSUME NEW S \in SUBSET Nat, S # {}, NEW bound \in Nat, \A m \in S : m <= bound
    PROVE  Max(S) \in S /\ \A m \in S : m <= Max(S)
<1> DEFINE T == {bound - m : m \in S}
<1>1. T \in SUBSET Nat /\ T # {}
  <2>1. \A m \in S : m \in Nat /\ m <= bound
    OBVIOUS
  <2>2. \A m \in S : bound - m \in Nat
    BY <2>1
  <2> QED BY <2>2
<1>2. PICK t \in T : \A x \in T : t <= x
  BY <1>1, LeastNatural
<1>3. PICK n \in S : t = bound - n
  OBVIOUS
<1>4. \A m \in S : m <= n
  BY <1>2, <1>3
<1> QED BY <1>4 DEF Max

-----------------------------------------------------------------------------
(* Sums: SumFunctionOnSet takes one element after the other with CHOOSE, so *)
(* that the order does not matter has to be proved.                         *)

\* g sums up f over the subsets of S.
IsSum(g, f, S) ==
    g = [s \in SUBSET S |-> IF s = {} THEN 0
                            ELSE f[CHOOSE x \in s : TRUE] + g[s \ {CHOOSE x \in s : TRUE}]]

\* SumFunctionOnSet is the value of such a function, if there is one.
LEMMA SumUnfold ==
    ASSUME NEW f, NEW S, NEW g0, IsSum(g0, f, S)
    PROVE  \E g : IsSum(g, f, S) /\ SumFunctionOnSet(f, S) = g[S]
<1> DEFINE It == CHOOSE g : IsSum(g, f, S)
<1>1. IsSum(It, f, S)
  OBVIOUS
<1>2. SumFunctionOnSet(f, S) = It[S]
  BY DEF SumFunctionOnSet, FoldFunctionOnSet, MapThenFoldSet, IsSum
<1> QED BY <1>1, <1>2

\* One element less.
LEMMA OneLess ==
    ASSUME NEW S, IsFiniteSet(S), NEW s \in SUBSET S, NEW x \in s
    PROVE  /\ IsFiniteSet(s) /\ s \ {x} \in SUBSET S /\ IsFiniteSet(s \ {x})
           /\ Cardinality(s) \in Nat \ {0}
           /\ Cardinality(s \ {x}) = Cardinality(s) - 1
<1>1. IsFiniteSet(s)
  BY FS_Subset
<1>2. Cardinality(s) \in Nat /\ Cardinality(s) # 0
  BY <1>1, FS_CardinalityType, FS_EmptySet
<1>3. IsFiniteSet(s \ {x}) /\ Cardinality(s \ {x}) = Cardinality(s) - 1
  BY <1>1, FS_RemoveElement
<1> QED BY <1>1, <1>2, <1>3

\* There is such a function: it is known for the sets of up to n elements, for
\* every n.
LEMMA SumDefined ==
    ASSUME NEW S, IsFiniteSet(S), NEW f, \A x \in S : f[x] \in Int
    PROVE  \E g \in [SUBSET S -> Int] : IsSum(g, f, S)
<1> DEFINE Pick(s) == CHOOSE x \in s : TRUE
           Upto(g, n) == \A s \in SUBSET S : Cardinality(s) <= n =>
                            g[s] = IF s = {} THEN 0 ELSE f[Pick(s)] + g[s \ {Pick(s)}]
           Bad == {n \in Nat : ~\E g \in [SUBSET S -> Int] : Upto(g, n)}
<1>0. \A s \in SUBSET S : s # {} => Pick(s) \in s /\ f[Pick(s)] \in Int
  OBVIOUS
<1> HIDE DEF Pick
<1>1. \A s \in SUBSET S : s # {} =>
         /\ s \ {Pick(s)} \in SUBSET S
         /\ Cardinality(s) \in Nat \ {0}
         /\ Cardinality(s \ {Pick(s)}) = Cardinality(s) - 1
  BY <1>0, OneLess
<1>2. ASSUME NEW n \in Nat, n \in Bad, \A m \in Bad : n <= m
      PROVE  FALSE
  <2>1. CASE n = 0
    <3> DEFINE g == [s \in SUBSET S |-> 0]
    <3>1. g \in [SUBSET S -> Int]
      OBVIOUS
    <3>2. \A s \in SUBSET S : Cardinality(s) <= 0 => s = {} /\ g[s] = 0
      <4>1. \A s \in SUBSET S : s # {} => ~(Cardinality(s) <= 0)
        <5> TAKE s \in SUBSET S
        <5> HAVE s # {}
        <5>1. Cardinality(s) \in Nat \ {0}
          BY <1>1
        <5> QED BY <5>1
      <4> QED BY <4>1
    <3> HIDE DEF g
    <3>3. Upto(g, 0)
      BY <3>2
    <3> QED BY <2>1, <3>1, <3>3, <1>2
  <2>2. CASE n # 0
    <3>1. n - 1 \in Nat /\ n - 1 \notin Bad
      <4>1. n - 1 \in Nat /\ ~(n <= n - 1)
        BY <2>2, <1>2
      <4> HIDE DEF Bad
      <4> QED BY <4>1, <1>2
    <3>2. PICK g \in [SUBSET S -> Int] : Upto(g, n - 1)
      BY <3>1
    <3> DEFINE h == [s \in SUBSET S |-> IF s # {} /\ Cardinality(s) = n
                                        THEN f[Pick(s)] + g[s \ {Pick(s)}] ELSE g[s]]
    <3>3. h \in [SUBSET S -> Int]
      BY <1>0
    <3>4. ASSUME NEW s \in SUBSET S, Cardinality(s) <= n
          PROVE  h[s] = IF s = {} THEN 0 ELSE f[Pick(s)] + h[s \ {Pick(s)}]
      <4>1. CASE s = {}
        <5>1. Cardinality(s) = 0
          BY <4>1, FS_EmptySet
        <5> QED BY <3>1, <3>2, <4>1, <5>1
      <4>2. CASE s # {}
        <5> DEFINE r == s \ {Pick(s)}
        <5>1. r \in SUBSET S /\ Cardinality(r) = Cardinality(s) - 1 /\ Cardinality(s) \in Nat
          BY <1>1, <4>2
        <5> HIDE DEF r
        <5>2. h[r] = g[r]
          BY <1>2, <3>4, <5>1
        <5>3. h[s] = f[Pick(s)] + g[r]
          BY <1>2, <3>1, <3>2, <3>4, <4>2, <5>1 DEF r
        <5> QED BY <4>2, <5>2, <5>3 DEF r
      <4> QED BY <4>1, <4>2
    <3>5. Upto(h, n)
      BY <3>4
    <3> HIDE DEF h
    <3> QED BY <1>2, <3>3, <3>5
  <2> QED BY <2>1, <2>2
<1>3. Bad = {}
  <2>1. Bad \in SUBSET Nat
    OBVIOUS
  <2> HIDE DEF Bad
  <2> QED BY <1>2, <2>1, LeastNatural
<1>4. Cardinality(S) \in Nat /\ \A s \in SUBSET S : Cardinality(s) <= Cardinality(S)
  BY FS_CardinalityType, FS_Subset
<1>5. PICK g \in [SUBSET S -> Int] : Upto(g, Cardinality(S))
  BY <1>3, <1>4
<1>6. \A s \in SUBSET S : g[s] = IF s = {} THEN 0 ELSE f[Pick(s)] + g[s \ {Pick(s)}]
  BY <1>4, <1>5
<1>7. IsSum(g, f, S)
  BY <1>6 DEF IsSum, Pick
<1> QED BY <1>7

\* The sum does not depend on the order: any element may be taken first.
AnyFirst(g, f, S) == \A s \in SUBSET S : \A x \in s : g[s] = f[x] + g[s \ {x}]

LEMMA SumAnyFirst ==
    ASSUME NEW S, IsFiniteSet(S), NEW f, \A x \in S : f[x] \in Int,
           NEW g \in [SUBSET S -> Int], IsSum(g, f, S)
    PROVE  AnyFirst(g, f, S)
<1> DEFINE Pick(u) == CHOOSE y \in u : TRUE
           Bad == {n \in Nat : \E u \in SUBSET S : Cardinality(u) = n /\ \E y \in u :
                                  g[u] # f[y] + g[u \ {y}]}
<1>0. \A u \in SUBSET S : u # {} => Pick(u) \in u /\ g[u] = f[Pick(u)] + g[u \ {Pick(u)}]
  BY DEF IsSum
<1> HIDE DEF Pick
<1>2. ASSUME NEW n \in Nat, n \in Bad, \A m \in Bad : n <= m
      PROVE  FALSE
  <2>1. PICK u \in SUBSET S : Cardinality(u) = n /\ \E z \in u : g[u] # f[z] + g[u \ {z}]
    BY <1>2
  <2>8. PICK y \in u : g[u] # f[y] + g[u \ {y}]
    BY <2>1
  <2> DEFINE p == Pick(u)
  <2>2. p \in u /\ g[u] = f[p] + g[u \ {p}] /\ p # y
    BY <1>0, <2>1, <2>8
  <2> HIDE DEF p
  <2>3. /\ u \ {p} \in SUBSET S /\ Cardinality(u \ {p}) = n - 1
        /\ u \ {y} \in SUBSET S /\ Cardinality(u \ {y}) = n - 1
        /\ n - 1 \in Nat
    <3>1. /\ u \ {p} \in SUBSET S /\ Cardinality(u \ {p}) = Cardinality(u) - 1
          /\ Cardinality(u) \in Nat \ {0}
      BY <2>2, OneLess
    <3>2. u \ {y} \in SUBSET S /\ Cardinality(u \ {y}) = Cardinality(u) - 1
      BY OneLess
    <3> QED BY <2>1, <3>1, <3>2
  <2>4. n - 1 \notin Bad
    <3>1. ~(n <= n - 1)
      BY <1>2
    <3> HIDE DEF Bad
    <3> QED BY <3>1, <1>2
  <2>5. /\ g[u \ {p}] = f[y] + g[(u \ {p}) \ {y}]
        /\ g[u \ {y}] = f[p] + g[(u \ {y}) \ {p}]
    BY <2>2, <2>3, <2>4
  <2> DEFINE c == g[(u \ {y}) \ {p}]
  <2>6. (u \ {p}) \ {y} = (u \ {y}) \ {p} /\ (u \ {y}) \ {p} \in SUBSET S
    OBVIOUS
  <2>7. f[p] \in Int /\ f[y] \in Int /\ c \in Int
    BY <2>2, <2>6
  <2>9. g[u \ {p}] = f[y] + c /\ g[u \ {y}] = f[p] + c
    BY <2>5, <2>6
  <2> HIDE DEF c
  <2> QED BY <2>2, <2>7, <2>8, <2>9
<1>3. Bad = {}
  <2>1. Bad \in SUBSET Nat
    OBVIOUS
  <2> HIDE DEF Bad
  <2> QED BY <1>2, <2>1, LeastNatural
<1>4. \A s \in SUBSET S : Cardinality(s) \in Nat
  BY FS_Subset, FS_CardinalityType
<1> QED BY <1>3, <1>4 DEF AnyFirst

\* Two functions that agree have the same sums, whatever larger set they are known on.
LEMMA SumUnique ==
    ASSUME NEW S, IsFiniteSet(S), NEW T \in SUBSET S, NEW e, NEW f, \A x \in T : e[x] = f[x],
           NEW g, IsSum(g, e, S), NEW h, IsSum(h, f, T)
    PROVE  g[T] = h[T]
<1> DEFINE Pick(u) == CHOOSE y \in u : TRUE
           Bad == {n \in Nat : \E u \in SUBSET T : Cardinality(u) = n /\ g[u] # h[u]}
<1>0. \A u \in SUBSET T :
         /\ u \in SUBSET S
         /\ u = {} => g[u] = 0 /\ h[u] = 0
         /\ u # {} => /\ Pick(u) \in u
                      /\ g[u] = e[Pick(u)] + g[u \ {Pick(u)}]
                      /\ h[u] = f[Pick(u)] + h[u \ {Pick(u)}]
  BY DEF IsSum
<1> HIDE DEF Pick
<1>2. ASSUME NEW n \in Nat, n \in Bad, \A m \in Bad : n <= m
      PROVE  FALSE
  <2>1. PICK u \in SUBSET T : Cardinality(u) = n /\ g[u] # h[u]
    BY <1>2
  <2> DEFINE p == Pick(u)
  <2>2. /\ p \in u /\ e[p] = f[p]
        /\ g[u] = e[p] + g[u \ {p}] /\ h[u] = f[p] + h[u \ {p}]
    BY <1>0, <2>1
  <2> HIDE DEF p
  <2>3. /\ u \ {p} \in SUBSET T /\ Cardinality(u \ {p}) = n - 1 /\ n - 1 \in Nat
    <3>1. IsFiniteSet(T)
      BY FS_Subset
    <3>2. /\ u \ {p} \in SUBSET T /\ Cardinality(u \ {p}) = Cardinality(u) - 1
          /\ Cardinality(u) \in Nat \ {0}
      BY <2>2, <3>1, OneLess
    <3> QED BY <2>1, <3>2
  <2>4. n - 1 \notin Bad
    <3>1. ~(n <= n - 1)
      BY <1>2
    <3> HIDE DEF Bad
    <3> QED BY <3>1, <1>2
  <2>5. g[u \ {p}] = h[u \ {p}]
    BY <2>3, <2>4
  <2> QED BY <2>1, <2>2, <2>5
<1>3. Bad = {}
  <2>1. Bad \in SUBSET Nat
    OBVIOUS
  <2> HIDE DEF Bad
  <2> QED BY <1>2, <2>1, LeastNatural
<1>4. Cardinality(T) \in Nat
  BY FS_Subset, FS_CardinalityType
<1> QED BY <1>3, <1>4

\* All values of f on S are numbers.
IntegersOn(f, S) == \A x \in S : f[x] \in Int

\* What SumFunctionOnSet is: one element, and the sum of the others.
LEMMA SumTake ==
    ASSUME NEW S, IsFiniteSet(S), NEW f, \A x \in S : f[x] \in Int
    PROVE  /\ SumFunctionOnSet(f, S) \in Int
           /\ S = {} => SumFunctionOnSet(f, S) = 0
           /\ \A x \in S : SumFunctionOnSet(f, S) = f[x] + SumFunctionOnSet(f, S \ {x})
<1>1. PICK g \in [SUBSET S -> Int] : IsSum(g, f, S)
  BY SumDefined
<1>2. SumFunctionOnSet(f, S) = g[S]
  <2>1. PICK h : IsSum(h, f, S) /\ SumFunctionOnSet(f, S) = h[S]
    BY <1>1, SumUnfold
  <2> QED BY <1>1, <2>1, SumUnique
<1>3. ASSUME NEW x \in S
      PROVE  SumFunctionOnSet(f, S) = f[x] + SumFunctionOnSet(f, S \ {x})
  <2> DEFINE R == S \ {x}
  <2>1. R \in SUBSET S /\ IsFiniteSet(R) /\ \A y \in R : f[y] \in Int
    BY FS_Subset
  <2>2. g[S] = f[x] + g[R]
    <3>1. AnyFirst(g, f, S)
      BY <1>1, SumAnyFirst
    <3>2. S \in SUBSET S
      OBVIOUS
    <3> QED BY <3>1, <3>2 DEF AnyFirst
  <2> HIDE DEF R
  <2>3. PICK k : IsSum(k, f, R)
    BY <2>1, SumDefined
  <2>4. PICK h : IsSum(h, f, R) /\ SumFunctionOnSet(f, R) = h[R]
    BY <2>3, SumUnfold
  <2>5. g[R] = h[R]
    BY <1>1, <2>1, <2>4, SumUnique
  <2> QED BY <1>2, <2>2, <2>4, <2>5 DEF R
<1>4. S = {} => g[S] = 0
  BY <1>1 DEF IsSum
<1> QED BY <1>1, <1>2, <1>3, <1>4

\* The same for one element.
LEMMA SumOne ==
    ASSUME NEW S, IsFiniteSet(S), NEW f, IntegersOn(f, S), NEW x \in S
    PROVE  /\ SumFunctionOnSet(f, S) \in Int /\ f[x] \in Int
           /\ SumFunctionOnSet(f, S \ {x}) \in Int
           /\ SumFunctionOnSet(f, S) = f[x] + SumFunctionOnSet(f, S \ {x})
<1>1. \A y \in S : f[y] \in Int
  BY DEF IntegersOn
<1>2. IsFiniteSet(S \ {x})
  BY FS_RemoveElement
<1>3. \A y \in S \ {x} : f[y] \in Int
  BY <1>1
<1>4. SumFunctionOnSet(f, S \ {x}) \in Int
  BY <1>2, <1>3, SumTake
<1> QED BY <1>1, <1>4, SumTake

\* Only the values on the set count.
LEMMA SumSame ==
    ASSUME NEW S, IsFiniteSet(S), NEW e, NEW f, \A x \in S : e[x] = f[x] /\ f[x] \in Int
    PROVE  SumFunctionOnSet(e, S) = SumFunctionOnSet(f, S)
<1>1. PICK g0, h0 : IsSum(g0, e, S) /\ IsSum(h0, f, S)
  BY SumDefined
<1>2. PICK g : IsSum(g, e, S) /\ SumFunctionOnSet(e, S) = g[S]
  BY <1>1, SumUnfold
<1>3. PICK h : IsSum(h, f, S) /\ SumFunctionOnSet(f, S) = h[S]
  BY <1>1, SumUnfold
<1> QED BY <1>2, <1>3, SumUnique

\* What is so of no elements, and stays so with one more, is so of all.
LEMMA ElementByElement ==
    ASSUME NEW S, IsFiniteSet(S), NEW P, {} \in P,
           \A U \in SUBSET S, x \in S : x \notin U /\ U \in P => U \cup {x} \in P
    PROVE  S \in P
<1> DEFINE Bad == {n \in Nat : \E U \in SUBSET S : Cardinality(U) = n /\ U \notin P}
<1>1. ASSUME NEW n \in Nat, n \in Bad, \A m \in Bad : n <= m
      PROVE  FALSE
  <2>1. PICK U \in SUBSET S : Cardinality(U) = n /\ U \notin P
    BY <1>1
  <2>2. U # {}
    BY <2>1
  <2>3. PICK x : x \in U
    BY <2>2
  <2> DEFINE V == U \ {x}
  <2>4. V \in SUBSET S /\ x \in S /\ x \notin V /\ V \cup {x} = U
    BY <2>3
  <2>5. Cardinality(V) = n - 1 /\ n - 1 \in Nat
    <3>1. IsFiniteSet(U)
      BY FS_Subset
    <3>2. Cardinality(V) = Cardinality(U) - 1 /\ Cardinality(U) \in Nat \ {0}
      BY <3>1, <2>3, OneLess
    <3> QED BY <3>2, <2>1
  <2> HIDE DEF V
  <2>6. V \notin P
    BY <2>1, <2>4
  <2>7. n - 1 \in Bad
    BY <2>4, <2>5, <2>6
  <2>8. n <= n - 1
    BY <2>7, <1>1
  <2> QED BY <2>8
<1>2. Bad = {}
  <2>1. Bad \in SUBSET Nat
    OBVIOUS
  <2> HIDE DEF Bad
  <2> QED BY <1>1, <2>1, LeastNatural
<1>3. Cardinality(S) \in Nat /\ S \in SUBSET S
  BY FS_CardinalityType
<1> QED BY <1>2, <1>3

\* A sum over two parts of a set.
LEMMA SumSplit ==
    ASSUME NEW S, IsFiniteSet(S), NEW f, IntegersOn(f, S), NEW A \in SUBSET S
    PROVE  /\ SumFunctionOnSet(f, A) \in Int /\ SumFunctionOnSet(f, S \ A) \in Int
           /\ SumFunctionOnSet(f, S) = SumFunctionOnSet(f, A) + SumFunctionOnSet(f, S \ A)
<1>1. ASSUME NEW U \in SUBSET S
      PROVE  IsFiniteSet(U) /\ SumFunctionOnSet(f, U) \in Int /\ \A x \in U : f[x] \in Int
  <2>1. IsFiniteSet(U) /\ \A x \in U : f[x] \in Int
    BY FS_Subset DEF IntegersOn
  <2> QED BY <2>1, SumTake
<1> DEFINE P == {U \in SUBSET S : SumFunctionOnSet(f, S) = SumFunctionOnSet(f, U) + SumFunctionOnSet(f, S \ U)}
<1>2. {} \in P
  <2>1. IsFiniteSet({}) /\ \A x \in {} : f[x] \in Int
    BY FS_EmptySet
  <2>2. SumFunctionOnSet(f, {}) = 0
    BY <2>1, SumTake
  <2>3. S \ {} = S /\ SumFunctionOnSet(f, S) \in Int
    BY <1>1
  <2> QED BY <2>2, <2>3
<1>3. ASSUME NEW U \in SUBSET A, NEW x \in A, x \notin U, U \in P
      PROVE  U \cup {x} \in P
  <2> DEFINE V == U \cup {x}
             R == S \ U
             Q == S \ V
  <2>1. /\ V \in SUBSET S /\ R \in SUBSET S /\ Q \in SUBSET S /\ U \in SUBSET S
        /\ V \ {x} = U /\ R \ {x} = Q /\ x \in V /\ x \in R
    BY <1>3
  <2> HIDE DEF V, R, Q
  <2>2. SumFunctionOnSet(f, V) = f[x] + SumFunctionOnSet(f, U)
    <3>1. IsFiniteSet(V) /\ \A y \in V : f[y] \in Int
      BY <1>1, <2>1
    <3> QED BY <3>1, <2>1, SumTake
  <2>3. SumFunctionOnSet(f, R) = f[x] + SumFunctionOnSet(f, Q)
    <3>1. IsFiniteSet(R) /\ \A y \in R : f[y] \in Int
      BY <1>1, <2>1
    <3> QED BY <3>1, <2>1, SumTake
  <2>4. SumFunctionOnSet(f, S) = SumFunctionOnSet(f, U) + SumFunctionOnSet(f, R)
    BY <1>3 DEF R
  <2>5. f[x] \in Int /\ SumFunctionOnSet(f, U) \in Int /\ SumFunctionOnSet(f, Q) \in Int
    BY <1>1, <2>1
  <2>6. SumFunctionOnSet(f, S) = SumFunctionOnSet(f, V) + SumFunctionOnSet(f, Q)
    BY <2>2, <2>3, <2>4, <2>5
  <2> QED BY <2>1, <2>6 DEF V, Q
<1>4. A \in P
  <2>1. IsFiniteSet(A)
    BY <1>1
  <2> HIDE DEF P
  <2> QED BY <1>2, <1>3, <2>1, ElementByElement
<1> QED BY <1>1, <1>4

\* The sum of sums is a sum, element by element.
LEMMA SumPlus ==
    ASSUME NEW S, IsFiniteSet(S), NEW f, IntegersOn(f, S), NEW g, IntegersOn(g, S),
           NEW h, \A x \in S : h[x] = f[x] + g[x]
    PROVE  /\ SumFunctionOnSet(f, S) \in Int /\ SumFunctionOnSet(g, S) \in Int
           /\ SumFunctionOnSet(h, S) = SumFunctionOnSet(f, S) + SumFunctionOnSet(g, S)
<1>1. IntegersOn(h, S)
  BY DEF IntegersOn
<1> DEFINE Sums(k, U) == SumFunctionOnSet(k, U) \in Int /\ \A x \in U : SumFunctionOnSet(k, U) = k[x] + SumFunctionOnSet(k, U \ {x})
<1>2. ASSUME NEW U \in SUBSET S
      PROVE  Sums(f, U) /\ Sums(g, U) /\ Sums(h, U)
  <2>1. /\ IsFiniteSet(U)
        /\ \A x \in U : f[x] \in Int
        /\ \A x \in U : g[x] \in Int
        /\ \A x \in U : h[x] \in Int
    BY FS_Subset, <1>1 DEF IntegersOn
  <2>2. Sums(f, U)
    BY <2>1, SumTake
  <2>3. Sums(g, U)
    BY <2>1, SumTake
  <2>4. Sums(h, U)
    BY <2>1, SumTake
  <2> QED BY <2>2, <2>3, <2>4
<1> DEFINE P == {U \in SUBSET S : SumFunctionOnSet(h, U) = SumFunctionOnSet(f, U) + SumFunctionOnSet(g, U)}
<1>3. {} \in P
  <2>1. IsFiniteSet({}) /\ \A k : \A x \in {} : k[x] \in Int
    BY FS_EmptySet
  <2>2. \A k : SumFunctionOnSet(k, {}) = 0
    BY <2>1, SumTake
  <2>3. SumFunctionOnSet(f, {}) = 0 /\ SumFunctionOnSet(g, {}) = 0 /\ SumFunctionOnSet(h, {}) = 0
    BY <2>2
  <2> QED BY <2>3
<1>4. ASSUME NEW U \in SUBSET S, NEW x \in S, x \notin U, U \in P
      PROVE  U \cup {x} \in P
  <2> DEFINE V == U \cup {x}
  <2>1. V \in SUBSET S /\ V \ {x} = U /\ x \in V
    BY <1>4
  <2> HIDE DEF V
  <2>2. /\ SumFunctionOnSet(f, V) = f[x] + SumFunctionOnSet(f, U)
        /\ SumFunctionOnSet(g, V) = g[x] + SumFunctionOnSet(g, U)
        /\ SumFunctionOnSet(h, V) = h[x] + SumFunctionOnSet(h, U)
        /\ SumFunctionOnSet(f, U) \in Int /\ SumFunctionOnSet(g, U) \in Int
    BY <1>2, <2>1
  <2>3. f[x] \in Int /\ g[x] \in Int /\ h[x] = f[x] + g[x]
    BY DEF IntegersOn
  <2>4. SumFunctionOnSet(h, U) = SumFunctionOnSet(f, U) + SumFunctionOnSet(g, U)
    BY <1>4
  <2>5. SumFunctionOnSet(h, V) = SumFunctionOnSet(f, V) + SumFunctionOnSet(g, V)
    BY <2>2, <2>3, <2>4
  <2> QED BY <2>1, <2>5 DEF V
<1>5. S \in P
  <2> HIDE DEF P
  <2> QED BY <1>3, <1>4, ElementByElement
<1>6. S \in SUBSET S
  OBVIOUS
<1>7. Sums(f, S) /\ Sums(g, S)
  BY <1>2, <1>6
<1> QED BY <1>5, <1>7

-----------------------------------------------------------------------------
(* Division *)

\* An opposite is a difference.
LEMMA MinusIs == \A x \in Int : -x = 0 - x
OBVIOUS

\* Nothing is its own opposite.
LEMMA MinusNothing == ASSUME NEW x \in Int, x = 0 PROVE -x = 0
<1>1. -x = 0 - x
  BY ONLY MinusIs, x \in Int
<1>2. 0 - x = 0
  OBVIOUS
<1> QED BY ONLY <1>1, <1>2, Zenon

\* Larger numbers have larger multiples.
LEMMA MulMonotone ==
    ASSUME NEW a \in Int, NEW b \in Int, NEW c \in Nat, a <= b
    PROVE  a * c <= b * c
OBVIOUS

\* Multiples compare as the numbers do.
LEMMA MulCancel ==
    ASSUME NEW a \in Int, NEW b \in Int, NEW c \in Nat \ {0}, a * c <= b * c
    PROVE  a <= b
OBVIOUS

\* The quotient is the number of whole times.
LEMMA DivFloor ==
    ASSUME NEW a \in Nat, NEW b \in Nat \ {0}
    PROVE  /\ a \div b \in Nat
           /\ (a \div b) * b <= a
           /\ a < (a \div b + 1) * b
OBVIOUS

\* It is the largest one that fits.
LEMMA DivGreatest ==
    ASSUME NEW a \in Nat, NEW b \in Nat \ {0}, NEW q \in Nat, q * b <= a
    PROVE  q <= a \div b
<1>1. a \div b \in Nat /\ a < (a \div b + 1) * b
  BY DivFloor
<1>2. SUFFICES ASSUME a \div b < q PROVE FALSE
  BY <1>1
<1>3. (a \div b + 1) * b <= q * b
  BY <1>1, <1>2, MulMonotone
<1> QED BY <1>1, <1>3

\* A part by weight is at most the whole, and all of it for the whole weight.
LEMMA PartOfWhole ==
    ASSUME NEW w \in Nat, NEW a \in Nat, NEW b \in Nat \ {0}, w <= b
    PROVE  /\ (w * a) \div b \in 0..a
           /\ w = b => (w * a) \div b = a
<1>1. w * a \in Nat /\ (w * a) \div b \in Nat
  BY DivFloor
<1>2. (w * a) \div b <= a
  OBVIOUS
<1>3. (b * a) \div b = a
  OBVIOUS
<1> QED BY <1>1, <1>2, <1>3
=============================================================================
