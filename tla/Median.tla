------------------------------- MODULE Median -------------------------------
(***************************************************************************)
(* The weighted median and the quartiles of a feed (ftso-median.ts), from  *)
(* the values the voters revealed (FeedValueEncoder.ts).                   *)
(*                                                                         *)
(* A voter's values are a sequence over the feeds, Empty where it gave     *)
(* none.  Decimals are left out: every value has those of its feed.        *)
(* Positions start at 1 here and at 0 in the code.                         *)
(***************************************************************************)
EXTENDS Integers, Sequences, SequencesExt, FiniteSetsExt, Functions

CONSTANTS Empty,   \* an empty value, or no reveal
          Offset   \* 2^31 in the code: what is added to a value to encode it

-----------------------------------------------------------------------------
\* Values on the wire: 0 stands for an empty value, trailing ones are stripped
\* but for the first.  encode throws for values that do not fit.
Encodable(v) == v = Empty \/ (v + Offset > 0 /\ v + Offset < 2 * Offset)

\* Mutant: stripping goes on to the first value.
StripEmptyAll(codes) ==
    SubSeq(codes, 1, Max({0} \cup {i \in DOMAIN codes : codes[i] # 0}))

StripEmpty(codes) ==
    SubSeq(codes, 1, Max({1} \cup {i \in DOMAIN codes : codes[i] # 0}))

Encode(values) ==
    StripEmpty([i \in DOMAIN values |-> IF values[i] = Empty THEN 0 ELSE values[i] + Offset])

\* decode of a payload for n feeds throws without any value (match yields null),
\* with values for more feeds, and when a value is cut off, which is Empty here.
Decodable(codes, n) == Len(codes) \in 1..n /\ \A i \in DOMAIN codes : codes[i] # Empty

Decode(codes, n) ==
    [i \in 1..n |-> IF i > Len(codes) \/ codes[i] = 0 THEN Empty ELSE codes[i] - Offset]

-----------------------------------------------------------------------------
\* The voters with a value, by value and then by position (repack, filter and
\* the stable sort of calculateMedian).
VotersByValue(values) ==
    SetToSortSeq({i \in DOMAIN values : values[i] # Empty},
                 LAMBDA i, j : values[i] < values[j] \/ (values[i] = values[j] /\ i < j))

WeightOf(weights, voters) == SumFunction([k \in DOMAIN voters |-> weights[voters[k]]])

\* The first voter of a list with which the weight passes a bound.
FirstPast(weights, voters, Past(_)) ==
    LET reached == {k \in DOMAIN voters : Past(WeightOf(weights, SubSeq(voters, 1, k)))} IN
    IF reached = {} THEN 0 ELSE Min(reached)

NoMedian == [median |-> Empty, quartile1 |-> Empty, quartile3 |-> Empty,
                participating |-> 0, throws |-> FALSE]

\* Mutant: an even weight takes the lower of the two middle values.
CalculateMedianLower(values, weights) ==
    LET voters == VotersByValue(values)
        total == WeightOf(weights, voters)
        border(vs) == FirstPast(weights, vs, LAMBDA w : w > total \div 4)
        middle == FirstPast(weights, voters, LAMBDA w : w >= (total + 1) \div 2)
        valueAt(vs, k) == IF k = 0 THEN Empty ELSE values[vs[k]]
    IN  IF voters = <<>> THEN NoMedian
        ELSE [median |-> valueAt(voters, middle),
              quartile1 |-> valueAt(voters, border(voters)),
              quartile3 |-> valueAt(Reverse(voters), border(Reverse(voters))),
              participating |-> total, throws |-> FALSE]

\* Mutant: half of an odd weight is rounded down.
CalculateMedianHalfDown(values, weights) ==
    LET voters == VotersByValue(values)
        total == WeightOf(weights, voters)
        border(vs) == FirstPast(weights, vs, LAMBDA w : w > total \div 4)
        middle == FirstPast(weights, voters, LAMBDA w : w >= total \div 2)
        valueAt(vs, k) == IF k = 0 THEN Empty ELSE values[vs[k]]
    IN  IF voters = <<>> THEN NoMedian
        ELSE [median |-> valueAt(voters, middle),
              quartile1 |-> valueAt(voters, border(voters)),
              quartile3 |-> valueAt(Reverse(voters), border(Reverse(voters))),
              participating |-> total, throws |-> FALSE]

\* Mutant: the third quartile starts at three quarters of the weight from below.
CalculateMedianQuartile3(values, weights) ==
    LET voters == VotersByValue(values)
        total == WeightOf(weights, voters)
        middle == FirstPast(weights, voters, LAMBDA w : w >= (total + 1) \div 2)
        valueAt(vs, k) == IF k = 0 THEN Empty ELSE values[vs[k]]
    IN  IF voters = <<>> THEN NoMedian
        ELSE [median |-> valueAt(voters, middle),
              quartile1 |-> valueAt(voters, FirstPast(weights, voters, LAMBDA w : w > total \div 4)),
              quartile3 |-> valueAt(voters, FirstPast(weights, voters, LAMBDA w : w > (3 * total) \div 4)),
              participating |-> total, throws |-> FALSE]

\* calculateMedian.  When a middle voter ends exactly at half of an even weight
\* the median is the floor of its and the next value's average; with no voter
\* next (all voters weigh nothing) the code reads a value of undefined and throws.
CalculateMedian(values, weights) ==
    LET voters == VotersByValue(values)
        total == WeightOf(weights, voters)
        border(vs) == FirstPast(weights, vs, LAMBDA w : w > total \div 4)
        half == (total + 1) \div 2
        middle == FirstPast(weights, voters, LAMBDA w : w >= half)
        even == total % 2 = 0 /\ WeightOf(weights, SubSeq(voters, 1, middle)) = half
        valueAt(vs, k) == IF k = 0 THEN Empty ELSE values[vs[k]]
    IN  IF voters = <<>> THEN NoMedian
        ELSE [median |-> IF ~even THEN valueAt(voters, middle)
                         ELSE IF middle = Len(voters) THEN Empty
                         ELSE (valueAt(voters, middle) + valueAt(voters, middle + 1)) \div 2,
              quartile1 |-> valueAt(voters, border(voters)),
              quartile3 |-> valueAt(Reverse(voters), border(Reverse(voters))),
              participating |-> total,
              throws |-> even /\ middle = Len(voters)]

\* calculateMedianResults: for every feed the median over all voters of the
\* signing policy; reveals[v] is the last payload of a voter that decodes, or
\* Empty: the others are caught and left out when the reveals are read.
FeedValues(reveals, n) ==
    [v \in DOMAIN reveals |-> IF reveals[v] = Empty THEN [i \in 1..n |-> Empty]
                              ELSE Decode(reveals[v], n)]

MedianResults(reveals, weights, n) ==
    LET values == FeedValues(reveals, n) IN
    [feed \in 1..n |-> CalculateMedian([v \in DOMAIN reveals |-> values[v][feed]], weights)]
=============================================================================
