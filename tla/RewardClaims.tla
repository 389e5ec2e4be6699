---------------------------- MODULE RewardClaims ----------------------------
(***************************************************************************)
(* Reward claims and how they are merged (RewardClaim.ts).  A claim gives  *)
(* a beneficiary an amount under a claim type; a penalty is a claim with a *)
(* negative amount.  A list of claims is a sequence; what the code calls   *)
(* merged is a list with one claim per beneficiary, type and sign.         *)
(*                                                                         *)
(* Addresses are model values (the code compares them in lower case) and   *)
(* amounts are small integers (BigInt in the code, so no overflow).        *)
(***************************************************************************)
EXTENDS Filtering, SequencesExt

CONSTANT BurnAddress

\* Division of BigInt, which rounds towards zero.
Quot(a, b) == IF a >= 0 THEN a \div b ELSE -((-a) \div b)

Claim(to, type, amount) == [to |-> to, type |-> type, amount |-> amount]

Amount(claims) == FoldLeft(LAMBDA sum, c : sum + c.amount, 0, claims)
Positive(claims) == Select(claims, LAMBDA c : c.amount > 0)
Negative(claims) == Select(claims, LAMBDA c : c.amount < 0)

\* What merge tells claims apart by: zero counts as positive.
Key(c) == <<c.to, c.type, c.amount < 0>>

\* Mutant: the claim found takes the place of the merged one.
MergeInReplaces(merged, c) ==
    LET same == {i \in DOMAIN merged : Key(merged[i]) = Key(c)} IN
    IF same = {} THEN Append(merged, c)
    ELSE [merged EXCEPT ![CHOOSE i \in same : TRUE].amount = c.amount]

MergeIn(merged, c) ==
    LET same == {i \in DOMAIN merged : Key(merged[i]) = Key(c)} IN
    IF same = {} THEN Append(merged, c)
    ELSE [merged EXCEPT ![CHOOSE i \in same : TRUE].amount = @ + c.amount]

Merge(claims) == FoldLeft(MergeIn, <<>>, claims)

\* The claims of a beneficiary, type and sign.
OfKey(claims, key) == Select(claims, LAMBDA c : <<c.to, c.type, c.amount < 0>> = key)

-----------------------------------------------------------------------------
\* The penalty on the beneficiary and type of a claim, as a positive amount.
PenaltyOn(claims, c) ==
    -Amount(Select(Negative(claims), LAMBDA p : p.to = c.to /\ p.type = c.type))

\* Mutant: a penalty larger than the claim burns the whole penalty.
BurnUncapped(claims, c) ==
    LET penalty == PenaltyOn(claims, c)
        burnt == Claim(BurnAddress, "DIRECT", penalty)
    IN  IF penalty = 0 THEN <<c>>
        ELSE IF penalty >= c.amount THEN <<burnt>>
        ELSE <<burnt, [c EXCEPT !.amount = @ - penalty]>>

\* A positive claim after its penalty: at most the claim itself is burnt.
Burn(claims, c) ==
    LET penalty == PenaltyOn(claims, c)
        burnt == Claim(BurnAddress, "DIRECT", IF penalty > c.amount THEN c.amount ELSE penalty)
    IN  IF penalty = 0 THEN <<c>>
        ELSE IF penalty >= c.amount THEN <<burnt>>
        ELSE <<burnt, [c EXCEPT !.amount = @ - penalty]>>

\* The errors of mergeWithBurnClaims for claims of one reward epoch: two
\* penalties for one beneficiary and type, or a total that changes.
BurnThrows(claims) ==
    LET penalties == Negative(claims)
        final == FlattenSeq([i \in DOMAIN Positive(claims) |-> Burn(claims, Positive(claims)[i])])
    IN  \/ \E i, j \in DOMAIN penalties : i # j /\ Key(penalties[i]) = Key(penalties[j])
        \/ Amount(final) # Amount(Positive(claims))

MergeWithBurn(claims) ==
    Merge(FlattenSeq([i \in DOMAIN Positive(claims) |-> Burn(claims, Positive(claims)[i])]))

=============================================================================
