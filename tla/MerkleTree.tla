----------------------------- MODULE MerkleTree -----------------------------
(***************************************************************************)
(* Merkle trees of results and of claims (MerkleTree.ts,                   *)
(* reward-merkle-tree.ts, feed-values.ts).  A tree of n leaves is a list   *)
(* of 2n - 1 hashes: the leaves in order at its end, and before them the   *)
(* hash of node i's children 2i and 2i + 1.  Positions start at 1 here and *)
(* at 0 in the code.                                                       *)
(*                                                                         *)
(* Hashes are free: different data have different hashes.  A leaf is a     *)
(* number, its rank among hash strings; a pair is hashed without order.    *)
(***************************************************************************)
EXTENDS Integers, Sequences, SequencesExt

CONSTANT Null

Leaf(n) == <<"leaf", n>>
SortedHashPair(x, y) == <<"pair", {x, y}>>

InOrder(S) == [i \in 1..Cardinality(S) |-> CHOOSE x \in S : Cardinality({y \in S : y < x}) = i - 1]

\* build: the values in order and once each, and the inner nodes over them.
Build(values) ==
    LET hashes == InOrder(ToSet(values))
        n == Len(hashes)
        tree[i \in 1..(2 * n - 1)] ==
            IF i >= n THEN Leaf(hashes[i - n + 1]) ELSE SortedHashPair(tree[2 * i], tree[2 * i + 1])
    IN  [i \in 1..(2 * n - 1) |-> tree[i]]

Root(tree) == IF tree = <<>> THEN Null ELSE tree[1]
HashCount(tree) == (Len(tree) + 1) \div 2
SortedHash(tree, i) == tree[HashCount(tree) - 1 + i][2]

\* Mutant: the middle itself is left out below and above.
BinarySearchBeyond(tree, hash) ==
    LET search[low \in 1..HashCount(tree), high \in 1..(HashCount(tree) + 1)] ==
            LET mid == low + (high - low) \div 2
            IN  IF high - low <= 1 THEN IF hash = SortedHash(tree, low) THEN low ELSE Null
                ELSE IF hash <= SortedHash(tree, mid) THEN search[low, mid] ELSE search[mid, high]
    IN  IF tree = <<>> THEN Null ELSE search[1, HashCount(tree) + 1]

\* The leaf with the hash is sought in low..(high - 1).
BinarySearch(tree, hash) ==
    LET search[low \in 1..HashCount(tree), high \in 1..(HashCount(tree) + 1)] ==
            LET mid == low + (high - low) \div 2
            IN  IF high - low <= 1 THEN IF hash = SortedHash(tree, low) THEN low ELSE Null
                ELSE IF hash < SortedHash(tree, mid) THEN search[low, mid] ELSE search[mid, high]
    IN  IF tree = <<>> THEN Null ELSE search[1, HashCount(tree) + 1]

\* Mutant: the sibling is always the one to the right.
GetProofRight(tree, hash) ==
    LET i == BinarySearch(tree, hash)
        path[node \in DOMAIN tree] ==
            IF node = 1 THEN <<>> ELSE <<tree[IF node = Len(tree) THEN node ELSE node + 1]>> \o path[node \div 2]
    IN  IF i = Null THEN Null ELSE path[HashCount(tree) - 1 + i]

\* getProof: the siblings of the nodes from the leaf up to the root.
GetProof(tree, hash) ==
    LET i == BinarySearch(tree, hash)
        sibling(node) == IF node % 2 = 0 THEN node + 1 ELSE node - 1
        path[node \in DOMAIN tree] ==
            IF node = 1 THEN <<>> ELSE <<tree[sibling(node)]>> \o path[node \div 2]
    IN  IF i = Null THEN Null ELSE path[HashCount(tree) - 1 + i]

VerifyWithMerkleProof(leaf, proof, root) ==
    /\ proof # Null /\ root # Null
    /\ FoldLeft(LAMBDA hash, other : SortedHashPair(other, hash), leaf, proof) = root

\* The results of a round, and the claims of an epoch, are written to their
\* files with the proofs of each.  Two equal claims are an error.
WithProofs(values) == [i \in DOMAIN values |-> GetProof(Build(values), values[i])]
ClaimTreeThrows(values) == ~IsInjective(values)

-----------------------------------------------------------------------------
(***************************************************************************)
(* The proofs written beside results and claims prove each of them and     *)
(* nothing else, for any number of leaves, powers of two or not, and no    *)
(* other data has the same root: who signs a root signs all of its data.   *)
(***************************************************************************)
ProofsProve(values) ==
    LET tree == Build(values)
        proofs == WithProofs(values)
    IN  \A i, j \in DOMAIN values :
            VerifyWithMerkleProof(Leaf(values[j]), proofs[i], Root(tree)) <=> values[i] = values[j]

RootsDiffer(values, others) ==
    Root(Build(values)) = Root(Build(others)) => ToSet(values) = ToSet(others)

NothingElseProven(values, others) ==
    \A x \in ToSet(others) \ ToSet(values) : GetProof(Build(values), x) = Null
=============================================================================
