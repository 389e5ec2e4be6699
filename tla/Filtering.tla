------------------------------ MODULE Filtering ------------------------------
(***************************************************************************)
(* Array.prototype.filter, with which the reward code picks from its lists *)
(* of transactions, claims and offers.  SelectSeq of Sequences gives the   *)
(* same, but the provers know nothing of it.                               *)
(***************************************************************************)
EXTENDS Integers, Sequences

\* The elements of a list at these indices, in the order of the list.
Picked(list, indices) ==
    LET picked[k \in 0..Len(list)] ==
            IF k = 0 THEN <<>>
            ELSE IF k \in indices THEN Append(picked[k - 1], list[k]) ELSE picked[k - 1]
    IN  picked[Len(list)]

Select(list, Test(_)) == Picked(list, {i \in DOMAIN list : Test(list[i])})
=============================================================================
