---------------------------- MODULE CommitReveal ----------------------------
(***************************************************************************)
(* What the data provider promises its client, without the server that     *)
(* keeps the promise: for one voting round and one submit address the      *)
(* client obtains a commit, possibly replaces it (after a restart of the   *)
(* server), and later obtains the reveal that opens the last commit it     *)
(* obtained.  Once a reveal is out, the commit no longer changes.          *)
(*                                                                         *)
(* DataProvider.tla implements this module when the client never has two   *)
(* requests for one key open at a time.                                    *)
(***************************************************************************)
EXTENDS Naturals

CONSTANTS
    Keys,     \* the <<voting round, submit address>> pairs
    Randoms,  \* the randoms a commit may hide
    NoData    \* "nothing obtained yet"

VARIABLES
    commit,   \* commit[k]: the random hidden in the last commit obtained for k
    reveal    \* reveal[k]: the random shown by the last reveal obtained for k

schemeVars == <<commit, reveal>>

SchemeInit ==
    /\ commit = [k \in Keys |-> NoData]
    /\ reveal = [k \in Keys |-> NoData]

\* submit1 is answered: only as long as nothing was revealed for the key.
ObtainCommit(k) ==
    /\ reveal[k] = NoData
    /\ \E x \in Randoms : commit' = [commit EXCEPT ![k] = x]
    /\ UNCHANGED reveal

\* submit2 is answered: with the data of the last commit, never without one.
ObtainReveal(k) ==
    /\ commit[k] # NoData
    /\ reveal' = [reveal EXCEPT ![k] = commit[k]]
    /\ UNCHANGED commit

SchemeNext == \E k \in Keys : ObtainCommit(k) \/ ObtainReveal(k)

SchemeSpec == SchemeInit /\ [][SchemeNext]_schemeVars
=============================================================================
