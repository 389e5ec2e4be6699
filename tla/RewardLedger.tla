---------------------------- MODULE RewardLedger ----------------------------
(***************************************************************************)
(* What the batch calculation promises: a round's claims are made once and *)
(* stay as they are until the calculation of the epoch is started anew,    *)
(* and what is published is the sum of the claims of all rounds, each      *)
(* counted once.                                                           *)
(***************************************************************************)
EXTENDS Naturals

CONSTANTS Rounds, Values, None

VARIABLES claimed,     \* what each round's claims amount to, None before they are made
          published    \* the rounds' claims that went into the final claims, None before

ledgerVars == <<claimed, published>>

NothingClaimed == [r \in Rounds |-> None]

LedgerInit == claimed = NothingClaimed /\ published = None

ClaimRound(r) ==
    /\ claimed[r] = None
    /\ \E value \in Values : claimed' = [claimed EXCEPT ![r] = value]
    /\ UNCHANGED published

Publish ==
    /\ \A r \in Rounds : claimed[r] # None
    /\ published = None
    /\ published' = claimed
    /\ UNCHANGED claimed

Restart ==
    /\ claimed' = NothingClaimed
    /\ published' = None

LedgerNext == (\E r \in Rounds : ClaimRound(r)) \/ Publish \/ Restart

LedgerSpec == LedgerInit /\ [][LedgerNext]_ledgerVars
=============================================================================
