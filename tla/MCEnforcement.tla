---------------------------- MODULE MCEnforcement ---------------------------
(***************************************************************************)
(* Small instance of Layer 0: a provider and a challenger, one provider    *)
(* record, one resource, two values of the hashed terms.                   *)
(***************************************************************************)
EXTENDS Enforcement

CONSTANTS Provider, Challenger, Treasury, SM, CM

MCUsers == {Provider, Challenger}
MCAccounts == {Provider, Challenger, Treasury, SM, CM}
MCTreasuries == {Treasury}
=============================================================================
