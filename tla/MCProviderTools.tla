--------------------------- MODULE MCProviderTools --------------------------
(***************************************************************************)
(* Small instance of the tools: the provider's CLI and its deployment      *)
(* script share a key; a challenger gains from a slash.                    *)
(***************************************************************************)
EXTENDS ProviderTools

CONSTANTS Provider, Challenger, Treasury, SM

MCUsers == {Provider, Challenger}
MCAccounts == {Provider, Challenger, Treasury, SM}
MCTreasuries == {Treasury}
MCKeyOf == [s \in {"cli", "script"} |-> Provider]
=============================================================================
