---------------------------- MODULE MCShareMarket ---------------------------
(***************************************************************************)
(* Small instance of the market: the provider and one backer, who is also  *)
(* the source of revenue; two RS are on offer for three tokens, so that an *)
(* exchange of one token at a time rounds to nothing and of two to one.    *)
(***************************************************************************)
EXTENDS ShareMarket

CONSTANTS Prov, Alice, RS, Offering, Wrapper

MCUsers == {Prov, Alice}
MCHolders == {Prov, Alice, Offering, Wrapper}
MCAccounts == MCHolders \cup {RS}
MCPayers == {Alice}
=============================================================================
