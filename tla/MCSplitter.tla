----------------------------- MODULE MCSplitter -----------------------------
(***************************************************************************)
(* Small instance of the splitter and of the revenue share behind it, with *)
(* one holder, who may also send shares and dividends to the contract      *)
(* itself, and two protocol treasuries; a quarter each for protocol and    *)
(* provider.  The ring has two entries and wraps.                          *)
(***************************************************************************)
EXTENDS ProviderRevenueSplitter

CONSTANTS Alice, Client, RS, SP, T1, T2

MCHolders == {Alice}
MCClaimants == {Alice}
MCAccounts == {Alice, Client, RS, SP, T1, T2}
MCPayers == {Client}
MCProtocolTreasuries == {T1, T2}
MCProviderTreasuries == {T2}
=============================================================================
