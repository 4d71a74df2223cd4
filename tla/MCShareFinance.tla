--------------------------- MODULE MCShareFinance ---------------------------
(***************************************************************************)
(* Small instance of the notes and of the stablecoin: a provider, who      *)
(* sells the notes and borrows, another borrower, both of whom may collect *)
(* the fees, and a client, who pays revenue and buys the notes.            *)
(***************************************************************************)
EXTENDS ShareFinance

CONSTANTS Prov, Alice, Client, RS, Escrow

MCUsers == {Prov, Alice}
MCHolders == {Prov, Alice, Escrow}
MCAccounts == MCHolders \cup {Client, RS}
=============================================================================
