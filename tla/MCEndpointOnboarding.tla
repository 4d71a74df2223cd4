------------------------ MODULE MCEndpointOnboarding ------------------------
(***************************************************************************)
(* Small instance: a session of each tool, two splitters, two fees, and    *)
(* answers that differ from the plain one in one or two respects.          *)
(***************************************************************************)
EXTENDS EndpointOnboarding

CONSTANTS Treasury, SM, CM

MCUsers == {Owner}
MCAccounts == {Owner, Treasury, SM, CM}
MCTreasuries == {Treasury}
MCMethods == {"GET", "POST"}
MCResources == {<<URL, "GET">>, <<URL, "POST">>, <<BarePath, "GET">>}

Plain == [amount |-> "1", asset |-> "usdc", payTo |-> "s1", names |-> Fields, listed |-> TRUE,
          resource |-> URL, methods |-> MCMethods]

MCAnswers == {Plain,
              [Plain EXCEPT !.payTo = "s2"],
              [Plain EXCEPT !.payTo = NoAddress],
              [Plain EXCEPT !.resource = "proxied", !.methods = {"GET"}],
              [Plain EXCEPT !.names = {"payTo"}],
              [Plain EXCEPT !.listed = FALSE]}

MCFlags == {NoFlags,
            [NoFlags EXCEPT !["amount"] = "1"],
            [amount |-> "1", asset |-> "usdc", payTo |-> "s1"]}

MCTerms == [amount : {"1", ""}, asset : {"usdc", ""}, url : {URL, BarePath, "proxied"}]
=============================================================================
