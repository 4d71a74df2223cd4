---------------------------- MODULE MCWorkflowRuns --------------------------
(***************************************************************************)
(* The instance of MCEnforcement with the runs of the workflow: one        *)
(* challenge, and admins who change every setting at any moment.           *)
(***************************************************************************)
EXTENDS WorkflowRuns

CONSTANTS Provider, Challenger, Treasury, SM, CM

MCUsers == {Provider, Challenger}
MCAccounts == {Provider, Challenger, Treasury, SM, CM}
MCTreasuriesOrNone == {Treasury, NoAddress}
=============================================================================
