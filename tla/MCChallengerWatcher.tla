------------------------- MODULE MCChallengerWatcher ------------------------
(***************************************************************************)
(* The challenger over one or two endpoints and two terms.                *)
(***************************************************************************)
EXTENDS ChallengerWatcher

CONSTANTS E1, E2

MCEndpoints == {E1, E2}
MCOneEndpoint == {E1}
=============================================================================
