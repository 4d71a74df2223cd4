-------------------------- MODULE ChallengeManager --------------------------
(***************************************************************************)
(* ChallengeManager.sol: anyone pays challengeFee to challenge an          *)
(* endpoint; the report of the CRE workflow, delivered by the forwarder,   *)
(* settles the challenge.  onReport calls StakeManager.slash and           *)
(* APIIntegrityRegistry.recordCheck inside its transaction, so its action  *)
(* changes the state of all three contracts.                               *)
(***************************************************************************)
EXTENDS APIIntegrityRegistry

CONSTANTS
    ChallengeManagerAddr,
    ChallengeFees,      \* values of challengeFee
    Forwarders,         \* values of forwarder
    MaxChallenges       \* bound on challengeCount

ASSUME ChallengeAssumption ==
    /\ ChallengeManagerAddr \in Accounts \ (Users \cup {StakeManagerAddr})
    /\ ChallengeFees \subseteq Nat
    /\ MaxChallenges \in Nat

VARIABLES
    challenges,         \* id -> [challenger, endpointId, status]
    opened,             \* id -> payload of its ChallengeOpened event
    challengeFee,
    slashBp,
    forwarder

challengeParams == <<challengeFee, slashBp, forwarder>>
challengeVars == <<challenges, opened, challengeParams>>

Statuses == {"Pending", "Valid", "Invalid"}

ChallengeIds == 1 .. Len(challenges)

Pending(id) == challenges[id].status = "Pending"

\* The owner recorded with the challenged endpoint: who is paid or slashed.
Challenged(id) == endpoints[challenges[id].endpointId].provider

-----------------------------------------------------------------------------
ChallengeInit ==
    /\ challenges = <<>>
    /\ opened = <<>>
    /\ challengeFee \in ChallengeFees
    /\ slashBp \in {bp \in SlashBps : bp > 0 /\ bp <= BP_SCALE}
    /\ forwarder \in Forwarders

(***************************************************************************)
(* openChallenge(endpointId).  The event carries the hash and the splitter *)
(* of this moment; the workflow reads nothing else from the chain.         *)
(***************************************************************************)
OpenChallenge(u, eid) ==
    /\ Len(challenges) < MaxChallenges
    /\ eid \in DOMAIN endpoints
    /\ CanMove(usdc, u, ChallengeManagerAddr, challengeFee)
    /\ usdc' = Moved(usdc, u, ChallengeManagerAddr, challengeFee)
    /\ challenges' = Append(challenges, [challenger |-> u,
                                         endpointId |-> eid,
                                         status |-> "Pending"])
    /\ opened' = Append(opened, [endpointId |-> eid,
                                 revenueSplitter |-> providers[eid[1]].revenueSplitter,
                                 integrityHash |-> endpoints[eid].integrityHash])
    /\ UNCHANGED <<now, stakes, stakeParams, registryVars, challengeParams>>

SettleValid(id) ==
    /\ CanMove(usdc, ChallengeManagerAddr, Challenged(id), challengeFee)
    /\ usdc' = Moved(usdc, ChallengeManagerAddr, Challenged(id), challengeFee)
    /\ UNCHANGED stakes

SettleInvalid(id) ==
    LET challenger == challenges[id].challenger
        slashed    == SlashPaid(Challenged(id), slashBp, challenger)
    IN  /\ SlashEnabled(Challenged(id), slashBp)
        /\ CanMove(slashed, ChallengeManagerAddr, challenger, challengeFee)
        /\ usdc' = Moved(slashed, ChallengeManagerAddr, challenger, challengeFee)
        /\ stakes' = StakesAfterSlash(Challenged(id), slashBp)

\* Mutant of OnReport: a report is accepted for a settled challenge too.
OnReportTwice(sender, id, result) ==
    /\ sender = forwarder
    /\ id \in ChallengeIds
    /\ IF result = 1 THEN SettleValid(id) ELSE SettleInvalid(id)
    /\ challenges' = [challenges EXCEPT
           ![id].status = IF result = 1 THEN "Valid" ELSE "Invalid"]
    /\ endpoints' = Checked(challenges[id].endpointId)
    /\ UNCHANGED <<now, stakeParams, providers, stakeManagerSet, opened, challengeParams>>

\* Mutant of OnReport: the two outcomes are swapped.
OnReportSwapped(sender, id, result) ==
    /\ sender = forwarder
    /\ id \in ChallengeIds
    /\ Pending(id)
    /\ IF result = 1 THEN SettleInvalid(id) ELSE SettleValid(id)
    /\ challenges' = [challenges EXCEPT
           ![id].status = IF result = 1 THEN "Valid" ELSE "Invalid"]
    /\ endpoints' = Checked(challenges[id].endpointId)
    /\ UNCHANGED <<now, stakeParams, providers, stakeManagerSet, opened, challengeParams>>

(***************************************************************************)
(* onReport(challengeId, result).  An id that was never opened has status  *)
(* Pending too, but its provider is address(0): the transfer or the slash  *)
(* reverts.  The fee paid out is the fee of now, not the one paid in.      *)
(***************************************************************************)
OnReport(sender, id, result) ==
    /\ sender = forwarder
    /\ id \in ChallengeIds
    /\ Pending(id)
    /\ IF result = 1 THEN SettleValid(id) ELSE SettleInvalid(id)
    /\ challenges' = [challenges EXCEPT
           ![id].status = IF result = 1 THEN "Valid" ELSE "Invalid"]
    /\ endpoints' = Checked(challenges[id].endpointId)
    /\ UNCHANGED <<now, stakeParams, providers, stakeManagerSet, opened, challengeParams>>

-----------------------------------------------------------------------------
\* Owner setters; none checks its argument.
SetForwarder(f) ==
    /\ forwarder' = f
    /\ UNCHANGED <<challenges, opened, challengeFee, slashBp>>

SetChallengeFee(fee) ==
    /\ challengeFee' = fee
    /\ UNCHANGED <<challenges, opened, slashBp, forwarder>>

SetSlashBp(bp) ==
    /\ slashBp' = bp
    /\ UNCHANGED <<challenges, opened, challengeFee, forwarder>>

-----------------------------------------------------------------------------
ChallengeTypeOK ==
    /\ challenges \in Seq([challenger : Users, endpointId : DOMAIN endpoints,
                           status : Statuses])
    /\ opened \in Seq([endpointId : DOMAIN endpoints, revenueSplitter : Splitters,
                       integrityHash : Hashes])
    /\ Len(opened) = Len(challenges)
    /\ challengeFee \in Nat
    /\ slashBp \in Nat
=============================================================================
