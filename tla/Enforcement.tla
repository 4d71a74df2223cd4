----------------------------- MODULE Enforcement ----------------------------
(***************************************************************************)
(* Layer 0 as deployed: registry, stake manager, challenge manager and the *)
(* CRE workflow over one USDC ledger.  Every transaction is one step (the  *)
(* EVM runs it alone and reverts it whole); the interleavings are those of *)
(* transactions, of the server's answers and of the workflow's runs.       *)
(***************************************************************************)
EXTENDS IntegrityWorkflow

CONSTANTS
    CREForwarder,       \* the address the workflow's reports come from
    StakeManagerWiring  \* values of setStakeManager, TRUE for non-zero

ASSUME WiringAssumption == StakeManagerWiring \subseteq BOOLEAN

VARIABLES
    clean               \* history: id -> no answer since the challenge was
                        \* opened would have failed it

enforcementVars == <<stakeVars, registryVars, challengeVars, workflowVars, clean>>

EnforcementInit ==
    /\ StakeInit
    /\ RegistryInit
    /\ ChallengeInit
    /\ WorkflowInit
    /\ clean = <<>>

-----------------------------------------------------------------------------
StakingStep ==
    /\ UserStakeStep \/ StakeAdminStep \/ Tick
    /\ UNCHANGED <<registryVars, challengeVars, workflowVars, clean>>

RegistryStep ==
    /\ \/ \E u \in Users, s \in Splitters : RegisterProvider(u, s)
       \/ \E u \in Users, id \in ProviderIds, s \in Splitters : UpdateProvider(u, id, s)
       \/ \E u \in Users, id \in ProviderIds, r \in Resources,
             payTo \in Splitters \cup {NoAddress}, t \in Terms :
                RegisterEndpoint(u, id, r, payTo, t) \/ UpdateEndpoint(u, id, r, payTo, t)
       \/ \E set \in StakeManagerWiring : SetStakeManager(set)
    /\ UNCHANGED <<stakeVars, challengeVars, workflowVars, clean>>

ChallengeAdminStep ==
    /\ \/ \E f \in Forwarders : SetForwarder(f)
       \/ \E fee \in ChallengeFees : SetChallengeFee(fee)
       \/ \E bp \in SlashBps : SetSlashBp(bp)
    /\ UNCHANGED <<stakeVars, registryVars, workflowVars, clean>>

Passes(event, response) == response = Unreachable \/ Verdict(event, response) = 1

OpenStep(u, eid) ==
    /\ OpenChallenge(u, eid)
    /\ clean' = Append(clean, Passes(opened'[Len(opened')], served[eid[2]]))
    /\ UNCHANGED workflowVars

ServeStep(r, response) ==
    /\ Serve(r, response)
    /\ clean' = [id \in ChallengeIds |->
                    clean[id] /\ (opened[id].endpointId[2] = r => Passes(opened[id], response))]
    /\ UNCHANGED <<stakeVars, registryVars, challengeVars>>

VerifyStep(id) ==
    /\ Verify(id)
    /\ UNCHANGED <<stakeVars, registryVars, challengeVars, clean>>

\* A report is never used up: a second delivery meets the status check.
DeliverStep ==
    /\ \E rep \in reports : OnReport(CREForwarder, rep.id, rep.result)
    /\ UNCHANGED <<workflowVars, clean>>

EnforcementNext ==
    \/ StakingStep
    \/ RegistryStep
    \/ ChallengeAdminStep
    \/ \E u \in Users, eid \in EndpointIds : OpenStep(u, eid)
    \/ \E r \in Resources, response \in Responses : ServeStep(r, response)
    \/ \E id \in ChallengeIds : VerifyStep(id)
    \/ DeliverStep

EnforcementSpec == EnforcementInit /\ [][EnforcementNext]_enforcementVars

-----------------------------------------------------------------------------
(***************************************************************************)
(* Type invariant of the composition.                                      *)
(***************************************************************************)
EnforcementTypeOK ==
    /\ StakeTypeOK
    /\ RegistryTypeOK
    /\ ChallengeTypeOK
    /\ WorkflowTypeOK
    /\ clean \in [ChallengeIds -> BOOLEAN]

(***************************************************************************)
(* While the owner leaves challengeFee alone, the ChallengeManager can pay *)
(* the fee of every challenge still pending, in whatever order the reports *)
(* arrive and however often each is delivered.                             *)
(***************************************************************************)
FeesEscrowed ==
    usdc[ChallengeManagerAddr] >=
        challengeFee * Cardinality({id \in ChallengeIds : Pending(id)})

(***************************************************************************)
(* The account paid and slashed for an endpoint is the account that owns   *)
(* the endpoint's provider record, after any updates of either.            *)
(***************************************************************************)
EndpointsOwned ==
    \A eid \in DOMAIN endpoints : endpoints[eid].provider = providers[eid[1]].owner

(***************************************************************************)
(* A provider whose server, for as long as the challenge was open, gave no *)
(* answer but the one the challenge's event committed to is not found at   *)
(* fault, whatever it changes in the registry meanwhile and whichever of   *)
(* several reports arrives first.                                          *)
(***************************************************************************)
HonestNotFaulted ==
    \A id \in ChallengeIds : clean[id] => challenges[id].status # "Invalid"

(***************************************************************************)
(* A settled challenge stays as it is: duplicate and contradicting reports *)
(* neither flip the outcome nor pay or slash again.                        *)
(***************************************************************************)
VerdictFinal ==
    [][\A id \in ChallengeIds : ~Pending(id) => challenges'[id] = challenges[id]]_enforcementVars

(***************************************************************************)
(* A bond shrinks only by its owner's withdrawal or by a report of fault   *)
(* on an open challenge against an endpoint of that owner.                 *)
(***************************************************************************)
FaultReportedAgainst(u, id) ==
    /\ Pending(id)
    /\ challenges'[id].status = "Invalid"
    /\ providers[challenges[id].endpointId[1]].owner = u
    /\ [id |-> id, result |-> 0] \in reports

BondLostOnlyByFault ==
    [][\A u \in Users : stakes'[u].amount < stakes[u].amount =>
          \/ \E id \in ChallengeIds : FaultReportedAgainst(u, id)
          \/ /\ usdc'[u] - usdc[u] = stakes[u].amount - stakes'[u].amount
             /\ UNCHANGED challenges]_enforcementVars

-----------------------------------------------------------------------------
(***************************************************************************)
(* Layer 0 implements the escrow: each of its steps is a deposit, a        *)
(* withdrawal, a case filed, a judgement with all that is paid for it, the *)
(* sight of a wrong answer, or nothing of these.  In particular no report, *)
(* however often delivered, pays twice or convicts without such a sight,   *)
(* and no setter or registration moves a coin.                             *)
(***************************************************************************)
Cases ==
    [id \in ChallengeIds |-> [by |-> challenges[id].challenger, against |-> Challenged(id),
                              status |-> challenges[id].status, suspect |-> ~clean[id]]]

Escrow == INSTANCE ChallengeEscrow WITH
    Depositors <- Users, Vault <- StakeManagerAddr, Till <- ChallengeManagerAddr,
    Payees <- Treasuries \ {NoAddress}, ledger <- usdc, bond <- Bonded, cases <- Cases

ImplementsEscrow == Escrow!EscrowSpec
=============================================================================
