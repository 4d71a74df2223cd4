---------------------------- MODULE WorkflowRuns ----------------------------
(***************************************************************************)
(* The runs of the CRE workflow that its log trigger starts: one for each  *)
(* ChallengeOpened event.  A run (onLogTrigger of main.ts) fetches the     *)
(* endpoint once and writes its report once; what it meets on the way, a   *)
(* silent server or a refused report, makes it throw, and nobody starts it *)
(* again.  Runs of the watcher's simulate may come on top at any time (the *)
(* VerifyStep and DeliverStep of Enforcement), but none has to.            *)
(***************************************************************************)
EXTENDS Enforcement

VARIABLES
    run                 \* challenge id -> how far its run is: "due"; signed, with
                        \* verdict "valid" or "invalid"; "done"; "thrown"

runsVars == <<enforcementVars, run>>

RunsInit == EnforcementInit /\ run = << >>

\* What the contracts, the servers and the watcher do; an event is a run to come.
AroundStep ==
    /\ EnforcementNext
    /\ run' = IF Len(challenges') > Len(challenges) THEN Append(run, "due") ELSE run

-----------------------------------------------------------------------------
Due(id) == id \in ChallengeIds /\ run[id] = "due"

Signed(id) == id \in ChallengeIds /\ run[id] \in {"valid", "invalid"}

Becomes(id, stage) == run' = [run EXCEPT ![id] = stage]

Answer(id) == served[opened[id].endpointId[2]]

\* The log trigger: the nodes fetch, agree on a verdict and sign it.
LogTriggerRun(id) ==
    /\ Due(id)
    /\ VerifyStep(id)
    /\ Becomes(id, IF Verdict(opened[id], Answer(id)) = 1 THEN "valid" ELSE "invalid")

\* The log trigger: no answer to agree on, the workflow throws.
SilentRun(id) ==
    /\ Due(id)
    /\ Answer(id) = Unreachable
    /\ Becomes(id, "thrown")
    /\ UNCHANGED enforcementVars

\* writeReport: the forwarder calls onReport, which accepts.
WriteReport(id) ==
    /\ Signed(id)
    /\ OnReport(CREForwarder, id, IF run[id] = "valid" THEN 1 ELSE 0)
    /\ Becomes(id, "done")
    /\ UNCHANGED <<workflowVars, clean>>

(***************************************************************************)
(* What makes onReport revert, besides an earlier verdict: settings of the *)
(* admins, and for a verdict of fault a bond that is gone, which leaves    *)
(* nothing to slash.                                                       *)
(***************************************************************************)
Refused(id) ==
    \/ forwarder # CREForwarder
    \/ usdc[ChallengeManagerAddr] < challengeFee
    \/ /\ run[id] = "invalid"
       /\ \/ slashBp \notin 1 .. BP_SCALE
          \/ treasury = NoAddress
          \/ stakes[Challenged(id)].amount = 0

\* writeReport: onReport reverts, the workflow throws.
WriteRefused(id) ==
    /\ Signed(id)
    /\ Refused(id) \/ ~Pending(id)
    /\ Becomes(id, "thrown")
    /\ UNCHANGED enforcementVars

\* writeReport: fails for a cause outside the contracts, gas or network.
WriteLost(id) ==
    /\ Signed(id)
    /\ Becomes(id, "thrown")
    /\ UNCHANGED enforcementVars

RunStep(id) ==
    \/ LogTriggerRun(id)
    \/ SilentRun(id)
    \/ WriteReport(id)
    \/ WriteRefused(id)
    \/ WriteLost(id)

RunsNext == AroundStep \/ \E id \in ChallengeIds : RunStep(id)

(***************************************************************************)
(* The log trigger fires for every event, and a run that has started comes *)
(* to its end: a handler without loops or waits but for its calls.  Each   *)
(* of its steps is taken once; none is repeated until it works.  A loss is *)
(* not assumed.                                                            *)
(***************************************************************************)
RunsFairness ==
    \A id \in 1 .. MaxChallenges :
        WF_runsVars(LogTriggerRun(id) \/ SilentRun(id) \/ WriteReport(id) \/ WriteRefused(id))

RunsSpec == RunsInit /\ [][RunsNext]_runsVars /\ RunsFairness

-----------------------------------------------------------------------------
(***************************************************************************)
(* An opened challenge is settled in the end, or its one run has met what  *)
(* it throws on: a server that did not answer when it was asked, a report  *)
(* lost on the way, or, at the moment the report was written, another      *)
(* forwarder, a challengeFee above what the contract holds and, for a      *)
(* verdict of fault, a slashBp of 0, no treasury to send the protocol's    *)
(* cut to or a bond already gone.  No other answer, no change of the       *)
(* endpoint and no setting that is back in order by then leaves a          *)
(* challenge open.                                                         *)
(***************************************************************************)
Opened(id) == id \in ChallengeIds

Thrown(id) == run[id] = "thrown"

SettledOrExcused ==
    \A id \in 1 .. MaxChallenges : Opened(id) ~> Opened(id) /\ (~Pending(id) \/ Thrown(id))
=============================================================================
