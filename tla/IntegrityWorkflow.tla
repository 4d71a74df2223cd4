-------------------------- MODULE IntegrityWorkflow -------------------------
(***************************************************************************)
(* cre/integrity-workflow/main.ts: for a ChallengeOpened event every node  *)
(* fetches the challenged resource, hashes the payment metadata it finds   *)
(* and compares it with the event; the agreed verdict becomes a report.    *)
(* The workflow may run more than once for an event (the log trigger and   *)
(* the watcher's simulate both start it), at different times, so reports   *)
(* of one challenge may disagree, and any of them may be delivered first.  *)
(***************************************************************************)
EXTENDS ChallengeManager

CONSTANTS
    Malformed,          \* a response without payment metadata
    Unreachable         \* no response, a broken header, or nodes that disagree

ASSUME WorkflowAssumption == Malformed # Unreachable

VARIABLES
    served,             \* resource -> what its server answers now
    reports             \* signed reports, [id, result]; never withdrawn

workflowVars == <<served, reports>>

Responses == Hashes \cup {Malformed, Unreachable}

WorkflowInit ==
    /\ served \in [Resources -> {Unreachable}]
    /\ reports = {}

\* The server of a resource changes its answer: outside the chain, any time.
Serve(r, response) ==
    /\ served' = [served EXCEPT ![r] = response]
    /\ UNCHANGED reports

(***************************************************************************)
(* The verdict of a node: no metadata is a mismatch, and so is a payTo     *)
(* other than the event's splitter or a hash other than the event's.       *)
(***************************************************************************)
Verdict(event, response) ==
    IF /\ response # Malformed
       /\ response.payTo = event.revenueSplitter
       /\ response = event.integrityHash
    THEN 1 ELSE 0

\* Mutant of Verify: the comparison is with the registry of now.
VerifyOnChain(id) ==
    /\ id \in ChallengeIds
    /\ LET eid == opened[id].endpointId
           response == served[eid[2]]
           event == [opened[id] EXCEPT !.integrityHash = endpoints[eid].integrityHash]
       IN  /\ response # Unreachable
           /\ reports' = reports \cup {[id |-> id, result |-> Verdict(event, response)]}
    /\ UNCHANGED served

\* Mutant of Verify: missing metadata throws instead of being a mismatch.
VerifyMetadataOnly(id) ==
    /\ id \in ChallengeIds
    /\ LET response == served[opened[id].endpointId[2]]
       IN  /\ response \notin {Unreachable, Malformed}
           /\ reports' = reports \cup {[id |-> id, result |-> Verdict(opened[id], response)]}
    /\ UNCHANGED served

\* onLogTrigger up to the signed report.  An exception leaves no report.
Verify(id) ==
    /\ id \in ChallengeIds
    /\ LET response == served[opened[id].endpointId[2]]
       IN  /\ response # Unreachable
           /\ reports' = reports \cup {[id |-> id, result |-> Verdict(opened[id], response)]}
    /\ UNCHANGED served

WorkflowTypeOK ==
    /\ served \in [Resources -> Responses]
    /\ reports \subseteq [id : ChallengeIds, result : {0, 1}]
=============================================================================
