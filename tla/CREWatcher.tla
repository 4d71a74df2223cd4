----------------------------- MODULE CREWatcher -----------------------------
(***************************************************************************)
(* cre_watcher.py: a process that polls the chain for ChallengeOpened      *)
(* events, runs `cre workflow simulate' for each and remembers in a JSON   *)
(* file how far it got.  It may be killed between any two steps.           *)
(*                                                                         *)
(* A challenge is its id, 1, 2, ..; challenges opened by one transaction   *)
(* share its block.  The chain is not reorganised.                         *)
(***************************************************************************)
EXTENDS Integers, Sequences

CONSTANTS
    CHUNK,              \* blocks per get_logs request
    DeployBlock,        \* block of the ChallengeManager's deployment
    BatchSizes,         \* challenges a transaction may open
    Overrides,          \* values of --from-block, 0 when it is not given
    RpcFails,           \* get_logs may raise
    SimulateFails,      \* a simulate that could settle its challenge may fail
    MaxBlock,           \* bound on the block number
    MaxCrashes          \* bound on the number of crashes

ASSUME CREWatcherAssumption ==
    /\ CHUNK \in Nat \ {0}
    /\ DeployBlock \in Nat \ {0}
    /\ BatchSizes \subseteq Nat \ {0}
    /\ Overrides \subseteq Nat
    /\ {RpcFails, SimulateFails} \subseteq BOOLEAN
    /\ {MaxBlock, MaxCrashes} \subseteq Nat

VARIABLES
    head,               \* w3.eth.block_number
    issued,             \* id -> [block, first]: first id of the same transaction
    resolved,           \* ids whose on-chain status is not Pending
    file,               \* the state file
    last_block,         \* state["last_block"]
    processed,          \* state["processed"]
    pc,
    current_block,
    start,
    events,             \* ids fetched and not yet processed
    crashes,
    missed              \* history: ids whose get_logs or simulate failed

chainVars == <<head, issued, resolved>>
memory == <<last_block, processed>>
cycle == <<current_block, start, events>>
watcherVars == <<chainVars, file, memory, cycle, pc, crashes, missed>>

\* The file opened for writing, its JSON not complete.
Torn == [last_block |-> -1, processed |-> {}]

NoFile == [last_block |-> 0, processed |-> {}]

Ids == 1 .. Len(issued)

WatcherInit ==
    /\ head = DeployBlock
    /\ issued = <<>>
    /\ resolved = {}
    /\ file = NoFile
    /\ last_block = 0 /\ processed = {}
    /\ pc = "down"
    /\ current_block = 0 /\ start = 0 /\ events = {}
    /\ crashes = 0
    /\ missed = {}

-----------------------------------------------------------------------------
\* The chain and the deployed workflow, which may settle a challenge first.
OpenChallenges(n) ==
    /\ head < MaxBlock
    /\ head' = head + 1
    /\ issued' = issued \o [i \in 1 .. n |-> [block |-> head + 1, first |-> Len(issued) + 1]]
    /\ UNCHANGED <<resolved, file, memory, cycle, pc, crashes, missed>>

EmptyBlock ==
    /\ head < MaxBlock
    /\ head' = head + 1
    /\ UNCHANGED <<issued, resolved, file, memory, cycle, pc, crashes, missed>>

ResolvedElsewhere(id) ==
    /\ id \notin resolved
    /\ resolved' = resolved \cup {id}
    /\ UNCHANGED <<head, issued, file, memory, cycle, pc, crashes, missed>>

-----------------------------------------------------------------------------
\* Mutant of Start: the scan resumes at the head of the chain.
StartAtHead(from) ==
    /\ pc = "down"
    /\ file # Torn
    /\ last_block' = IF from > 0 THEN from ELSE head
    /\ processed' = file.processed
    /\ pc' = "idle"
    /\ UNCHANGED <<chainVars, file, cycle, crashes, missed>>

\* load_state raises on a truncated file, and with it the process.
Start(from) ==
    /\ pc = "down"
    /\ file # Torn
    /\ last_block' = CASE from > 0 -> from
                       [] from = 0 /\ file.last_block = 0 -> DeployBlock
                       [] OTHER -> file.last_block
    /\ processed' = file.processed
    /\ pc' = "idle"
    /\ UNCHANGED <<chainVars, file, cycle, crashes, missed>>

StartFails ==
    /\ pc = "down"
    /\ file = Torn
    /\ UNCHANGED watcherVars

\* The head of the loop; when up to date it only sleeps.
UpToDate ==
    /\ pc = "idle"
    /\ last_block > head
    /\ UNCHANGED watcherVars

Poll ==
    /\ pc = "idle"
    /\ last_block <= head
    /\ current_block' = head
    /\ start' = last_block
    /\ events' = {}
    /\ pc' = "scanning"
    /\ UNCHANGED <<chainVars, file, memory, crashes, missed>>

EventsIn(from, to) == {id \in Ids : issued[id].block \in from .. to}

ChunkEnd == IF start + CHUNK - 1 < current_block THEN start + CHUNK - 1 ELSE current_block

\* A failed get_logs is reported and the chunk left behind.
ScanChunk ==
    /\ pc = "scanning"
    /\ start <= current_block
    /\ \/ /\ events' = events \cup EventsIn(start, ChunkEnd)
          /\ UNCHANGED missed
       \/ /\ RpcFails
          /\ missed' = missed \cup EventsIn(start, ChunkEnd)
          /\ UNCHANGED events
    /\ start' = ChunkEnd + 1
    /\ UNCHANGED <<chainVars, file, memory, current_block, pc, crashes>>

\* Events are processed in the order of the chain, which is that of the ids.
IsNext(id) == id \in events /\ \A other \in events : id <= other

Processing(id) ==
    /\ pc = "scanning"
    /\ start > current_block
    /\ IsNext(id)

\* save_state opens the file with "w", which truncates it, then writes.
BeginSave(then) ==
    /\ file' = Torn
    /\ pc' = then

SkipProcessed(id) ==
    /\ Processing(id)
    /\ id \in processed
    /\ events' = events \ {id}
    /\ UNCHANGED <<chainVars, file, memory, current_block, start, pc, crashes, missed>>

MarkResolved(id) ==
    /\ Processing(id)
    /\ id \in resolved \ processed
    /\ processed' = processed \cup {id}
    /\ events' = events \ {id}
    /\ BeginSave("savingEvent")
    /\ UNCHANGED <<chainVars, last_block, current_block, start, crashes, missed>>

\* Mutant of StartSimulate: recorded as processed before the outcome is known.
StartSimulateProcessed(id) ==
    /\ Processing(id)
    /\ id \notin resolved \cup processed
    /\ processed' = processed \cup {id}
    /\ pc' = "simulating"
    /\ UNCHANGED <<chainVars, file, last_block, cycle, crashes, missed>>

StartSimulate(id) ==
    /\ Processing(id)
    /\ id \notin resolved \cup processed
    /\ pc' = "simulating"
    /\ UNCHANGED <<chainVars, file, memory, cycle, crashes, missed>>

\* find_event_index: the first ChallengeOpened log of the transaction.
Simulated(id) == issued[id].first

\* The command exits with 0: its report settled the challenge of its log.
SimulateSucceeds(id) ==
    /\ pc = "simulating"
    /\ IsNext(id)
    /\ Simulated(id) \notin resolved
    /\ resolved' = resolved \cup {Simulated(id)}
    /\ processed' = processed \cup {id}
    /\ events' = events \ {id}
    /\ BeginSave("savingEvent")
    /\ UNCHANGED <<head, issued, last_block, current_block, start, crashes, missed>>

\* It exits with another code, before or after its report took effect.
SimulateExitsWithError(id) ==
    /\ pc = "simulating"
    /\ IsNext(id)
    /\ SimulateFails \/ Simulated(id) \in resolved
    /\ resolved' \in {resolved, resolved \cup {Simulated(id)}}
    /\ missed' = missed \cup {id}
    /\ events' = events \ {id}
    /\ pc' = "scanning"
    /\ UNCHANGED <<head, issued, file, memory, current_block, start, crashes>>

\* Mutant of EndCycle: the block number is read again.
EndCycleAtHead ==
    /\ pc = "scanning"
    /\ start > current_block
    /\ events = {}
    /\ last_block' = head + 1
    /\ BeginSave("savingCycle")
    /\ UNCHANGED <<chainVars, processed, cycle, crashes, missed>>

\* last_block moves past the scanned blocks whatever became of their events.
EndCycle ==
    /\ pc = "scanning"
    /\ start > current_block
    /\ events = {}
    /\ last_block' = current_block + 1
    /\ BeginSave("savingCycle")
    /\ UNCHANGED <<chainVars, processed, cycle, crashes, missed>>

FinishSave ==
    /\ pc \in {"savingEvent", "savingCycle"}
    /\ file' = [last_block |-> last_block, processed |-> processed]
    /\ pc' = IF pc = "savingEvent" THEN "scanning" ELSE "idle"
    /\ UNCHANGED <<chainVars, memory, cycle, crashes, missed>>

\* The process dies: killed, or by an exception of a call it does not catch.
Crash ==
    /\ pc # "down"
    /\ crashes < MaxCrashes
    /\ crashes' = crashes + 1
    /\ pc' = "down"
    /\ last_block' = 0 /\ processed' = {}
    /\ current_block' = 0 /\ start' = 0 /\ events' = {}
    /\ UNCHANGED <<chainVars, file, missed>>

ProcessEvent ==
    \E id \in Ids :
        \/ SkipProcessed(id)
        \/ MarkResolved(id)
        \/ StartSimulate(id)
        \/ SimulateSucceeds(id)
        \/ SimulateExitsWithError(id)

Work == UpToDate \/ Poll \/ ScanChunk \/ ProcessEvent \/ EndCycle \/ FinishSave

WatcherNext ==
    \/ \E n \in BatchSizes : OpenChallenges(n)
    \/ EmptyBlock
    \/ \E id \in Ids : ResolvedElsewhere(id)
    \/ \E from \in Overrides : Start(from)
    \/ StartFails
    \/ Work
    \/ Crash

WatcherSpec == WatcherInit /\ [][WatcherNext]_watcherVars

(***************************************************************************)
(* The loop runs while the process lives, and somebody starts it again     *)
(* after a crash.                                                          *)
(***************************************************************************)
WatcherFairness ==
    /\ WF_watcherVars(Work)
    /\ WF_watcherVars(Start(0))

FairWatcherSpec == WatcherSpec /\ WatcherFairness

\* "as long as the simulate eventually succeeds": tried often enough, it does.
LuckyWatcherSpec == FairWatcherSpec /\ SF_watcherVars(\E id \in Ids : SimulateSucceeds(id))

-----------------------------------------------------------------------------
(***************************************************************************)
(* Type invariant of the watcher and of what it sees of the chain.         *)
(***************************************************************************)
WatcherTypeOK ==
    /\ head \in Nat /\ DeployBlock <= head
    /\ issued \in Seq([block : DeployBlock + 1 .. head, first : Ids])
    /\ {resolved, processed, events, missed} \subseteq SUBSET Ids
    /\ file = Torn \/ file \in [last_block : Nat, processed : SUBSET Ids]
    /\ last_block \in Nat
    /\ pc \in {"down", "idle", "scanning", "simulating", "savingEvent", "savingCycle"}
    /\ current_block \in 0 .. head
    /\ start \in 0 .. head + 1
    /\ crashes \in 0 .. MaxCrashes

(***************************************************************************)
(* What the watcher records as settled, in memory or in the file, is       *)
(* settled on chain, through crashes, restarts and re-scans.  The one      *)
(* exception is a challenge that shares its transaction with an earlier    *)
(* one: find_event_index never points at its log.                          *)
(***************************************************************************)
Recorded == processed \cup (IF file = Torn THEN {} ELSE file.processed)

Indexed(id) == issued[id].first = id

ProcessedSettled == \A id \in Recorded : Indexed(id) => id \in resolved

(***************************************************************************)
(* The saved last_block leaves no challenge behind but those whose         *)
(* get_logs or simulate failed: blocks mined during a cycle, chunk         *)
(* borders and crashes between the saves lose nothing.                     *)
(***************************************************************************)
SkippedOnlyByFailure ==
    file # Torn =>
        \A id \in Ids : issued[id].block < file.last_block
                           => id \in resolved \cup file.processed \cup missed

(***************************************************************************)
(* Every challenge that is the first of its transaction is settled unless  *)
(* a call failed for it, or a crash during a save left a file the watcher  *)
(* cannot start from.                                                      *)
(***************************************************************************)
SettledUnlessFailed ==
    \A id \in 1 .. 2 * MaxBlock :
        (id \in Ids /\ Indexed(id)) ~> \/ id \in resolved \cup missed
                                       \/ pc = "down" /\ file = Torn

-----------------------------------------------------------------------------
(***************************************************************************)
(* cre_watcher.py:8-9: "no challenge is permanently skipped as long as the *)
(* simulate eventually succeeds", and 179: a failed one "will retry next   *)
(* cycle".                                                                 *)
(***************************************************************************)
NoneSkipped == \A id \in 1 .. MaxBlock : id \in Ids ~> id \in resolved
=============================================================================
