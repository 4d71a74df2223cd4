-------------------------- MODULE ChallengerWatcher -------------------------
(***************************************************************************)
(* challenger_watcher.py: a process that discovers endpoints, compares the *)
(* registered hash of each with a hash of what its server answers, and     *)
(* opens a challenge on a mismatch.  Its state file is read at the start   *)
(* and rewritten after every change; the process may die between two steps.*)
(* Block 1 is the first of the registry's life.                            *)
(*                                                                         *)
(* Time is abstract: `recent' holds the endpoints whose last_checked is    *)
(* less than check_interval ago, and CooldownOver lets one drop out.       *)
(***************************************************************************)
EXTENDS Integers, Sequences, FiniteSets

CONSTANTS
    Endpoints,
    Terms,              \* payment terms a server may ask or a provider register
    CHUNK,              \* blocks per get_logs request
    InitialFees,        \* challenge fees the account can pay at the start
    RpcFails,           \* get_logs may raise
    FetchFails,         \* fetch_integrity_hash may raise
    MaxBlock,           \* bound on the block number
    MaxRefunded,        \* bound: challenges beyond this number get no refund
    MaxCrashes          \* bound on the number of crashes

ASSUME ChallengerAssumption ==
    /\ IsFiniteSet(Endpoints)
    /\ Terms # {}
    /\ CHUNK \in Nat \ {0}
    /\ {RpcFails, FetchFails} \subseteq BOOLEAN
    /\ {InitialFees, MaxBlock, MaxRefunded, MaxCrashes} \subseteq Nat

VARIABLES
    head,               \* w3.eth.block_number
    registered,         \* endpoint -> block of its registration, 0 before
    onChain,            \* endpoint -> terms whose hash the registry holds
    live,               \* endpoint -> terms its server asks
    challenges,         \* cid -> [endpoint, pending]: this account's challenges
    fees,               \* challenge fees the account can pay
    file,               \* the state file
    state,              \* the dict in memory
    pc,
    afterSave,          \* where save_state returns to
    current_block, start, found,    \* locals of sync_new_endpoints
    queue,              \* endpoints still to check in this cycle
    seen,               \* the hash check_endpoint has read from the registry
    crashes,
    missed              \* history: endpoints whose get_logs failed

registryVars == <<head, registered, onChain, live>>
accountVars == <<challenges, fees>>
locals == <<current_block, start, found, queue, seen>>
control == <<pc, afterSave>>
history == <<crashes, missed>>
challengerVars == <<registryVars, accountVars, file, state, locals, control, history>>

(***************************************************************************)
(* Both hashes are keccak256 of the same JSON but for the two addresses in *)
(* it: _computeIntegrityHash writes them in lower case without 0x,         *)
(* x402_metadata.py with 0x and as checksum addresses, or empty.           *)
(***************************************************************************)
RegistryHash(terms) == [addresses |-> "lower case", terms |-> terms]

RegistryHashes == {RegistryHash(t) : t \in Terms}

LiveHash(terms) == [addresses |-> "0x checksum", terms |-> terms]

NoChallenge == 0

NoState == [scannedTo |-> 0, known |-> {}, recent |-> {},
            pending |-> [e \in Endpoints |-> NoChallenge]]

\* The file opened for writing, its JSON not complete.
Torn == [NoState EXCEPT !.scannedTo = -1]

ChallengerInit ==
    /\ head = 0
    /\ registered = [e \in Endpoints |-> 0]
    /\ \E t \in Terms :
           onChain = [e \in Endpoints |-> t] /\ live = onChain /\ seen = RegistryHash(t)
    /\ challenges = <<>>
    /\ fees = InitialFees
    /\ file = NoState /\ state = NoState
    /\ pc = "down" /\ afterSave = "down"
    /\ current_block = 0 /\ start = 0 /\ found = {} /\ queue = {}
    /\ crashes = 0 /\ missed = {}

-----------------------------------------------------------------------------
(***************************************************************************)
(* The surroundings: providers register and update endpoints, servers      *)
(* change their answers, the workflow settles challenges, time passes.     *)
(***************************************************************************)
RegisterEndpoint(e, t) ==
    /\ head < MaxBlock
    /\ registered[e] = 0
    /\ head' = head + 1
    /\ registered' = [registered EXCEPT ![e] = head + 1]
    /\ onChain' = [onChain EXCEPT ![e] = t]
    /\ UNCHANGED <<live, accountVars, file, state, locals, control, history>>

UpdateEndpoint(e, t) ==
    /\ registered[e] # 0
    /\ onChain' = [onChain EXCEPT ![e] = t]
    /\ UNCHANGED <<head, registered, live, accountVars, file, state, locals, control, history>>

Serve(e, t) ==
    /\ live' = [live EXCEPT ![e] = t]
    /\ UNCHANGED <<head, registered, onChain, accountVars, file, state, locals, control, history>>

OtherBlock ==
    /\ head < MaxBlock
    /\ head' = head + 1
    /\ UNCHANGED <<registered, onChain, live, accountVars, file, state, locals, control,
                   history>>

\* A challenge found Invalid gives the challenger a fee back.
Settle(cid, refund) ==
    /\ challenges[cid].pending
    /\ refund => Len(challenges) <= MaxRefunded
    /\ challenges' = [challenges EXCEPT ![cid].pending = FALSE]
    /\ fees' = IF refund THEN fees + 1 ELSE fees
    /\ UNCHANGED <<registryVars, file, state, locals, control, history>>

\* The key is a provider's: other scripts spend from the same account.
OtherSpending ==
    /\ fees > 0
    /\ fees' = fees - 1
    /\ UNCHANGED <<registryVars, challenges, file, state, locals, control, history>>

CooldownOver(e) ==
    /\ e \in state.recent \cup file.recent
    /\ file' = [file EXCEPT !.recent = @ \ {e}]
    /\ state' \in {state, [state EXCEPT !.recent = @ \ {e}]}
    /\ UNCHANGED <<registryVars, accountVars, locals, control, history>>

-----------------------------------------------------------------------------
\* save_state opens the file with "w", which truncates it, then writes.
SaveAndGo(next) ==
    /\ file' = Torn
    /\ pc' = "saving"
    /\ afterSave' = next

Go(next) ==
    /\ pc' = next
    /\ UNCHANGED <<file, afterSave>>

FinishSave ==
    /\ pc = "saving"
    /\ file' = state
    /\ pc' = afterSave
    /\ UNCHANGED <<registryVars, accountVars, state, locals, afterSave, history>>

Start ==
    /\ pc = "down"
    /\ file # Torn
    /\ state' = file
    /\ pc' = "resolving"
    /\ UNCHANGED <<registryVars, accountVars, file, locals, afterSave, history>>

\* load_state raises on a truncated file, and with it the process.
StartFails ==
    /\ pc = "down"
    /\ file = Torn
    /\ UNCHANGED challengerVars

ResolvePending ==
    /\ pc = "resolving"
    /\ LET resolved == {e \in Endpoints : /\ state.pending[e] # NoChallenge
                                          /\ ~challenges[state.pending[e]].pending}
       IN  /\ state' = [state EXCEPT !.pending =
                           [e \in Endpoints |-> IF e \in resolved THEN NoChallenge ELSE @[e]]]
           /\ IF resolved # {} THEN SaveAndGo("discovering") ELSE Go("discovering")
    /\ UNCHANGED <<registryVars, accountVars, locals, history>>

StartSync ==
    /\ pc = "discovering"
    /\ current_block' = head
    /\ start' = state.scannedTo + 1
    /\ found' = {}
    /\ Go("scanning")
    /\ UNCHANGED <<registryVars, accountVars, state, queue, seen, history>>

\* EndpointRegistered events of the blocks from .. to.
RegisteredIn(from, to) == {e \in Endpoints : registered[e] \in from .. to}

ChunkEnd == IF start + CHUNK - 1 < current_block THEN start + CHUNK - 1 ELSE current_block

\* A failed get_logs is reported and the chunk left behind.
ScanChunk ==
    /\ pc = "scanning"
    /\ start <= current_block
    /\ \/ /\ found' = found \cup RegisteredIn(start, ChunkEnd)
          /\ UNCHANGED missed
       \/ /\ RpcFails
          /\ missed' = missed \cup RegisteredIn(start, ChunkEnd)
          /\ UNCHANGED found
    /\ start' = ChunkEnd + 1
    /\ UNCHANGED <<registryVars, accountVars, file, state, control, current_block, queue, seen,
                   crashes>>

\* Mutant of EndSync: the block number is read again.
EndSyncAtHead ==
    /\ pc = "scanning"
    /\ start > current_block
    /\ state' = [state EXCEPT
           !.known = @ \cup found,
           !.scannedTo = head]
    /\ queue' = state'.known
    /\ SaveAndGo("checking")
    /\ UNCHANGED <<registryVars, accountVars, current_block, start, found, seen, history>>

\* Mutant of EndSync: only the new endpoints are checked.
EndSyncNewOnly ==
    /\ pc = "scanning"
    /\ start > current_block
    /\ state' = [state EXCEPT
           !.known = @ \cup found,
           !.scannedTo = current_block]
    /\ queue' = found
    /\ SaveAndGo("checking")
    /\ UNCHANGED <<registryVars, accountVars, current_block, start, found, seen, history>>

EndSync ==
    /\ pc = "scanning"
    /\ start > current_block
    /\ state' = [state EXCEPT
           !.known = @ \cup found,
           !.scannedTo = current_block]
    /\ queue' = state'.known
    /\ SaveAndGo("checking")
    /\ UNCHANGED <<registryVars, accountVars, current_block, start, found, seen, history>>

-----------------------------------------------------------------------------
\* The list is in the order of discovery, which is that of registration.
IsNext(e) == e \in queue /\ \A other \in queue : registered[e] <= registered[other]

Checking(e) ==
    /\ pc = "checking"
    /\ IsNext(e)

\* Mutant of Checkable: a pending challenge is no reason to skip.
NotRecent(e) == e \notin state.recent

Checkable(e) == e \notin state.recent /\ state.pending[e] = NoChallenge

SkipEndpoint(e) ==
    /\ Checking(e)
    /\ ~Checkable(e)
    /\ queue' = queue \ {e}
    /\ UNCHANGED <<registryVars, accountVars, file, state, control, current_block, start, found,
                   seen, history>>

\* check_endpoint reads the registry; then it asks the server.
ReadOnChain(e) ==
    /\ Checking(e)
    /\ Checkable(e)
    /\ seen' = RegistryHash(onChain[e])
    /\ state' = [state EXCEPT !.recent = @ \cup {e}]
    /\ Go("fetching")
    /\ UNCHANGED <<registryVars, accountVars, current_block, start, found, queue, history>>

\* The comparison of a server's answer, were it the registered terms or not.
Matches(e) == LiveHash(live[e]) = seen

\* No mismatch found, or none that can be challenged.
NoChallengeDue(e) ==
    /\ pc = "fetching"
    /\ IsNext(e)
    /\ FetchFails \/ Matches(e) \/ fees = 0
    /\ queue' = queue \ {e}
    /\ SaveAndGo("checking")
    /\ UNCHANGED <<registryVars, accountVars, state, current_block, start, found, seen, history>>

FindMismatch(e) ==
    /\ pc = "fetching"
    /\ IsNext(e)
    /\ ~Matches(e)
    /\ fees > 0
    /\ Go("opening")
    /\ UNCHANGED <<registryVars, accountVars, state, locals, history>>

\* send_tx returns once the transaction is mined ..
OpenChallenge(e) ==
    /\ pc = "opening"
    /\ IsNext(e)
    /\ fees > 0
    /\ fees' = fees - 1
    /\ challenges' = Append(challenges, [endpoint |-> e, pending |-> TRUE])
    /\ Go("recording")
    /\ UNCHANGED <<registryVars, state, locals, history>>

\* .. and raises when it reverted, which nothing catches: the process ends.
Die ==
    /\ Go("down")
    /\ state' = NoState
    /\ current_block' = 0 /\ start' = 0 /\ found' = {} /\ queue' = {}
    /\ UNCHANGED <<registryVars, accountVars, seen, missed>>

OpenReverts ==
    /\ pc = "opening"
    /\ fees = 0
    /\ Die
    /\ UNCHANGED crashes

RecordChallenge(e) ==
    /\ pc = "recording"
    /\ IsNext(e)
    /\ state' = [state EXCEPT !.pending[e] = Len(challenges)]
    /\ queue' = queue \ {e}
    /\ SaveAndGo("checking")
    /\ UNCHANGED <<registryVars, accountVars, current_block, start, found, seen, history>>

\* Every endpoint was checked: sleep, and begin the next cycle.
EndCycle ==
    /\ pc = "checking"
    /\ queue = {}
    /\ Go("resolving")
    /\ UNCHANGED <<registryVars, accountVars, state, locals, history>>

\* Killed at any moment, or by an exception of another call.
Crash ==
    /\ pc # "down"
    /\ crashes < MaxCrashes
    /\ Die
    /\ crashes' = crashes + 1

CheckEndpoint ==
    \/ \E e \in Endpoints :
           \/ SkipEndpoint(e)
           \/ ReadOnChain(e)
           \/ NoChallengeDue(e)
           \/ FindMismatch(e)
           \/ OpenChallenge(e)
           \/ RecordChallenge(e)
    \/ OpenReverts

Work == FinishSave \/ ResolvePending \/ StartSync \/ ScanChunk \/ EndSync \/ CheckEndpoint \/ EndCycle

Surroundings ==
    \/ \E e \in Endpoints, t \in Terms : RegisterEndpoint(e, t) \/ UpdateEndpoint(e, t) \/ Serve(e, t)
    \/ OtherBlock
    \/ \E cid \in 1 .. Len(challenges), refund \in BOOLEAN : Settle(cid, refund)
    \/ OtherSpending
    \/ \E e \in Endpoints : CooldownOver(e)

ChallengerNext == Surroundings \/ Start \/ StartFails \/ Work \/ Crash

ChallengerSpec == ChallengerInit /\ [][ChallengerNext]_challengerVars

(***************************************************************************)
(* The loop runs while the process lives, somebody starts it again when it *)
(* died, a cooldown ends, and not every fetch of an answer that is no      *)
(* match fails.                                                            *)
(***************************************************************************)
CooldownEnds(e) == CooldownOver(e) /\ e \notin state'.recent

ChallengerFairness ==
    /\ WF_challengerVars(Work)
    /\ WF_challengerVars(Start)
    /\ \A e \in Endpoints : WF_challengerVars(CooldownEnds(e))
    /\ SF_challengerVars(\E e \in Endpoints : FindMismatch(e))

FairChallengerSpec == ChallengerSpec /\ ChallengerFairness

-----------------------------------------------------------------------------
(***************************************************************************)
(* Type invariant of the watcher and of its surroundings.                  *)
(***************************************************************************)
StateOK(s) ==
    s \in [scannedTo : -1 .. head, known : SUBSET Endpoints, recent : SUBSET Endpoints,
           pending : [Endpoints -> 0 .. Len(challenges)]]

ChallengerTypeOK ==
    /\ head \in 0 .. MaxBlock
    /\ registered \in [Endpoints -> 0 .. head]
    /\ onChain \in [Endpoints -> Terms] /\ live \in [Endpoints -> Terms]
    /\ challenges \in Seq([endpoint : Endpoints, pending : BOOLEAN])
    /\ fees \in Nat
    /\ StateOK(file) /\ StateOK(state)
    /\ pc \in {"down", "resolving", "discovering", "scanning", "checking", "fetching",
               "opening", "recording", "saving"}
    /\ afterSave \in {"down", "discovering", "checking"}
    /\ pc = "saving" => afterSave # "down"
    /\ current_block \in 0 .. head /\ start \in 0 .. head + 1
    /\ found \subseteq Endpoints /\ queue \subseteq Endpoints
    /\ seen \in RegistryHashes
    /\ crashes \in 0 .. MaxCrashes
    /\ missed \subseteq Endpoints

(***************************************************************************)
(* The watcher loses track of its own challenges only by dying: it never   *)
(* has more pending challenges against one endpoint than one, and one more *)
(* for every crash, whatever it reads late, retries or cannot pay.         *)
(***************************************************************************)
PendingAgainst(e) ==
    {cid \in 1 .. Len(challenges) : challenges[cid].endpoint = e /\ challenges[cid].pending}

PendingBounded == \A e \in Endpoints : Cardinality(PendingAgainst(e)) <= 1 + crashes

(***************************************************************************)
(* No endpoint falls behind the scan but those whose get_logs failed:      *)
(* blocks mined during a scan, chunk borders, crashes and the rewriting of *)
(* the file lose none, in memory or on disk.                               *)
(***************************************************************************)
Covered(s) ==
    \A e \in Endpoints :
        registered[e] \in 1 .. s.scannedTo => e \in s.known \cup missed

ScannedAreKnown == Covered(state) /\ Covered(file)

(***************************************************************************)
(* A server that keeps answering wrongly does not stay without a pending   *)
(* challenge, be it the first or one after others were settled: unless the *)
(* endpoint was missed, the account has no fee left or a crash during a    *)
(* save left a file the watcher cannot start from.  Of servers that answer *)
(* what is registered it says nothing: the watcher challenges them too,    *)
(* because its two hashes never match.                                     *)
(***************************************************************************)
MismatchChallenged ==
    \A e \in Endpoints :
        registered[e] # 0 ~> \/ PendingAgainst(e) # {}
                             \/ live[e] = onChain[e]
                             \/ e \in missed
                             \/ fees = 0
                             \/ pc = "down" /\ file = Torn

-----------------------------------------------------------------------------
(***************************************************************************)
(* challenger_watcher.py:12: the watcher "won't re-challenge an endpoint   *)
(* that already has a pending challenge", and line 14: "State is persisted *)
(* - safe to restart at any time".                                         *)
(***************************************************************************)
OnePendingPerEndpoint == \A e \in Endpoints : Cardinality(PendingAgainst(e)) <= 1
=============================================================================
