-------------------------- MODULE AnalyticsIndexer --------------------------
(***************************************************************************)
(* analytics_indexer.py: processes that copy the contracts' events into    *)
(* one SQLite database.  A daemon syncs for ever; POST /sync of the API    *)
(* runs `analytics_indexer.py --once' beside it.  A sync loads the cursors *)
(* from a JSON file, works through six steps that each commit, and saves   *)
(* the cursors again.                                                      *)
(*                                                                         *)
(* `History' is what the chain will contain: a sequence of blocks, each a  *)
(* sequence of events, of which the first `head' blocks are mined.  An     *)
(* event is named by its block and its place in it.                        *)
(*                                                                         *)
(* A transaction of a connection begins with its first write and excludes  *)
(* other writers: `writer' is the process that has one open, `view' the    *)
(* database as that process sees it, `db' what has been committed.         *)
(***************************************************************************)
EXTENDS Integers, Sequences, FiniteSets

CONSTANTS
    History,
    Logs,               \* step -> the events it fetches, in the order it has them
    Daemons,            \* processes that run without --once
    OneShots,           \* processes that run with --once
    DeployBlock,        \* what get_deploy_block returns
    CHUNK,              \* blocks per get_logs request
    MaxFaults,          \* bound on failed calls, exceptions and kills
    MaxRequests,        \* bound on the POST /sync requests
    NULL

Processes == Daemons \cup OneShots

EventIds == UNION {{<<b, i>> : i \in DOMAIN History[b]} : b \in DOMAIN History}

Ev(e) == History[e[1]][e[2]]

OfType ==
    [t \in {Ev(e).type : e \in EventIds} |-> {e \in EventIds : Ev(e).type = t}]

Of(types) == UNION {OfType[t] : t \in types \cap DOMAIN OfType}

\* The events whose rows have no key.
AppendedTypes == {"Staked", "UnstakeRequested", "Withdrawn", "Slashed", "Distributed", "Claimed"}

Appended == Of(AppendedTypes)

EventTypes ==
    AppendedTypes \cup {"ProviderDeployed", "ProviderRegistered", "EndpointRegistered",
                        "EndpointUpdated", "ChallengeOpened", "ChallengeResolved"}

ChainOrder(e, f) == e[1] < f[1] \/ (e[1] = f[1] /\ e[2] < f[2])

ASSUME IndexerAssumption ==
    /\ Daemons \cap OneShots = {} /\ NULL \notin Processes /\ IsFiniteSet(Processes)
    /\ DeployBlock \in Nat /\ CHUNK \in Nat \ {0}
    /\ {MaxFaults, MaxRequests} \subseteq Nat

\* A transaction is in one block; ChallengeManager settles a challenge once,
\* after it was opened.
ASSUME HistoryAssumption ==
    /\ \A e \in EventIds : /\ e[1] \in Nat \ {0} /\ e[2] \in Nat /\ e[1] >= DeployBlock
                           /\ Ev(e).type \in EventTypes
    /\ \A e, f \in EventIds : Ev(e).tx = Ev(f).tx => e[1] = f[1]
    /\ \A e, f \in Of({"ChallengeResolved"}) : Ev(e).id = Ev(f).id => e = f
    /\ \A e \in Of({"ChallengeResolved"}) :
           \E f \in Of({"ChallengeOpened"}) : Ev(f).id = Ev(e).id /\ ChainOrder(f, e)

VARIABLES
    head,               \* w3.eth.block_number
    db, writer, view,   \* the database
    file,               \* analytics_state.json
    pc,
    executed,           \* the writes of the step are done, its commit is not
    state,              \* the dict of a sync
    current_block,      \* local of sync_once
    requests, faults,
    overlaps,           \* history: syncs begun, with blocks to read, beside another
    missed              \* history: events a sync has passed over

database == <<db, writer, view>>
locals == <<executed, state, current_block>>
history == <<requests, faults, overlaps, missed>>
indexerVars == <<head, database, file, pc, locals, history>>

EmptyDb == [providers |-> <<>>, endpoints |-> [ep \in {} |-> NULL],
            challenges |-> [id \in {} |-> NULL], rows |-> [e \in Appended |-> <<>>],
            sync_state |-> [core |-> 0, per_provider |-> 0]]

NoState == [core |-> 0, per_provider |-> 0]

\* The file opened for writing, its JSON not complete.
Torn == [core |-> -1, per_provider |-> -1]

IndexerInit ==
    /\ head = 0
    /\ db = EmptyDb /\ writer = NULL /\ view = EmptyDb
    /\ file = NoState
    /\ pc = [p \in Processes |-> "off"]
    /\ executed = [p \in Processes |-> FALSE]
    /\ state = [p \in Processes |-> NoState]
    /\ current_block = [p \in Processes |-> 0]
    /\ requests = 0 /\ faults = 0 /\ overlaps = 0 /\ missed = {}

-----------------------------------------------------------------------------
(***************************************************************************)
(* What one event does to the database.  The tables stakes,                *)
(* unstake_requests, withdrawals, slashes, distributions and               *)
(* revenue_claims have no unique key: `rows' gives the provider_id of each *)
(* row written for an event.                                               *)
(***************************************************************************)
\* INSERT OR REPLACE of the row with key k.
Put(table, k, row) ==
    [x \in DOMAIN table \cup {k} |-> IF x = k THEN row ELSE table[x]]

\* INSERT OR IGNORE: tx_hash is unique.  The id is not known yet, and the
\* recipient of the revenue shares stands for the owner.
InsertProvider(d, e) ==
    IF \E i \in DOMAIN d.providers : d.providers[i].tx = Ev(e).tx
    THEN d
    ELSE [d EXCEPT !.providers = Append(@,
             [id |-> NULL, owner |-> Ev(e).recipient, share |-> Ev(e).share, tx |-> Ev(e).tx])]

\* Mutant of UpdateProvider: the recipient stays the owner.
UpdateProviderId(d, e) ==
    LET updated(row) == IF row.tx = Ev(e).tx THEN [row EXCEPT !.id = Ev(e).id] ELSE row
    IN  [d EXCEPT !.providers = [i \in DOMAIN @ |-> updated(@[i])]]

UpdateProvider(d, e) ==
    LET updated(row) == IF row.tx = Ev(e).tx
                        THEN [row EXCEPT !.id = Ev(e).id, !.owner = Ev(e).owner] ELSE row
    IN  [d EXCEPT !.providers = [i \in DOMAIN @ |-> updated(@[i])]]

\* Mutant of ProviderIdOf: the newest row.
ProviderIdOfLast(d, owner) ==
    IF \A i \in DOMAIN d.providers : d.providers[i].owner # owner THEN NULL
    ELSE d.providers[CHOOSE i \in DOMAIN d.providers :
             /\ d.providers[i].owner = owner
             /\ \A j \in DOMAIN d.providers : d.providers[j].owner = owner => j <= i].id

\* SELECT id FROM providers WHERE owner = ?, the first row.
ProviderIdOf(d, owner) ==
    IF \A i \in DOMAIN d.providers : d.providers[i].owner # owner THEN NULL
    ELSE d.providers[CHOOSE i \in DOMAIN d.providers :
             /\ d.providers[i].owner = owner
             /\ \A j \in 1 .. (i - 1) : d.providers[j].owner # owner].id

\* registry.endpoints() is asked now: its hash is that of the last change up
\* to the head, named by its block.
HashNow(endpoint) ==
    LET changes == {e \in Of({"EndpointRegistered", "EndpointUpdated"}) :
                       Ev(e).endpoint = endpoint /\ e[1] <= head}
    IN  CHOOSE b \in {e[1] : e \in changes} : \A e \in changes : e[1] <= b

\* INSERT OR REPLACE; without an answer of the registry the hash is empty.
ReplaceEndpoint(d, e, readable) ==
    [d EXCEPT !.endpoints = Put(@, Ev(e).endpoint,
        [provider_id |-> ProviderIdOf(d, Ev(e).provider), owner |-> Ev(e).provider,
         hash |-> IF readable THEN HashNow(Ev(e).endpoint) ELSE 0, block |-> e[1]])]

AppendRow(d, e, provider_id) == [d EXCEPT !.rows[e] = Append(@, provider_id)]

NewChallenge(e, readable) ==
    [endpoint |-> Ev(e).endpoint, status |-> 0, challenger |-> readable,
     opened |-> e[1], resolved |-> NULL]

\* Mutant of InsertChallenge: INSERT OR REPLACE, as for the endpoints.
ReplaceChallenge(d, e, readable) ==
    [d EXCEPT !.challenges = Put(@, Ev(e).id, NewChallenge(e, readable))]

\* INSERT OR IGNORE: the row of a known challenge stays as it is.
InsertChallenge(d, e, readable) ==
    IF Ev(e).id \in DOMAIN d.challenges THEN d
    ELSE [d EXCEPT !.challenges = Put(@, Ev(e).id, NewChallenge(e, readable))]

\* An UPDATE: a challenge without a row is passed over.
ResolveChallenge(d, e) ==
    IF Ev(e).id \notin DOMAIN d.challenges THEN d
    ELSE [d EXCEPT !.challenges[Ev(e).id].status = Ev(e).result,
                   !.challenges[Ev(e).id].resolved = e[1]]

ProcessRegistry(d, e, readable) ==
    IF Ev(e).type = "ProviderRegistered" THEN UpdateProvider(d, e)
                                         ELSE ReplaceEndpoint(d, e, readable)

ProcessChallenges(d, e, readable) ==
    IF Ev(e).type = "ChallengeOpened" THEN InsertChallenge(d, e, readable)
                                      ELSE ResolveChallenge(d, e)

\* The event names each step of the core fetches, in this order.
Fetches ==
    [factory    |-> <<"ProviderDeployed">>,
     registry   |-> <<"ProviderRegistered", "EndpointRegistered">>,
     staking    |-> <<"Staked", "UnstakeRequested", "Withdrawn", "Slashed">>,
     challenges |-> <<"ChallengeOpened", "ChallengeResolved">>]

CoreSteps == DOMAIN Fetches

Names(step) == {Fetches[step][i] : i \in DOMAIN Fetches[step]}

\* get_logs answers in chain order, for one name at a time.
InOrder(step, e, f) ==
    \E i \in DOMAIN Fetches[step], j \in DOMAIN Fetches[step] :
        /\ Ev(e).type = Fetches[step][i] /\ Ev(f).type = Fetches[step][j]
        /\ i < j \/ (i = j /\ ChainOrder(e, f))

ASSUME LogsAssumption ==
    \A step \in CoreSteps :
        /\ Logs[step] \in Seq(EventIds)
        /\ {Logs[step][k] : k \in DOMAIN Logs[step]} = Of(Names(step))
        /\ \A k, l \in DOMAIN Logs[step] : k < l => InOrder(step, Logs[step][k], Logs[step][l])

Process(step, d, e, readable) ==
    CASE step = "factory"    -> InsertProvider(d, e)
      [] step = "registry"   -> ProcessRegistry(d, e, readable)
      [] step = "staking"    -> AppendRow(d, e, NULL)
      [] step = "challenges" -> ProcessChallenges(d, e, readable)

\* Process on tables that TLC computes once.
Onto(step, d, e, readable) == CHOOSE x \in {Process(step, y, e, readable) : y \in {d}} : TRUE

\* The loop of a step over the events it has, each on what the last one left.
Processed(d, step, events, readable) ==
    LET after[n \in 0 .. Len(Logs[step])] ==
            IF n = 0 THEN d
            ELSE IF Logs[step][n] \in events
                 THEN Onto(step, after[n - 1], Logs[step][n], readable)
                 ELSE after[n - 1]
    IN  after[Len(Logs[step])]

Earlier(a, b) == IF a < b THEN a ELSE b

\* One failed get_logs takes the events of one name in one chunk with it.
FailedFetches(events, from, to) ==
    {{e \in events : e[1] \in start .. Earlier(start + CHUNK - 1, to)} :
        start \in {from + k * CHUNK : k \in 0 .. (to - from) \div CHUNK}} \ {{}}

-----------------------------------------------------------------------------
(***************************************************************************)
(* Connections, exceptions and the control of a sync.                      *)
(***************************************************************************)
Conn(p) == IF writer = p THEN view ELSE db

\* Another process holds the lock: wait, or raise after the busy timeout.
Locked(p) == writer \notin {NULL, p}

Write(p, events, d) ==
    IF events = {} THEN UNCHANGED database
    ELSE ~Locked(p) /\ writer' = p /\ view' = d /\ UNCHANGED db

\* Mutant of Rollback: the transaction stays open.
NoRollback(p) == UNCHANGED database

\* Closing a connection, or its process dying, undoes what is not committed.
Rollback(p) ==
    /\ writer' = IF writer = p THEN NULL ELSE writer
    /\ view' = IF writer = p THEN db ELSE view
    /\ UNCHANGED db

Costs(n) == faults + n <= MaxFaults /\ faults' = faults + n

Later(a, b) == IF a > b THEN a ELSE b

\* Mutant of core_from: the last block read is read again.
core_from_inclusive(s) == Later(s.core, DeployBlock)

core_from(s) == Later(s.core + 1, DeployBlock)

pp_from(s) == Later(s.per_provider + 1, DeployBlock)

FirstStep(s, to) ==
    IF core_from(s) <= to THEN "factory" ELSE IF pp_from(s) <= to THEN "per_provider" ELSE "save"

StepAfter(p) ==
    CASE pc[p] = "factory"            -> "registry"
      [] pc[p] = "registry"           -> "staking"
      [] pc[p] = "staking"            -> "challenges"
      [] pc[p] = "challenges"         -> "core_state"
      [] pc[p] = "core_state"         -> IF pp_from(state[p]) <= current_block[p]
                                         THEN "per_provider" ELSE "save"
      [] pc[p] = "per_provider"       -> "per_provider_state"
      [] pc[p] = "per_provider_state" -> "save"

\* Mutant of CursorsAfter: the block number is asked again.
CursorsAtHead(p) ==
    CASE pc[p] = "core_state"         -> [state[p] EXCEPT !.core = head]
      [] pc[p] = "per_provider_state" -> [state[p] EXCEPT !.per_provider = head]
      [] OTHER                        -> state[p]

CursorsAfter(p) ==
    CASE pc[p] = "core_state"         -> [state[p] EXCEPT !.core = current_block[p]]
      [] pc[p] = "per_provider_state" -> [state[p] EXCEPT !.per_provider = current_block[p]]
      [] OTHER                        -> state[p]

NextStep(p) ==
    /\ pc' = [pc EXCEPT ![p] = StepAfter(p)]
    /\ state' = [state EXCEPT ![p] = CursorsAfter(p)]
    /\ executed' = [executed EXCEPT ![p] = FALSE]

\* The writes of a step are done; without any there is nothing to commit.
Executed(p) ==
    /\ IF writer' = p
       THEN executed' = [executed EXCEPT ![p] = TRUE] /\ UNCHANGED <<pc, state>>
       ELSE NextStep(p)
    /\ UNCHANGED current_block

Forget(p) ==
    /\ executed' = [executed EXCEPT ![p] = FALSE]
    /\ state' = [state EXCEPT ![p] = NoState]
    /\ current_block' = [current_block EXCEPT ![p] = 0]

\* main prints an exception and goes on as at the end of any sync.
AfterSync(p) ==
    /\ pc' = [pc EXCEPT ![p] = IF p \in Daemons THEN "idle" ELSE "off"]
    /\ Forget(p)

-----------------------------------------------------------------------------
(***************************************************************************)
(* One sync.                                                               *)
(***************************************************************************)
Launch(p) ==
    /\ pc[p] = "off"
    /\ IF p \in Daemons THEN UNCHANGED requests
       ELSE requests < MaxRequests /\ requests' = requests + 1
    /\ pc' = [pc EXCEPT ![p] = "idle"]
    /\ UNCHANGED <<head, database, file, locals, faults, overlaps, missed>>

Syncing(p) == pc[p] \notin {"off", "idle"}

Begin(p) ==
    /\ pc[p] = "idle"
    /\ file # Torn
    /\ state' = [state EXCEPT ![p] = file]
    /\ current_block' = [current_block EXCEPT ![p] = head]
    /\ pc' = [pc EXCEPT ![p] = FirstStep(file, head)]
    /\ overlaps' = IF pc'[p] # "save" /\ (\E q \in Processes \ {p} : Syncing(q))
                   THEN overlaps + 1 ELSE overlaps
    /\ UNCHANGED <<head, database, file, executed, requests, faults, missed>>

\* load_state raises on a truncated file; the daemon tries again for ever.
BeginFails(p) ==
    /\ pc[p] = "idle"
    /\ file = Torn
    /\ p \in OneShots
    /\ AfterSync(p)
    /\ Rollback(p)
    /\ UNCHANGED <<head, file, history>>

\* What a core step has fetched, when the events of `lost' are not among it.
Fetched(p, step, lost) ==
    {e \in Of(Names(step)) : e[1] \in core_from(state[p]) .. current_block[p]} \ lost

Lost(p, step) ==
    IF faults = MaxFaults THEN {}
    ELSE UNION {FailedFetches(Of({t}), core_from(state[p]), current_block[p]) : t \in Names(step)}

\* A failed get_logs is reported and its chunk left behind; so is a failed
\* endpoints() or challenges().
ExecuteCore(p, step) ==
    /\ pc[p] = step /\ ~executed[p]
    /\ \E readable \in BOOLEAN,
          lost \in {{}} \cup Lost(p, step) :
          LET events == Fetched(p, step, lost)
          IN  /\ readable \/ (step \in {"registry", "challenges"} /\ events # {})
              /\ Costs((IF readable THEN 0 ELSE 1) + (IF lost = {} THEN 0 ELSE 1))
              /\ Write(p, events, Processed(Conn(p), step, events, readable))
              /\ missed' = missed \cup lost
    /\ Executed(p)
    /\ UNCHANGED <<head, file, requests, overlaps>>

\* get_block_ts, or a call that finds the contracts, raises after n writes.
\* The daemon goes on with its connection and the transaction open on it.
RaiseInCore(p, step) ==
    /\ pc[p] = step /\ ~executed[p]
    /\ Costs(1)
    /\ LET events == Fetched(p, step, {})
       IN  IF p \in OneShots THEN Rollback(p)
           ELSE \E n \in 0 .. Len(Logs[step]) :
                   LET written == events \cap {Logs[step][k] : k \in 1 .. n}
                   IN  /\ written = {} \/ written # events
                       /\ Write(p, written, Processed(Conn(p), step, written, TRUE))
    /\ AfterSync(p)
    /\ UNCHANGED <<head, file, requests, overlaps, missed>>

\* The upsert of the cursors into sync_state.
ExecuteState(p, step, table) ==
    /\ pc[p] = step /\ ~executed[p]
    /\ Write(p, {step}, [Conn(p) EXCEPT !.sync_state[table] = current_block[p]])
    /\ Executed(p)
    /\ UNCHANGED <<head, file, history>>

\* "database is locked": a statement waits for another writer and raises.
DatabaseLocked(p) ==
    /\ Locked(p)
    /\ ~executed[p]
    /\ \/ pc[p] \in {"core_state", "per_provider_state"}
       \/ /\ pc[p] \in CoreSteps
          /\ Fetched(p, pc[p], {}) # {}
    /\ Costs(1)
    /\ AfterSync(p)
    /\ UNCHANGED <<head, database, file, requests, overlaps, missed>>

\* Distributed of the row's splitter and Claimed of its revenue share.
ProviderEvents(row, type) == {e \in Of({type}) : Ev(e).share = row.share}

InRange(p, events) == {e \in events : e[1] \in pp_from(state[p]) .. current_block[p]}

\* One failed call loses a chunk, or what follows a block whose timestamp
\* cannot be read; an INSERT that finds the database locked loses the rest.
PassedOver(p) ==
    IF faults = MaxFaults THEN {}
    ELSE UNION {LET events == InRange(p, ProviderEvents(Conn(p).providers[i], type))
           IN  FailedFetches(events, pp_from(state[p]), current_block[p])
                   \cup {{e \in events : e[1] >= b} : b \in {e[1] : e \in events}} :
              i \in DOMAIN Conn(p).providers, type \in {"Distributed", "Claimed"}}

\* Each splitter and each share is of one row: the factory deploys new ones.
RowsOf(d, e) == {i \in DOMAIN d.providers : d.providers[i].share = Ev(e).share}

RowsAppended(d, events) ==
    [d EXCEPT !.rows = [e \in Appended |->
        IF e \in events THEN Append(@[e], d.providers[CHOOSE i \in RowsOf(d, e) : TRUE].id)
                        ELSE @[e]]]

\* Exceptions are caught provider by provider: the step always ends well.
ExecutePerProvider(p) ==
    /\ pc[p] = "per_provider" /\ ~executed[p]
    /\ \E lost \in {{}} \cup PassedOver(p)
                       \cup (IF Locked(p) THEN {Of({"Distributed", "Claimed"})} ELSE {}) :
          LET due == InRange(p, Of({"Distributed", "Claimed"}))
              found == {e \in due \ lost : RowsOf(Conn(p), e) # {}}
          IN  /\ Costs(IF lost = {} THEN 0 ELSE 1)
              /\ Write(p, found, RowsAppended(Conn(p), found))
              /\ missed' = missed \cup (due \ found)
    /\ Executed(p)
    /\ UNCHANGED <<head, file, requests, overlaps>>

Commit(p) ==
    /\ executed[p]
    /\ db' = view /\ view' = view /\ writer' = NULL
    /\ NextStep(p)
    /\ UNCHANGED <<head, file, current_block, history>>

\* save_state opens the file with "w", which truncates it, then writes.
BeginSave(p) ==
    /\ pc[p] = "save"
    /\ file' = Torn
    /\ pc' = [pc EXCEPT ![p] = "saving"]
    /\ UNCHANGED <<head, database, locals, history>>

FinishSave(p) ==
    /\ pc[p] = "saving"
    /\ file' = state[p]
    /\ AfterSync(p)
    /\ IF p \in OneShots THEN Rollback(p) ELSE UNCHANGED database
    /\ UNCHANGED <<head, history>>

-----------------------------------------------------------------------------
Mine ==
    /\ head < Len(History)
    /\ head' = head + 1
    /\ UNCHANGED <<database, file, pc, locals, history>>

\* A process is killed.  (trigger_sync gives up after 120 s and kills `uv',
\* not the indexer uv has started: that one goes on.)
Crash(p) ==
    /\ pc[p] # "off"
    /\ Costs(1)
    /\ pc' = [pc EXCEPT ![p] = "off"]
    /\ Rollback(p)
    /\ Forget(p)
    /\ UNCHANGED <<head, file, requests, overlaps, missed>>

Work(p) ==
    \/ Begin(p) \/ BeginFails(p)
    \/ \E step \in CoreSteps : ExecuteCore(p, step)
    \/ ExecuteState(p, "core_state", "core")
    \/ ExecutePerProvider(p)
    \/ ExecuteState(p, "per_provider_state", "per_provider")
    \/ Commit(p)
    \/ BeginSave(p) \/ FinishSave(p)

Trouble(p) ==
    \/ \E step \in CoreSteps : RaiseInCore(p, step)
    \/ DatabaseLocked(p) \/ Crash(p)

IndexerNext == Mine \/ \E p \in Processes : Launch(p) \/ Work(p) \/ Trouble(p)

IndexerSpec == IndexerInit /\ [][IndexerNext]_indexerVars

(***************************************************************************)
(* Some process that lives and can go on does, or somebody starts the      *)
(* daemon: as long as that is possible the system does not stop.           *)
(***************************************************************************)
Progress == (\E p \in Processes : Work(p)) \/ (\E p \in Daemons : Launch(p))

IndexerFairness == WF_indexerVars(Progress)

FairIndexerSpec == IndexerSpec /\ IndexerFairness

-----------------------------------------------------------------------------
(***************************************************************************)
(* An event is counted twice only for a reason: the tables without a key   *)
(* hold it at most once, and once more for each sync that failed or was    *)
(* killed and each that ran beside another.                                *)
(***************************************************************************)
DuplicatesHaveCause == \A e \in Appended : Len(db.rows[e]) <= 1 + faults + overlaps

(***************************************************************************)
(* Nothing at or before the saved cursor is absent from the database but   *)
(* what a failed call passed over and providers without a row of their     *)
(* own, whatever was killed, ran at the same time or was saved late.       *)
(***************************************************************************)
Indexed(d, e) ==
    LET ev == Ev(e)
    IN CASE ev.type = "ProviderDeployed" ->
              \E i \in DOMAIN d.providers : d.providers[i].tx = ev.tx /\ d.providers[i].share = ev.share
         [] ev.type = "ProviderRegistered" ->
              \E i \in DOMAIN d.providers : d.providers[i].id = ev.id /\ d.providers[i].owner = ev.owner
         [] ev.type = "EndpointRegistered" -> ev.endpoint \in DOMAIN d.endpoints
         [] ev.type = "EndpointUpdated" -> TRUE
         [] ev.type = "ChallengeOpened" -> ev.id \in DOMAIN d.challenges
         [] ev.type = "ChallengeResolved" ->
              ev.id \in DOMAIN d.challenges /\ d.challenges[ev.id].status = ev.result
         [] OTHER -> d.rows[e] # <<>>

\* The row an UPDATE needs is written for another event.
NeedsRowOf(e) ==
    CASE Ev(e).type = "ProviderRegistered" ->
           {f \in Of({"ProviderDeployed"}) : Ev(f).tx = Ev(e).tx}
      [] Ev(e).type = "ChallengeResolved" ->
           {f \in Of({"ChallengeOpened"}) : Ev(f).id = Ev(e).id}
      [] OTHER -> {}

\* The row of a provider is that of the transaction that deployed it: two
\* providers of one transaction share it, and one that has registered
\* without the factory has none.
WithoutRow ==
    LET its(e) == {f \in Of({"ProviderDeployed", "ProviderRegistered"}) : Ev(f).tx = Ev(e).tx}
    IN  {e \in Of({"ProviderDeployed", "ProviderRegistered"}) :
            \/ \A f \in its(e) : Ev(f).type = "ProviderRegistered"
            \/ \E f, g \in its(e) : f # g /\ Ev(f).type = Ev(g).type}

Excused(e) == e \in WithoutRow \/ ({e} \cup NeedsRowOf(e)) \cap missed # {}

SyncedOrMissed == \A e \in EventIds : e[1] <= file.core => Indexed(db, e) \/ Excused(e)

(***************************************************************************)
(* An endpoint is never shown under a provider that is not its owner's,    *)
(* although rows first carry the recipient of the shares as the owner and  *)
(* are looked up by that name.  (Of an owner's several providers it may be *)
(* the wrong one: see Regular in AnalyticsViews.)                          *)
(***************************************************************************)
EndpointsAttributed ==
    \A ep \in DOMAIN db.endpoints :
        db.endpoints[ep].provider_id # NULL =>
            \E e \in Of({"ProviderRegistered"}) : /\ Ev(e).id = db.endpoints[ep].provider_id
                                                  /\ Ev(e).owner = db.endpoints[ep].owner

(***************************************************************************)
(* A verdict once shown stays: no sync, late, repeated or out of step with *)
(* another, turns a resolved challenge back into a pending one.            *)
(***************************************************************************)
VerdictStays ==
    [][\A id \in DOMAIN db.challenges :
          db.challenges[id].status # 0 =>
             id \in DOMAIN db'.challenges /\ db'.challenges[id].status = db.challenges[id].status]_db

(***************************************************************************)
(* Once the chain has its last block every event gets into the database,   *)
(* unless a failed call passed it over or a kill during a save left a file *)
(* no sync can start from.                                                 *)
(***************************************************************************)
EventuallyIndexed ==
    head = Len(History) ~> file = Torn \/ \A e \in EventIds : Indexed(db, e) \/ Excused(e)
=============================================================================
