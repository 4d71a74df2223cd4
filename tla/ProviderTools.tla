---------------------------- MODULE ProviderTools ---------------------------
(***************************************************************************)
(* The command line tools that move a provider's money: the SDK client     *)
(* (client.py) under the CLI (cli.py), and the scripts that send their own *)
(* transactions (api_registry_factory.py, stake_manager.py).               *)
(* A session is a shell or a script run.  Its command reads the chain with *)
(* one call after another, and signs, submits and waits for one            *)
(* transaction after another; meanwhile other sessions, perhaps with the   *)
(* same key, do the same, a session dies or gives up waiting, the admin    *)
(* moves the minimum and a challenge slashes the bond.  Nothing is kept    *)
(* between commands.                                                       *)
(*                                                                         *)
(* A transaction is one block, and runs when its nonce is the account's    *)
(* next.  Gas prices are left out but for what they decide: whether a      *)
(* second transaction with a nonce replaces the first or is refused.       *)
(***************************************************************************)
EXTENDS APIIntegrityRegistry

CONSTANTS
    Sessions,           \* shells and script runs
    SdkSessions,        \* those that send through ComposedClient._send_tx
    KeyOf,              \* session -> account whose key it signs with
    CHUNK,              \* blocks per get_logs call of _my_deployments
    SdkGasSuffices,     \* may deployProvider fit the 500_000 gas _send_tx gives it
    EarlierDeployments, \* providers each key may have deployed long before
    MaxCommands,        \* bound on commands started
    MaxCuts,            \* bound on sessions killed or timed out
    MaxMoves            \* bound on slashes, changes of the minimum and ticks

ASSUME ToolsAssumption ==
    /\ IsFiniteSet(Sessions) /\ Sessions # {}
    /\ SdkSessions \subseteq Sessions
    /\ KeyOf \in [Sessions -> Users]
    /\ SdkGasSuffices \subseteq BOOLEAN
    /\ SdkGasSuffices # {}
    /\ CHUNK \in Nat \ {0}
    /\ EarlierDeployments \subseteq Nat
    /\ {MaxCommands, MaxCuts, MaxMoves} \subseteq Nat

VARIABLES
    allowance,          \* owner -> USDC the StakeManager may take
    nonce,              \* account -> nonce of its next transaction
    mempool,            \* transactions submitted and not mined
    block,              \* the latest block
    deployments,        \* ProviderDeployed events, [deployer, block]
    sdkGasSuffices,
    session,            \* session -> its command and how far it is
    budget,             \* commands, cuts and slashes so far
    topUp,              \* history: account -> highest minimum a preflight read
    reported,           \* history: account -> deployments told to the user
    cut,                \* history: account -> sessions cut off
    overlapped          \* history: accounts two of whose sessions ran at once

chainVars == <<allowance, nonce, mempool, block, deployments, sdkGasSuffices>>
historyVars == <<budget, topUp, reported, cut, overlapped>>
toolsVars == <<stakeVars, registryVars, chainVars, session, historyVars>>

Idle == [pc |-> "idle", cmd |-> "none", fn |-> "none", amount |-> 0, nonce |-> 0,
         seen |-> 0, minimum |-> 0, from |-> 0, latest |-> 0, found |-> {}, lost |-> FALSE]

Busy(s) == session[s].pc # "idle"

At(s, pc) == session[s].pc = pc

(***************************************************************************)
(* The bond that earlier deployments needed may have been withdrawn since: *)
(* a session finds any state of the contracts with nothing bonded.         *)
(***************************************************************************)
Deployer == CHOOSE u \in Users : \E s \in Sessions : KeyOf[s] = u

ToolsInit ==
    /\ StakeInit
    /\ stakeManagerSet = TRUE
    /\ endpoints = << >>
    /\ \E n \in EarlierDeployments, spl \in Splitters :
           /\ providers = [i \in 1 .. n |-> [owner |-> Deployer, revenueSplitter |-> spl]]
           /\ deployments = [i \in 1 .. n |-> [deployer |-> Deployer, block |-> i]]
           /\ block = n
           /\ reported = [u \in Users |-> IF u = Deployer THEN n ELSE 0]
    /\ allowance = [u \in Users |-> 0]
    /\ nonce = [u \in Users |-> 0]
    /\ mempool = {}
    /\ sdkGasSuffices \in SdkGasSuffices
    /\ session = [s \in Sessions |-> Idle]
    /\ budget = [commands |-> 0, cuts |-> 0, moves |-> 0]
    /\ topUp = [u \in Users |-> 0]
    /\ cut = [u \in Users |-> 0]
    /\ overlapped = {}

Become(s, local) == session' = [session EXCEPT ![s] = local]

Goto(s, pc) == Become(s, [session[s] EXCEPT !.pc = pc])

\* The command is over, its locals are gone.
End(s) == session' = [session EXCEPT ![s] = Idle]

\* The next thing the command does is to send this transaction.
Send(s, fn, amount) ==
    Become(s, [session[s] EXCEPT !.pc = "nonce", !.fn = fn, !.amount = amount])

-----------------------------------------------------------------------------
(***************************************************************************)
(* Commands.  unstake and withdraw take an amount, 0 for all of it; the    *)
(* scripts of stake_manager.py send what they are given without looking,   *)
(* and read the minimum before the stake where the CLI reads it after.     *)
(***************************************************************************)
Begin(s, local) ==
    /\ At(s, "idle")
    /\ budget.commands < MaxCommands
    /\ Become(s, local)
    /\ budget' = [budget EXCEPT !.commands = @ + 1]
    /\ overlapped' = IF \E r \in Sessions \ {s} : KeyOf[r] = KeyOf[s] /\ Busy(r)
                     THEN overlapped \cup {KeyOf[s]} ELSE overlapped
    /\ UNCHANGED <<stakeVars, registryVars, chainVars, topUp, reported, cut>>

StakeCommand(s) ==
    s \in SdkSessions /\ Begin(s, [Idle EXCEPT !.cmd = "stake", !.pc = "readStake"])

DeployCommand(s) ==
    s \in SdkSessions /\ Begin(s, [Idle EXCEPT !.cmd = "deploy", !.pc = "readStake"])

UnstakeCommand(s, amount) ==
    /\ s \in SdkSessions
    /\ Begin(s, [Idle EXCEPT !.cmd = "unstake", !.pc = "readStake", !.amount = amount])

WithdrawCommand(s, amount) ==
    /\ s \in SdkSessions
    /\ Begin(s, [Idle EXCEPT !.cmd = "withdraw", !.pc = "readStake", !.amount = amount])

ScriptDeploy(s) ==
    s \notin SdkSessions /\ Begin(s, [Idle EXCEPT !.cmd = "deploy", !.pc = "readMinimum"])

ScriptUnstake(s, amount) ==
    /\ s \notin SdkSessions
    /\ Begin(s, [Idle EXCEPT
               !.cmd = "unstake", !.pc = "nonce", !.fn = "requestUnstake",
               !.amount = amount])

ScriptWithdraw(s, amount) ==
    /\ s \notin SdkSessions
    /\ Begin(s, [Idle EXCEPT
               !.cmd = "withdraw", !.pc = "nonce", !.fn = "withdraw", !.amount = amount])

SplitterCommand(s) ==
    /\ s \in SdkSessions
    /\ Begin(s, [Idle EXCEPT !.cmd = "splitter", !.pc = "scan", !.from = 1, !.latest = block])

-----------------------------------------------------------------------------
(***************************************************************************)
(* Reads.  Stake and minimum, then the balance, then (SDK only) the        *)
(* allowance: the chain may move in between, and before the transactions   *)
(* that follow.                                                            *)
(***************************************************************************)
Reading == UNCHANGED <<stakeVars, registryVars, chainVars, budget, reported, cut, overlapped>>

TopsUp(s) == session[s].cmd \in {"stake", "deploy"}

ReadStake(s) ==
    /\ At(s, "readStake") /\ TopsUp(s)
    /\ Become(s, [session[s] EXCEPT
               !.pc = IF s \in SdkSessions THEN "readMinimum" ELSE "preflight",
               !.seen = stakes[KeyOf[s]].amount])
    /\ Reading /\ UNCHANGED topUp

ReadMinimum(s) ==
    /\ At(s, "readMinimum")
    /\ Become(s, [session[s] EXCEPT
               !.pc = IF s \in SdkSessions THEN "preflight" ELSE "readStake",
               !.minimum = minimumStakeRequired])
    /\ Reading /\ UNCHANGED topUp

\* Mutant of Shortfall: the whole minimum, whatever is staked already.
WholeMinimum(s) ==
    IF session[s].minimum > session[s].seen THEN session[s].minimum ELSE 0

Shortfall(s) ==
    IF session[s].minimum > session[s].seen
    THEN session[s].minimum - session[s].seen ELSE 0

Larger(a, b) == IF a >= b THEN a ELSE b

\* The bond suffices: stake is done, deploy-provider deploys.
PreflightPasses(s) ==
    /\ Shortfall(s) = 0
    /\ IF session[s].cmd = "deploy" THEN Send(s, "deployProvider", 0) ELSE End(s)
    /\ UNCHANGED topUp

\* The script approves whatever is approved already.
PreflightTopsUp(s) ==
    /\ Shortfall(s) > 0
    /\ usdc[KeyOf[s]] >= Shortfall(s)
    /\ topUp' = [topUp EXCEPT ![KeyOf[s]] = Larger(@, session[s].minimum)]
    /\ IF s \in SdkSessions
       THEN Become(s, [session[s] EXCEPT !.pc = "readAllowance", !.amount = Shortfall(s)])
       ELSE Send(s, "approve", Shortfall(s))

PreflightFails(s) ==
    /\ Shortfall(s) > usdc[KeyOf[s]]
    /\ End(s)
    /\ UNCHANGED topUp

Preflight(s) ==
    /\ At(s, "preflight")
    /\ PreflightPasses(s) \/ PreflightTopsUp(s) \/ PreflightFails(s)
    /\ Reading

\* _ensure_allowance: an allowance left by an earlier run is used.
EnsureAllowance(s) ==
    /\ At(s, "readAllowance")
    /\ IF allowance[KeyOf[s]] < session[s].amount
       THEN Send(s, "approve", session[s].amount)
       ELSE Send(s, "stake", session[s].amount)
    /\ Reading /\ UNCHANGED topUp

Requested(s) ==
    IF session[s].amount = 0 THEN stakes[KeyOf[s]].amount ELSE session[s].amount

UnstakePreflight(s) ==
    /\ At(s, "readStake") /\ session[s].cmd = "unstake"
    /\ CASE Requested(s) > stakes[KeyOf[s]].amount -> End(s)
         [] Requested(s) = 0 -> Become(s, [session[s] EXCEPT
                                        !.pc = "readAgain", !.fn = "requestUnstake"])
         [] OTHER -> Send(s, "requestUnstake", Requested(s))
    /\ Reading /\ UNCHANGED topUp

\* The amount is not compared with the bond here: the contract does that.
WithdrawPreflight(s) ==
    /\ At(s, "readStake") /\ session[s].cmd = "withdraw"
    /\ CASE stakes[KeyOf[s]].unlockTimestamp > now -> End(s)
         [] Requested(s) = 0 -> Become(s, [session[s] EXCEPT
                                        !.pc = "readAgain", !.fn = "withdraw"])
         [] OTHER -> Send(s, "withdraw", Requested(s))
    /\ Reading /\ UNCHANGED topUp

\* An amount of 0 makes the client read the bond once more, and take all of it.
ReadAgain(s) ==
    /\ At(s, "readAgain")
    /\ IF stakes[KeyOf[s]].amount = 0 THEN End(s)
       ELSE Send(s, session[s].fn, stakes[KeyOf[s]].amount)
    /\ Reading /\ UNCHANGED topUp

(***************************************************************************)
(* _my_deployments and _resolve_splitter: the signer's ProviderDeployed    *)
(* events, a chunk at a time.  A chunk that fails is passed over.          *)
(***************************************************************************)
ChunkEnd(s) ==
    IF session[s].from + CHUNK - 1 < session[s].latest
    THEN session[s].from + CHUNK - 1 ELSE session[s].latest

DeployedIn(u, first, last) ==
    {i \in 1 .. Len(deployments) : /\ deployments[i].deployer = u
                                   /\ deployments[i].block \in first .. last}

\* Mutant of ScanChunk: the next chunk begins where the last one ended, plus two.
ScanChunkGap(s, fails) ==
    /\ At(s, "scan") /\ session[s].from <= session[s].latest
    /\ Become(s, [session[s] EXCEPT
               !.from = ChunkEnd(s) + 2,
               !.found = IF fails THEN @
                         ELSE @ \cup DeployedIn(KeyOf[s], session[s].from, ChunkEnd(s)),
               !.lost = @ \/ fails])
    /\ Reading /\ UNCHANGED topUp

ScanChunk(s, fails) ==
    /\ At(s, "scan") /\ session[s].from <= session[s].latest
    /\ Become(s, [session[s] EXCEPT
               !.from = ChunkEnd(s) + 1,
               !.found = IF fails THEN @
                         ELSE @ \cup DeployedIn(KeyOf[s], session[s].from, ChunkEnd(s)),
               !.lost = @ \/ fails])
    /\ Reading /\ UNCHANGED topUp

\* Exactly one is taken for the signer's splitter, none or several end it.
ResolveSplitter(s) ==
    /\ At(s, "scan") /\ session[s].from > session[s].latest
    /\ IF Cardinality(session[s].found) = 1 THEN Goto(s, "splitter") ELSE End(s)
    /\ Reading /\ UNCHANGED topUp

\* Without --distribute, or with nothing pending, the splitter is only shown.
UseSplitter(s) ==
    /\ At(s, "splitter")
    /\ Send(s, "distribute", 0) \/ End(s)
    /\ Reading /\ UNCHANGED topUp

-----------------------------------------------------------------------------
(***************************************************************************)
(* Sending.  _send_tx of the SDK counts mined transactions; send_tx of     *)
(* the scripts, which `splitter' uses too, counts pending ones as well and *)
(* estimates gas first, which fails for a call that would revert on the    *)
(* latest state.                                                           *)
(***************************************************************************)
PendingOf(u) == {t \in mempool : t.by \in Sessions /\ KeyOf[t.by] = u}

\* Mutant of PendingNonce: one past the pending transactions.
PendingNonceOff(s) == nonce[KeyOf[s]] + Cardinality(PendingOf(KeyOf[s])) + 1

PendingNonce(s) == nonce[KeyOf[s]] + Cardinality(PendingOf(KeyOf[s]))

ThroughSdk(s) == s \in SdkSessions /\ session[s].cmd # "splitter"

ReadNonce(s) ==
    /\ At(s, "nonce")
    /\ Become(s, [session[s] EXCEPT
               !.pc = "submit",
               !.nonce = IF ThroughSdk(s) THEN nonce[KeyOf[s]] ELSE PendingNonce(s)])
    /\ Reading /\ UNCHANGED topUp

Transaction(s) ==
    [by |-> s, nonce |-> session[s].nonce, fn |-> session[s].fn, amount |-> session[s].amount]

\* The pending transactions of the same account and nonce.
Rivals(s) == {t \in PendingOf(KeyOf[s]) : t.nonce = session[s].nonce}

StakeRuns(u, amount) ==
    /\ amount > 0
    /\ amount <= allowance[u]
    /\ CanMove(usdc, u, StakeManagerAddr, amount)

DeployRuns(t) ==
    /\ (stakeManagerSet /\ minimumStakeRequired > 0)
           => stakes[KeyOf[t.by]].amount >= minimumStakeRequired
    /\ t.by \in SdkSessions => sdkGasSuffices

Runs(t) == LET u == KeyOf[t.by] IN
    CASE t.fn = "stake"          -> StakeRuns(u, t.amount)
      [] t.fn = "requestUnstake" -> stakes[u].amount >= t.amount
      [] t.fn = "withdraw"       -> ENABLED Withdraw(u, t.amount)
      [] t.fn = "deployProvider" -> DeployRuns(t)
      [] OTHER                   -> TRUE

Refused(s) ==
    \/ session[s].nonce < nonce[KeyOf[s]]
    \/ Rivals(s) # {}
    \/ ~ThroughSdk(s) /\ ~Runs(Transaction(s))

SubmitFails(s) ==
    /\ At(s, "submit")
    /\ Refused(s)
    /\ End(s)
    /\ Reading /\ UNCHANGED topUp

\* Accepted; a rival is replaced if the gas price has risen enough.
Submit(s) ==
    /\ At(s, "submit")
    /\ session[s].nonce >= nonce[KeyOf[s]]
    /\ ThroughSdk(s) \/ Runs(Transaction(s))
    /\ mempool' = (mempool \ Rivals(s)) \cup {Transaction(s)}
    /\ Goto(s, "wait")
    /\ UNCHANGED <<stakeVars, registryVars, allowance, nonce, block, deployments,
                   sdkGasSuffices, historyVars>>

\* The transaction a session waits for.
Awaits(s, t) == At(s, "wait") /\ t = Transaction(s)

-----------------------------------------------------------------------------
\* What the transaction changes when it does not revert.
Effect(t) == LET u == KeyOf[t.by] IN
    \/ /\ t.fn = "approve"
       /\ allowance' = [allowance EXCEPT ![u] = t.amount]
       /\ UNCHANGED <<stakeVars, registryVars, deployments>>
    \/ /\ t.fn = "stake"
       /\ Stake(u, t.amount)
       /\ allowance' = [allowance EXCEPT ![u] = @ - t.amount]
       /\ UNCHANGED <<registryVars, deployments>>
    \/ /\ t.fn = "requestUnstake"
       /\ RequestUnstake(u, t.amount)
       /\ UNCHANGED <<allowance, registryVars, deployments>>
    \/ /\ t.fn = "withdraw"
       /\ Withdraw(u, t.amount)
       /\ UNCHANGED <<allowance, registryVars, deployments>>
    \/ /\ t.fn = "deployProvider"
       /\ \E spl \in Splitters : RegisterProvider(u, spl)
       /\ deployments' = Append(deployments, [deployer |-> u, block |-> block + 1])
       /\ UNCHANGED <<allowance, stakeVars>>
    \/ /\ t.fn = "distribute"
       /\ UNCHANGED <<allowance, stakeVars, registryVars, deployments>>

Mine(t) ==
    /\ t \in mempool
    /\ t.nonce = nonce[KeyOf[t.by]]
    /\ IF Runs(t) THEN Effect(t)
       ELSE UNCHANGED <<allowance, stakeVars, registryVars, deployments>>
    /\ mempool' = mempool \ {t}
    /\ nonce' = [nonce EXCEPT ![KeyOf[t.by]] = @ + 1]
    /\ block' = block + 1
    /\ session' = IF Awaits(t.by, t)
                  THEN [session EXCEPT ![t.by].pc = IF Runs(t) THEN "receipt" ELSE "reverted"]
                  ELSE session
    /\ UNCHANGED <<sdkGasSuffices, historyVars>>

(***************************************************************************)
(* The receipt arrives: the command goes on or is over.                    *)
(***************************************************************************)
Receipt(s) ==
    /\ At(s, "receipt")
    /\ CASE session[s].fn = "approve" -> Send(s, "stake", session[s].amount)
         [] session[s].fn = "stake" /\ session[s].cmd = "deploy" -> Send(s, "deployProvider", 0)
         [] OTHER -> End(s)
    /\ reported' = IF session[s].fn = "deployProvider"
                   THEN [reported EXCEPT ![KeyOf[s]] = @ + 1] ELSE reported
    /\ UNCHANGED <<stakeVars, registryVars, chainVars, budget, topUp, cut, overlapped>>

\* RuntimeError on a revert; a replaced transaction never has a receipt.
RaiseReverted(s) ==
    /\ \/ At(s, "reverted")
       \/ At(s, "wait") /\ Transaction(s) \notin mempool
    /\ End(s)
    /\ Reading /\ UNCHANGED topUp

\* Mutant of Cut: on a timeout the command is sent again.
CutResends(s) ==
    /\ Busy(s)
    /\ budget.cuts < MaxCuts
    /\ budget' = [budget EXCEPT !.cuts = @ + 1]
    /\ IF At(s, "wait") THEN Goto(s, "nonce") /\ UNCHANGED cut
       ELSE End(s) /\ cut' = [cut EXCEPT ![KeyOf[s]] = @ + 1]
    /\ UNCHANGED <<stakeVars, registryVars, chainVars, topUp, reported, overlapped>>

\* Killed, an RPC call that raises, or 120 s without a receipt.
Cut(s) ==
    /\ Busy(s)
    /\ budget.cuts < MaxCuts
    /\ budget' = [budget EXCEPT !.cuts = @ + 1]
    /\ End(s) /\ cut' = [cut EXCEPT ![KeyOf[s]] = @ + 1]
    /\ UNCHANGED <<stakeVars, registryVars, chainVars, topUp, reported, overlapped>>

OutsideMove ==
    /\ budget.moves < MaxMoves
    /\ budget' = [budget EXCEPT !.moves = @ + 1]
    /\ UNCHANGED <<registryVars, chainVars, session, topUp, reported, cut, overlapped>>

\* admin_cli.py set-minimum-stake, with a key of its own.
SetMinimumStep(m) ==
    /\ SetMinimumStakeRequired(m)
    /\ OutsideMove

\* A challenge against the account is lost.
SlashStep(u, c, bp) ==
    /\ Slash(u, bp, c)
    /\ OutsideMove

TimeStep ==
    /\ Tick
    /\ OutsideMove

-----------------------------------------------------------------------------
CommandStep(s) ==
    \/ StakeCommand(s)
    \/ DeployCommand(s) \/ ScriptDeploy(s)
    \/ \E amount \in Amounts : UnstakeCommand(s, amount) \/ WithdrawCommand(s, amount)
                              \/ ScriptUnstake(s, amount) \/ ScriptWithdraw(s, amount)
    \/ SplitterCommand(s)

SessionStep(s) ==
    \/ ReadStake(s) \/ ReadMinimum(s) \/ Preflight(s) \/ EnsureAllowance(s)
    \/ UnstakePreflight(s) \/ WithdrawPreflight(s) \/ ReadAgain(s)
    \/ \E fails \in BOOLEAN : ScanChunk(s, fails)
    \/ ResolveSplitter(s) \/ UseSplitter(s)
    \/ ReadNonce(s) \/ Submit(s) \/ SubmitFails(s)
    \/ Receipt(s) \/ RaiseReverted(s)

ToolsNext ==
    \/ \E s \in Sessions : CommandStep(s) \/ SessionStep(s) \/ Cut(s)
    \/ \E t \in mempool : Mine(t)
    \/ \E u \in Users, c \in Users, bp \in SlashBps : SlashStep(u, c, bp)
    \/ \E m \in MinimumStakes \ {minimumStakeRequired} : SetMinimumStep(m)
    \/ TimeStep

ToolsSpec == ToolsInit /\ [][ToolsNext]_toolsVars

\* Blocks are produced while a transaction can be mined.
FairToolsSpec == ToolsSpec /\ WF_toolsVars(\E t \in mempool : Mine(t))

-----------------------------------------------------------------------------
(***************************************************************************)
(* stake and deploy-provider top the bond up to the minimum they read and  *)
(* no further, whatever is slashed, withdrawn or set meanwhile and         *)
(* whatever allowance earlier runs left.  More is bonded only after a      *)
(* session was cut off or two ran with one key at the same time.           *)
(***************************************************************************)
OverstakeHasCause ==
    \A u \in Users : \/ stakes[u].amount <= topUp[u]
                     \/ cut[u] > 0
                     \/ u \in overlapped

(***************************************************************************)
(* A provider nobody was told of exists only if a session was cut off for  *)
(* it: each deployment is reported, still to be reported, or answered for  *)
(* by one cut session; no retry or nonce conflict deploys a second one.    *)
(***************************************************************************)
Owned(u) == {i \in ProviderIds : providers[i].owner = u}

ToReport(u) ==
    {s \in Sessions : KeyOf[s] = u /\ At(s, "receipt") /\ session[s].fn = "deployProvider"}

UnreportedHasCause ==
    \A u \in Users :
        Cardinality(Owned(u)) <= reported[u] + Cardinality(ToReport(u)) + cut[u]

(***************************************************************************)
(* `splitter' takes a splitter for the signer's only one although the      *)
(* signer had deployed another by the block the search began with only if  *)
(* get_logs failed for some chunk; and it is one the signer deployed.      *)
(***************************************************************************)
AutoDetectHasCause ==
    \A s \in Sessions : At(s, "splitter") =>
        /\ \/ session[s].lost
           \/ session[s].found = DeployedIn(KeyOf[s], 1, session[s].latest)
        /\ \A i \in session[s].found : deployments[i].deployer = KeyOf[s]

(***************************************************************************)
(* No transaction is stuck: pending and latest nonces, replacements,       *)
(* sessions that share a key and sessions that die never leave a gap in    *)
(* front of a submitted one.                                               *)
(***************************************************************************)
Waiting(u) == PendingOf(u) # {}

PendingMined == \A u \in {KeyOf[s] : s \in Sessions} : Waiting(u) ~> ~Waiting(u)
=============================================================================
