------------------------- MODULE EndpointOnboarding -------------------------
(***************************************************************************)
(* Registering, updating and challenging endpoints with the SDK            *)
(* (client.py, hash.py), the CLI (cli.py, x402_metadata.py) and the        *)
(* provider's script (api_registry_factory.py), against the registry, the  *)
(* ChallengeManager and the verdict the CRE workflow would give.           *)
(*                                                                         *)
(* One provider serves one URL; an endpoint is a path, the URL or (without *)
(* scheme and host) the bare path, and a method.  A command fetches the    *)
(* server's answer to a GET or reads the chain, sends its transaction and  *)
(* waits for it; a transaction whose command has given up stays in the     *)
(* pool.  Meanwhile the server changes its answer, other commands run, the *)
(* owner moves the fee.  What an answer says is a record:                  *)
(*   amount, asset, payTo   the payment data (asset: asset and network,    *)
(*                          which are treated alike)                       *)
(*   names                  those of the three that stand under the name   *)
(*                          the workflow reads; the others stand under one *)
(*                          of the SDK's other names for them              *)
(*   listed                 there is an accepts list on the outside, not a *)
(*                          paymentRequired wrapper or a flat object       *)
(*   resource               resource.url                                   *)
(*   methods                the methods it answers so; nothing to others   *)
(***************************************************************************)
EXTENDS IntegrityWorkflow

CONSTANTS
    Tools,              \* subset of {"sdk", "cli", "script"}: one session of each
    Owner,              \* whose key they sign with
    URL, BarePath,      \* the two paths
    Methods,            \* HTTP methods an endpoint may be registered with
    Answers,            \* what the server may say
    Flags,              \* values given for the payment data, Keep where left out
    Metadata,           \* values of a provider's metadataURI
    Keep,               \* an option that was left out
    MaxCommands,        \* bound on commands started
    MaxChanges,         \* bound on changes of the answer and of challengeFee
    MaxCuts             \* bound on commands cut off

Fields == {"amount", "asset", "payTo"}

NoFlags == [f \in Fields |-> Keep]

ASSUME OnboardingAssumption ==
    /\ Tools \subseteq {"sdk", "cli", "script"}
    /\ Owner \in Users
    /\ URL # BarePath
    /\ <<URL, "GET">> \in Resources
    /\ Resources \subseteq {URL, BarePath} \X Methods
    /\ Keep \notin Splitters \cup Metadata
    /\ NoFlags \in Flags

VARIABLES
    answer,             \* what the server says now
    metadata,           \* provider id -> metadataURI
    feeAllowance,       \* USDC of Owner the ChallengeManager may take
    session,            \* tool -> its command and how far it is
    pool,               \* transactions sent and not mined, [by, what]
    source,             \* history: endpoint id -> [answer, flags] of its hash
    named,              \* history: the splitter last named in an executed update
    quoted,             \* history: highest fee a session has read to approve it
    raced,              \* history: two update-provider commands overlapped
    count               \* history: commands, changes and cuts so far

toolVars == <<metadata, feeAllowance>>
traceVars == <<source, named, quoted, raced>>
onboardingVars == <<stakeVars, registryVars, challengeVars, workflowVars,
                    answer, toolVars, session, pool, traceVars, count>>

Idle == [pc |-> "idle", cmd |-> "none", endpoint |-> <<URL, "GET">>, flags |-> NoFlags,
         read |-> Keep, url |-> URL, splitter |-> Keep, uri |-> Keep, fee |-> 0]

At(s, cmd, pc) == session[s].cmd = cmd /\ session[s].pc = pc

Become(s, local) == session' = [session EXCEPT ![s] = local]

Goto(s, pc) == Become(s, [session[s] EXCEPT !.pc = pc])

End(s) == session' = [session EXCEPT ![s] = Idle]

(***************************************************************************)
(* What a node of the workflow makes of an answer (main.ts): no accepts is *)
(* no metadata, a field under another name is the empty string.            *)
(***************************************************************************)
CRESees(a, f) == IF f \in a.names THEN a[f] ELSE ""

CRERead(a) ==
    IF a.listed
    THEN Hash([amount |-> CRESees(a, "amount"), asset |-> CRESees(a, "asset"),
               url |-> a.resource], CRESees(a, "payTo"))
    ELSE Malformed

\* What is read of an answer with accepts is payment metadata.
ASSUME AnswersAssumption == \A a \in Answers : a.listed => CRERead(a) # Malformed

\* The workflow asks with the registered method, for a path that is a URL.
Serving(a) ==
    [r \in Resources |-> CASE r[1] # URL            -> Unreachable
                           [] r[2] \notin a.methods -> Malformed
                           [] OTHER                 -> CRERead(a)]

\* An earlier challenge may have left the fee approved.
OnboardingInit ==
    /\ StakeInit
    /\ ChallengeInit
    /\ \E spl \in Splitters : /\ providers = <<[owner |-> Owner, revenueSplitter |-> spl]>>
                              /\ named = spl
    /\ endpoints = << >>
    /\ stakeManagerSet = TRUE
    /\ answer \in Answers
    /\ served = Serving(answer)
    /\ reports = {}
    /\ metadata \in Metadata
    /\ feeAllowance \in {0, challengeFee}
    /\ session = [s \in Tools |-> Idle]
    /\ pool = {}
    /\ source = << >>
    /\ quoted = feeAllowance
    /\ raced = FALSE
    /\ count = [commands |-> 0, changes |-> 0, cuts |-> 0]

ChainUnchanged == UNCHANGED <<stakeVars, registryVars, challengeVars, toolVars>>

OnlySession == ChainUnchanged /\ UNCHANGED <<workflowVars, answer, pool, traceVars, count>>

-----------------------------------------------------------------------------
(***************************************************************************)
(* A command begins; its transaction is sent, mined in some later block or *)
(* not at all, and waited for.  The SDK takes the nonce of the latest      *)
(* block, so that a transaction of its own may replace one that waits; so  *)
(* may the nodes drop one.  Mined transactions come in any order.          *)
(***************************************************************************)
Begin(s, local) ==
    /\ session[s].pc = "idle"
    /\ count.commands < MaxCommands
    /\ count' = [count EXCEPT !.commands = @ + 1]
    /\ Become(s, local)
    /\ ChainUnchanged
    /\ UNCHANGED <<workflowVars, answer, pool, source, named, quoted>>

Send(s, next) ==
    /\ pool' = pool \cup {[by |-> s, what |-> session[s]]}
    /\ Goto(s, next)
    /\ ChainUnchanged
    /\ UNCHANGED <<workflowVars, answer, traceVars, count>>

Waiting(s) == \E tx \in pool : tx.by = s /\ tx.what.cmd = session[s].cmd

\* The receipt is there, of a transaction executed or reverted.
SeeReceipt(s) ==
    /\ session[s].pc = "wait"
    /\ ~Waiting(s)
    /\ End(s)
    /\ OnlySession

\* Mined without effect: refused by the contract, out of gas, or replaced.
NoEffect(tx) ==
    /\ pool' = pool \ {tx}
    /\ ChainUnchanged
    /\ UNCHANGED <<workflowVars, answer, session, traceVars, count>>

-----------------------------------------------------------------------------
(***************************************************************************)
(* register-endpoint and update-endpoint.  What flags do not give is       *)
(* fetched, with GET whatever the method.  The SDK registers the bare path *)
(* and knows several names and shapes; CLI and script register the whole   *)
(* URL and know one.  The script hashes the URL the server reports, the    *)
(* others the one they were given or find in the registry.                 *)
(***************************************************************************)
PathRegistered(s) == IF s = "sdk" THEN BarePath ELSE URL

RegisterCommand(s, method, flags) ==
    /\ s = "script" => method = "GET" /\ flags = NoFlags
    /\ <<PathRegistered(s), method>> \in Resources
    /\ Begin(s, [Idle EXCEPT !.cmd = "register", !.pc = "fetch", !.flags = flags,
                             !.endpoint = <<PathRegistered(s), method>>])
    /\ UNCHANGED raced

UpdateCommand(s, endpoint, flags) ==
    /\ s # "script"
    /\ <<1, endpoint>> \in DOMAIN endpoints
    /\ Begin(s, [Idle EXCEPT !.cmd = "update", !.pc = "fetch", !.flags = flags,
                             !.endpoint = endpoint])
    /\ UNCHANGED raced

\* _extract_payment_fields finds what the other tools take from accepts[0] only.
Understands(s, a) == s = "sdk" \/ (a.listed /\ a.names = Fields)

\* An update fetches the registered path, which a bare path cannot be.
CanFetch(s) ==
    /\ session[s].cmd = "update" => session[s].endpoint[1] = URL
    /\ "GET" \in answer.methods
    /\ Understands(s, answer)

UrlHashed(s) ==
    CASE session[s].cmd = "update" -> session[s].endpoint[1]
      [] s = "script"              -> answer.resource
      [] OTHER                     -> URL

NothingToFetch(flags) == \A f \in Fields : flags[f] # Keep

Fetch(s) ==
    /\ session[s].cmd \in {"register", "update"} /\ session[s].pc = "fetch"
    /\ \/ /\ NothingToFetch(session[s].flags)
          /\ Become(s, [session[s] EXCEPT !.pc = "send", !.url = UrlHashed(s)])
       \/ /\ ~NothingToFetch(session[s].flags)
          /\ CanFetch(s)
          /\ Become(s, [session[s] EXCEPT !.pc = "send", !.read = answer, !.url = UrlHashed(s)])
       \/ /\ ~NothingToFetch(session[s].flags)
          /\ ~CanFetch(s)
          /\ End(s)
    /\ OnlySession

SendEndpoint(s) ==
    /\ session[s].cmd \in {"register", "update"} /\ session[s].pc = "send"
    /\ Send(s, "wait")

\* A flag goes before what was fetched.
Given(local, f) == IF local.flags[f] # Keep THEN local.flags[f] ELSE local.read[f]

\* Mutant of PayTo: the address is left out, and defaults to the splitter.
PayToOmitted(local) == NoAddress

PayTo(local) == Given(local, "payTo")

TermsSent(local) ==
    [amount |-> Given(local, "amount"), asset |-> Given(local, "asset"), url |-> local.url]

Accepted(local) ==
    \/ /\ local.cmd = "register"
       /\ RegisterEndpoint(Owner, 1, local.endpoint, PayTo(local), TermsSent(local))
    \/ /\ local.cmd = "update"
       /\ UpdateEndpoint(Owner, 1, local.endpoint, PayTo(local), TermsSent(local))

Traced(local) ==
    LET eid == <<1, local.endpoint>>
    IN  source' = [e \in DOMAIN source \cup {eid} |->
                      IF e = eid THEN [answer |-> local.read, flags |-> local.flags]
                                 ELSE source[e]]

EndpointMined(tx) ==
    /\ Accepted(tx.what)
    /\ Traced(tx.what)
    /\ pool' = pool \ {tx}
    /\ UNCHANGED <<stakeVars, challengeVars, workflowVars, answer, toolVars, session,
                   named, quoted, raced, count>>

-----------------------------------------------------------------------------
(***************************************************************************)
(* update-provider: the registry takes all fields, so what the user left   *)
(* out is read first and written back.  The script writes what it is given.*)
(***************************************************************************)
AllGiven(splitter, uri) == splitter # Keep /\ uri # Keep

\* Some update-provider command has not sent its transaction, or it is not mined.
UpdateUnderWay ==
    \/ \E s \in Tools : session[s].cmd = "provider" /\ session[s].pc # "wait"
    \/ \E tx \in pool : tx.what.cmd = "provider"

UpdateProviderCommand(s, splitter, uri) ==
    /\ s = "script" => AllGiven(splitter, uri)
    /\ Begin(s, [Idle EXCEPT
               !.cmd = "provider", !.pc = IF s = "script" THEN "write" ELSE "read",
               !.splitter = splitter, !.uri = uri])
    /\ raced' = (raced \/ UpdateUnderWay)

ReadProvider(s) ==
    /\ At(s, "provider", "read")
    /\ Become(s, [session[s] EXCEPT
               !.pc = "write",
               !.read = [splitter |-> providers[1].revenueSplitter, uri |-> metadata]])
    /\ OnlySession

\* Mutant of Merged: the field left out is the one the endpoint is served with.
MergedFromServer(local) ==
    IF local.splitter # Keep THEN local.splitter ELSE answer.payTo

Merged(local) ==
    IF local.splitter # Keep THEN local.splitter ELSE local.read.splitter

SendProvider(s) == At(s, "provider", "write") /\ Send(s, "wait")

ProviderMined(tx) ==
    /\ tx.what.cmd = "provider"
    /\ UpdateProvider(Owner, 1, Merged(tx.what))
    /\ metadata' = IF tx.what.uri # Keep THEN tx.what.uri ELSE tx.what.read.uri
    /\ named' = IF tx.what.splitter # Keep THEN tx.what.splitter ELSE named
    /\ pool' = pool \ {tx}
    /\ UNCHANGED <<stakeVars, challengeVars, workflowVars, answer, feeAllowance, session,
                   source, quoted, raced, count>>

-----------------------------------------------------------------------------
(***************************************************************************)
(* challenge: the endpoint must be registered.  The CLI reads the fee,     *)
(* shows it and looks at the balance; the client reads the fee again,      *)
(* approves it unless as much is approved already, and opens the challenge *)
(* at whatever the fee is by then.                                         *)
(***************************************************************************)
ChallengeCommand(s, endpoint) ==
    /\ s # "script"
    /\ <<1, endpoint>> \in DOMAIN endpoints
    /\ Begin(s, [Idle EXCEPT
               !.cmd = "challenge", !.pc = IF s = "cli" THEN "show" ELSE "readFee",
               !.endpoint = endpoint])
    /\ UNCHANGED raced

ShowFee(s) ==
    /\ At(s, "challenge", "show")
    /\ Become(s, [session[s] EXCEPT !.pc = "balance", !.fee = challengeFee])
    /\ OnlySession

CheckBalance(s) ==
    /\ At(s, "challenge", "balance")
    /\ IF usdc[Owner] < session[s].fee THEN End(s) ELSE Goto(s, "readFee")
    /\ OnlySession

ReadFee(s) ==
    /\ At(s, "challenge", "readFee")
    /\ Become(s, [session[s] EXCEPT !.pc = "allow", !.fee = challengeFee])
    /\ quoted' = IF challengeFee > quoted THEN challengeFee ELSE quoted
    /\ ChainUnchanged
    /\ UNCHANGED <<workflowVars, answer, pool, source, named, raced, count>>

EnoughAllowed(s) ==
    /\ At(s, "challenge", "allow")
    /\ feeAllowance >= session[s].fee
    /\ Goto(s, "open")
    /\ OnlySession

SendApproval(s) ==
    /\ At(s, "challenge", "allow")
    /\ feeAllowance < session[s].fee
    /\ Send(s, "approving")

SeeApproval(s) ==
    /\ At(s, "challenge", "approving")
    /\ ~Waiting(s)
    /\ Goto(s, "open")
    /\ OnlySession

\* Mutant of Approval: a margin, in case the fee rises.
ApprovalWithMargin(local) == local.fee + 1

Approval(local) == local.fee

ApprovalMined(tx) ==
    /\ tx.what.cmd = "challenge" /\ tx.what.pc = "allow"
    /\ feeAllowance' = Approval(tx.what)
    /\ pool' = pool \ {tx}
    /\ UNCHANGED <<stakeVars, registryVars, challengeVars, workflowVars, answer, metadata,
                   session, traceVars, count>>

SendChallenge(s) == At(s, "challenge", "open") /\ Send(s, "wait")

FeeAllowed == challengeFee <= feeAllowance

ChallengeMined(tx) ==
    /\ tx.what.cmd = "challenge" /\ tx.what.pc = "open"
    /\ FeeAllowed
    /\ OpenChallenge(Owner, <<1, tx.what.endpoint>>)
    /\ feeAllowance' = feeAllowance - challengeFee
    /\ pool' = pool \ {tx}
    /\ UNCHANGED <<workflowVars, answer, metadata, session, traceVars, count>>

-----------------------------------------------------------------------------
\* The provider edits its server.
ServeAnswer(a) ==
    /\ count.changes < MaxChanges
    /\ a # answer
    /\ answer' = a
    /\ served' = Serving(a)
    /\ count' = [count EXCEPT !.changes = @ + 1]
    /\ ChainUnchanged
    /\ UNCHANGED <<reports, session, pool, traceVars>>

\* admin_cli.py set-challenge-fee.
ChangeFee(fee) ==
    /\ count.changes < MaxChanges
    /\ fee # challengeFee
    /\ SetChallengeFee(fee)
    /\ count' = [count EXCEPT !.changes = @ + 1]
    /\ UNCHANGED <<stakeVars, registryVars, workflowVars, answer, toolVars, session, pool,
                   traceVars>>

\* Killed, an RPC call or a fetch that raises, or the wait for a receipt given up.
CutOff(s) ==
    /\ session[s].pc # "idle"
    /\ count.cuts < MaxCuts
    /\ End(s)
    /\ count' = [count EXCEPT !.cuts = @ + 1]
    /\ ChainUnchanged
    /\ UNCHANGED <<workflowVars, answer, pool, traceVars>>

-----------------------------------------------------------------------------
ToolStep(s) ==
    \/ \E method \in Methods, flags \in Flags : RegisterCommand(s, method, flags)
    \/ \E endpoint \in Resources :
           \/ \E flags \in Flags : UpdateCommand(s, endpoint, flags)
           \/ ChallengeCommand(s, endpoint)
    \/ \E spl \in Splitters \cup {Keep}, uri \in Metadata \cup {Keep} :
           UpdateProviderCommand(s, spl, uri)
    \/ Fetch(s) \/ SendEndpoint(s)
    \/ ReadProvider(s) \/ SendProvider(s)
    \/ ShowFee(s) \/ CheckBalance(s) \/ ReadFee(s)
    \/ EnoughAllowed(s) \/ SendApproval(s) \/ SeeApproval(s) \/ SendChallenge(s)
    \/ SeeReceipt(s)
    \/ CutOff(s)

PoolStep(tx) ==
    \/ EndpointMined(tx)
    \/ ProviderMined(tx)
    \/ ApprovalMined(tx)
    \/ ChallengeMined(tx)
    \/ NoEffect(tx)

OnboardingNext ==
    \/ \E s \in Tools : ToolStep(s)
    \/ \E tx \in pool : PoolStep(tx)
    \/ \E a \in Answers : ServeAnswer(a)
    \/ \E fee \in ChallengeFees : ChangeFee(fee)

OnboardingSpec == OnboardingInit /\ [][OnboardingNext]_onboardingVars

-----------------------------------------------------------------------------
(***************************************************************************)
(* An endpoint registered or updated from what its live server answered to *)
(* the GET passes the CRE check, unless the server's answer or the         *)
(* splitter has changed since, the server answers the registered method    *)
(* otherwise, a flag said other than the server, or the tool wrote down    *)
(* something the check does not see the same way: the SDK's bare path, a   *)
(* URL other than the resource.url of the answer, fields under other names *)
(* or without an accepts list, the address(0) that the registry takes to   *)
(* mean the splitter.                                                      *)
(***************************************************************************)
PassesCheck(eid) ==
    Verdict([revenueSplitter |-> providers[1].revenueSplitter,
             integrityHash |-> endpoints[eid].integrityHash], served[eid[2]]) = 1

FlagsAgree(flags, a) == \A f \in Fields : flags[f] \in {Keep, a[f]}

SeenAlike(eid) ==
    /\ eid[2][1] = URL
    /\ eid[2][2] \in answer.methods
    /\ endpoints[eid].integrityHash.terms.url = answer.resource
    /\ answer.listed /\ answer.names = Fields
    /\ answer.payTo # NoAddress

RegisteredPasses ==
    \A eid \in DOMAIN endpoints :
        (/\ source[eid].answer = answer
         /\ FlagsAgree(source[eid].flags, answer)
         /\ endpoints[eid].integrityHash.payTo = providers[1].revenueSplitter
         /\ SeenAlike(eid)) => PassesCheck(eid)

(***************************************************************************)
(* The provider's splitter is the one last asked for: an update of another *)
(* field never moves it back, unless two update-provider commands were     *)
(* under way at once.  One that has given up waiting is under way until    *)
(* its transaction is mined or dropped.                                    *)
(***************************************************************************)
SplitterAsNamed == raced \/ providers[1].revenueSplitter = named

(***************************************************************************)
(* No challenge costs more than the highest fee read to be approved,       *)
(* whatever the owner does to the fee before the challenge opens, whatever *)
(* cut or reverted challenges left approved and however late an approval   *)
(* or a challenge is mined.  The fee the CLI shows is no such bound: the   *)
(* client reads the fee again.                                             *)
(***************************************************************************)
ChargedAsRead ==
    [][Len(challenges') > Len(challenges) => usdc[Owner] - usdc'[Owner] <= quoted]_onboardingVars
=============================================================================
