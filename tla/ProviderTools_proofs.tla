------------------------ MODULE ProviderTools_proofs ------------------------
(***************************************************************************)
(* What the provider's tools do not do, for any number of sessions and     *)
(* keys and however their reads and transactions interleave.               *)
(***************************************************************************)
EXTENDS ProviderTools, FiniteSetTheorems, SequenceTheorems, TLAPS

-----------------------------------------------------------------------------
(***************************************************************************)
(* The types.  The names of places and calls are spelled out: the provers  *)
(* tell strings apart, but know of none that it is a STRING.               *)
(***************************************************************************)
Places == {"idle", "readStake", "readMinimum", "preflight", "readAllowance", "readAgain",
           "scan", "splitter", "nonce", "submit", "wait", "receipt", "reverted"}

Commands == {"none", "stake", "deploy", "unstake", "withdraw", "splitter"}

Calls == {"none", "approve", "stake", "requestUnstake", "withdraw", "deployProvider",
          "distribute"}

SessionType ==
    [pc : Places, cmd : Commands, fn : Calls, amount : Nat, nonce : Nat, seen : Nat,
     minimum : Nat, from : Nat, latest : Nat, found : SUBSET Nat, lost : BOOLEAN]

TransactionType == [by : Sessions, nonce : Nat, fn : Calls, amount : Nat]

ToolsTypeOK ==
    /\ stakes \in [Users -> [amount : Nat, unlockTimestamp : Nat]]
    /\ now \in Nat /\ withdrawCooldown \in Nat /\ minimumStakeRequired \in Nat
    /\ providers \in Seq([owner : Users, revenueSplitter : Splitters])
    /\ deployments \in Seq([deployer : Users, block : Nat])
    /\ block \in Nat
    /\ nonce \in [Users -> Nat]
    /\ IsFiniteSet(mempool) /\ mempool \subseteq TransactionType
    /\ session \in [Sessions -> SessionType]
    /\ topUp \in [Users -> Nat]
    /\ reported \in [Users -> Nat]
    /\ cut \in [Users -> Nat]

(***************************************************************************)
(* What a search for the signer's splitter has found so far: all that was  *)
(* deployed in the blocks already searched, unless a chunk was passed      *)
(* over.                                                                   *)
(***************************************************************************)
ScanInv ==
    /\ \A i \in 1 .. Len(deployments) : deployments[i].block <= block
    /\ \A s \in Sessions :
           /\ At(s, "scan") \/ At(s, "splitter") =>
                  /\ session[s].latest <= block
                  /\ \A i \in session[s].found :
                         /\ i \in 1 .. Len(deployments)
                         /\ deployments[i].deployer = KeyOf[s]
           /\ At(s, "scan") =>
                  /\ session[s].from >= 1
                  /\ session[s].from <= session[s].latest + 1
                  /\ \/ session[s].lost
                     \/ session[s].found = DeployedIn(KeyOf[s], 1, session[s].from - 1)
           /\ At(s, "splitter") =>
                  \/ session[s].lost
                  \/ session[s].found = DeployedIn(KeyOf[s], 1, session[s].latest)

(***************************************************************************)
(* A deployment in the mempool that no session waits for any more has a    *)
(* cut session to answer for it, before it is mined as well as after.      *)
(***************************************************************************)
Orphans(u) ==
    {t \in mempool : KeyOf[t.by] = u /\ t.fn = "deployProvider" /\ ~Awaits(t.by, t)}

ReportInv ==
    \A u \in Users :
        Cardinality(Owned(u)) + Cardinality(Orphans(u))
            <= reported[u] + Cardinality(ToReport(u)) + cut[u]

(***************************************************************************)
(* While no session of a key was cut off and no two ran at once, one       *)
(* session at most is busy, it waits for whatever the key has in the       *)
(* mempool, and what it is about to bond tops the bond up to a minimum     *)
(* some preflight read.                                                    *)
(***************************************************************************)
Clean(u) == cut[u] = 0 /\ u \notin overlapped

Alone(u) ==
    /\ \A r \in Sessions, s \in Sessions :
           KeyOf[r] = u /\ KeyOf[s] = u /\ Busy(r) /\ Busy(s) => r = s
    /\ \A t \in mempool : KeyOf[t.by] = u => Awaits(t.by, t)

\* The bond the session saw can only have shrunk since.
HasSeen(s) == At(s, "preflight") \/ (At(s, "readMinimum") /\ s \in SdkSessions)

ToppingUp(s) ==
    \/ At(s, "readAllowance")
    \/ /\ At(s, "nonce") \/ At(s, "submit") \/ At(s, "wait")
       /\ session[s].fn \in {"approve", "stake"}
    \/ At(s, "receipt") /\ session[s].fn = "approve"

Bounded(s) ==
    /\ HasSeen(s) => stakes[KeyOf[s]].amount <= session[s].seen
    /\ ToppingUp(s) => stakes[KeyOf[s]].amount + session[s].amount <= topUp[KeyOf[s]]
    /\ At(s, "readAgain") => session[s].fn \in {"requestUnstake", "withdraw"}

TopUpInv ==
    \A u \in Users : Clean(u) =>
        /\ Alone(u)
        /\ stakes[u].amount <= topUp[u]
        /\ \A s \in Sessions : KeyOf[s] = u => Bounded(s)

-----------------------------------------------------------------------------
(***************************************************************************)
(* The contracts.                                                          *)
(***************************************************************************)
LEMMA SlashLowersBond ==
    ASSUME ToolsTypeOK, NEW p \in Users, NEW bp \in SlashBps
    PROVE  SlashAmount(p, bp) \in 0 .. stakes[p].amount
<1>1. stakes[p].amount \in Nat /\ bp \in Nat /\ BP_SCALE \in Nat \ {0}
    BY ParametersAssumption DEF ToolsTypeOK
<1>2. stakes[p].amount * bp \in Nat
    BY <1>1
<1>3. BpOf(stakes[p].amount, bp) \in Nat
    BY <1>1, <1>2 DEF BpOf
<1> QED BY <1>1, <1>3 DEF SlashAmount

(***************************************************************************)
(* Of the contracts' state a transaction of u changes u's bond, by what    *)
(* it stakes, or downwards.                                                *)
(***************************************************************************)
LEMMA EffectOnContracts ==
    ASSUME ToolsTypeOK, NEW t \in mempool, Effect(t)
    PROVE  /\ stakes' \in [Users -> [amount : Nat, unlockTimestamp : Nat]]
           /\ now' = now /\ withdrawCooldown' = withdrawCooldown
           /\ minimumStakeRequired' = minimumStakeRequired
           /\ \A v \in Users :
                  stakes'[v].amount > stakes[v].amount =>
                      /\ v = KeyOf[t.by] /\ t.fn = "stake"
                      /\ stakes'[v].amount = stakes[v].amount + t.amount
<1> DEFINE u == KeyOf[t.by]
<1>1. u \in Users /\ t.amount \in Nat
    BY ToolsAssumption DEF ToolsTypeOK, TransactionType
<1>2. CASE t.fn = "stake" /\ Stake(u, t.amount)
    BY <1>1, <1>2, SMTT(20) DEF ToolsTypeOK, stakeParams, Stake
<1>3. CASE t.fn = "requestUnstake" /\ RequestUnstake(u, t.amount)
    <2>1. now + withdrawCooldown \in Nat
        BY DEF ToolsTypeOK
    <2>2. stakes' = [stakes EXCEPT ![u].unlockTimestamp = now + withdrawCooldown]
        BY <1>3 DEF RequestUnstake
    <2>3. \A v \in Users : stakes[v].amount \in Nat /\ stakes'[v].amount = stakes[v].amount
        BY <1>1, <2>2 DEF ToolsTypeOK
    <2>4. stakes' \in [Users -> [amount : Nat, unlockTimestamp : Nat]]
        BY <1>1, <2>1, <2>2 DEF ToolsTypeOK
    <2>5. UNCHANGED <<now, stakeParams>>
        BY <1>3 DEF RequestUnstake
    <2>6. \A v \in Users : ~(stakes'[v].amount > stakes[v].amount)
        BY <2>3
    <2> QED BY <2>4, <2>5, <2>6 DEF stakeParams
<1>4. CASE t.fn = "withdraw" /\ Withdraw(u, t.amount)
    <2>1. stakes[u].amount - t.amount \in Nat
        BY <1>1, <1>4 DEF ToolsTypeOK, Withdraw
    <2>2. stakes' = [stakes EXCEPT ![u].amount = @ - t.amount]
        BY <1>4 DEF Withdraw
    <2>3. stakes'[u].amount <= stakes[u].amount
        BY <1>1, <2>1, <2>2, SMTT(20) DEF ToolsTypeOK
    <2>4. \A v \in Users : stakes[v].amount \in Nat /\ ~(stakes'[v].amount > stakes[v].amount)
        BY <1>1, <2>2, <2>3, SMTT(20) DEF ToolsTypeOK
    <2> QED BY <1>1, <1>4, <2>1, <2>2, <2>4, ZenonT(30) DEF ToolsTypeOK, stakeParams, Withdraw
<1>5. CASE UNCHANGED stakeVars
    <2>1. \A v \in Users : stakes[v].amount \in Nat
        BY DEF ToolsTypeOK
    <2> QED BY <1>5, <2>1 DEF ToolsTypeOK, stakeVars, stakeParams
<1> QED BY <1>2, <1>3, <1>4, <1>5 DEF Effect

-----------------------------------------------------------------------------
(***************************************************************************)
(* The sessions.  A step of one leaves the locals of the others alone.     *)
(***************************************************************************)
Only(s) ==
    /\ session' \in [Sessions -> SessionType]
    /\ \A r \in Sessions \ {s} : session'[r] = session[r]

LEMMA BecomeLocal ==
    ASSUME session \in [Sessions -> SessionType], NEW s \in Sessions, NEW local \in SessionType,
           Become(s, local)
    PROVE  Only(s) /\ session'[s] = local
    BY DEF Become, Only

LEMMA GotoLocal ==
    ASSUME session \in [Sessions -> SessionType], NEW s \in Sessions, NEW pc \in Places,
           Goto(s, pc)
    PROVE  Only(s) /\ session'[s] = [session[s] EXCEPT !.pc = pc]
    BY DEF Goto, Become, Only, SessionType

LEMMA EndLocal ==
    ASSUME session \in [Sessions -> SessionType], NEW s \in Sessions, End(s)
    PROVE  Only(s) /\ session'[s] = Idle /\ session'[s].pc = "idle"
    BY DEF End, Idle, Only, SessionType, Places, Commands, Calls

LEMMA SendLocal ==
    ASSUME session \in [Sessions -> SessionType], NEW s \in Sessions, NEW fn \in Calls,
           NEW amount \in Nat, Send(s, fn, amount)
    PROVE  /\ Only(s)
           /\ session'[s].pc = "nonce" /\ session'[s].fn = fn /\ session'[s].amount = amount
    BY ZenonT(30) DEF Send, Become, Only, SessionType, Places

(***************************************************************************)
(* A read takes a session from one place of its command to another without *)
(* touching the chain, the mempool or what was counted; the highest        *)
(* minimum read only grows.                                                *)
(***************************************************************************)
Quiet(s) ==
    /\ Only(s)
    /\ ~At(s, "wait") /\ ~At(s, "receipt")
    /\ session'[s].pc \notin {"wait", "receipt"}
    /\ UNCHANGED <<stakeVars, registryVars, chainVars, reported, cut>>

\* A read of a command under way.
Reads(s) ==
    /\ Quiet(s)
    /\ Busy(s)
    /\ UNCHANGED overlapped
    /\ topUp' \in [Users -> Nat]
    /\ \A u \in Users : topUp'[u] >= topUp[u]

LEMMA ReadStakeReads ==
    ASSUME ToolsTypeOK, NEW s \in Sessions, ReadStake(s)
    PROVE  /\ Reads(s)
           /\ session'[s].pc = IF s \in SdkSessions THEN "readMinimum" ELSE "preflight"
           /\ session'[s].seen = stakes[KeyOf[s]].amount
<1> DEFINE pc == IF s \in SdkSessions THEN "readMinimum" ELSE "preflight"
           local == [session[s] EXCEPT !.pc = pc, !.seen = stakes[KeyOf[s]].amount]
<1>1. pc \in Places /\ pc \notin {"wait", "receipt"}
    BY DEF Places
<1>2. stakes[KeyOf[s]].amount \in Nat
    BY ToolsAssumption DEF ToolsTypeOK
<1>3. Become(s, local)
    BY DEF ReadStake
<1> HIDE DEF pc
<1>4. local \in SessionType
    BY <1>1, <1>2 DEF ToolsTypeOK, SessionType
<1>5. local.pc = pc /\ local.seen = stakes[KeyOf[s]].amount
    BY DEF ToolsTypeOK, SessionType
<1> HIDE DEF local
<1>6. Only(s) /\ session'[s] = local
    BY <1>3, <1>4, BecomeLocal DEF ToolsTypeOK
<1>7. Reads(s)
    BY <1>1, <1>5, <1>6 DEF Reads, Quiet, ReadStake, Reading, Busy, At, ToolsTypeOK
<1> QED BY <1>5, <1>6, <1>7 DEF pc

LEMMA ReadMinimumReads ==
    ASSUME ToolsTypeOK, NEW s \in Sessions, ReadMinimum(s)
    PROVE  /\ Reads(s)
           /\ session'[s].pc = IF s \in SdkSessions THEN "preflight" ELSE "readStake"
           /\ session'[s].seen = session[s].seen
<1> DEFINE pc == IF s \in SdkSessions THEN "preflight" ELSE "readStake"
           local == [session[s] EXCEPT !.pc = pc, !.minimum = minimumStakeRequired]
<1>1. pc \in Places /\ pc \notin {"wait", "receipt"}
    BY DEF Places
<1>2. Become(s, local)
    BY DEF ReadMinimum
<1> HIDE DEF pc
<1>3. local \in SessionType
    BY <1>1 DEF ToolsTypeOK, SessionType
<1>4. local.pc = pc /\ local.seen = session[s].seen
    BY DEF ToolsTypeOK, SessionType
<1> HIDE DEF local
<1>5. Only(s) /\ session'[s] = local
    BY <1>2, <1>3, BecomeLocal DEF ToolsTypeOK
<1>6. Reads(s)
    BY <1>1, <1>4, <1>5 DEF Reads, Quiet, ReadMinimum, Reading, Busy, At, ToolsTypeOK
<1> QED BY <1>4, <1>5, <1>6 DEF pc

LEMMA ShortfallType ==
    ASSUME ToolsTypeOK, NEW s \in Sessions
    PROVE  /\ Shortfall(s) \in Nat
           /\ Shortfall(s) > 0 => session[s].seen + Shortfall(s) = session[s].minimum
    BY DEF ToolsTypeOK, SessionType, Shortfall

LEMMA PreflightReads ==
    ASSUME ToolsTypeOK, NEW s \in Sessions, Preflight(s)
    PROVE  /\ Reads(s)
           /\ session'[s].pc \in {"idle", "nonce", "readAllowance"}
           /\ \/ session'[s].pc = "idle"
              \/ session'[s].pc = "nonce" /\ session'[s].fn = "deployProvider"
              \/ /\ session[s].seen + session'[s].amount <= topUp'[KeyOf[s]]
                 /\ session'[s].pc = "readAllowance" \/ session'[s].fn = "approve"
<1> DEFINE u == KeyOf[s]
<1>1. /\ u \in Users /\ At(s, "preflight") /\ Busy(s) /\ Reading
      /\ ~At(s, "wait") /\ ~At(s, "receipt")
      /\ session \in [Sessions -> SessionType] /\ topUp \in [Users -> Nat]
    BY ToolsAssumption DEF Preflight, At, Busy, ToolsTypeOK
<1>2. CASE PreflightPasses(s) /\ session[s].cmd = "deploy"
    <2>1. Send(s, "deployProvider", 0) /\ topUp' = topUp
        BY <1>2 DEF PreflightPasses
    <2>2. /\ Only(s)
          /\ session'[s].pc = "nonce" /\ session'[s].fn = "deployProvider"
        BY <1>1, <2>1, SendLocal DEF Calls
    <2> QED BY <1>1, <2>1, <2>2 DEF Reads, Quiet, Reading
<1>3. CASE End(s) /\ topUp' = topUp
    BY <1>1, <1>3, EndLocal DEF Reads, Quiet, Reading
<1>4. CASE PreflightTopsUp(s)
    <2>1. /\ Shortfall(s) \in Nat /\ session[s].seen + Shortfall(s) = session[s].minimum
          /\ session[s].minimum \in Nat
        BY <1>1, <1>4, ShortfallType DEF PreflightTopsUp, SessionType
    <2>2. topUp' = [topUp EXCEPT ![u] = Larger(@, session[s].minimum)]
        BY <1>4 DEF PreflightTopsUp
    <2>3. /\ Larger(topUp[u], session[s].minimum) \in Nat
          /\ Larger(topUp[u], session[s].minimum) >= topUp[u]
          /\ Larger(topUp[u], session[s].minimum) >= session[s].minimum
        BY <1>1, <2>1 DEF Larger
    <2>4. /\ topUp' \in [Users -> Nat]
          /\ \A v \in Users : topUp'[v] >= topUp[v]
          /\ topUp'[u] >= session[s].minimum
        BY <1>1, <2>2, <2>3
    <2>5. /\ Only(s)
          /\ session'[s].pc \in {"nonce", "readAllowance"}
          /\ session'[s].pc = "readAllowance" \/ session'[s].fn = "approve"
          /\ session'[s].amount = Shortfall(s)
        <3>1. CASE s \in SdkSessions
            <4> DEFINE local == [session[s] EXCEPT !.pc = "readAllowance", !.amount = Shortfall(s)]
            <4>1. local \in SessionType
                BY <1>1, <2>1, ZenonT(30) DEF SessionType, Places
            <4>2. local.pc = "readAllowance" /\ local.amount = Shortfall(s)
                BY <1>1 DEF SessionType
            <4>3. Become(s, local)
                BY <1>4, <3>1 DEF PreflightTopsUp
            <4> HIDE DEF local
            <4> QED BY <1>1, <4>1, <4>2, <4>3, BecomeLocal
        <3>2. CASE s \notin SdkSessions
            <4>1. Send(s, "approve", Shortfall(s))
                BY <1>4, <3>2 DEF PreflightTopsUp
            <4> QED BY <1>1, <2>1, <4>1, SendLocal DEF Calls
        <3> QED BY <3>1, <3>2
    <2>6. session[s].seen + session'[s].amount <= topUp'[u]
        BY <1>1, <2>1, <2>4, <2>5
    <2> QED BY <1>1, <2>4, <2>5, <2>6 DEF Reads, Quiet, Reading
<1> QED BY <1>2, <1>3, <1>4 DEF Preflight, PreflightPasses, PreflightFails

LEMMA EnsureAllowanceReads ==
    ASSUME ToolsTypeOK, NEW s \in Sessions, EnsureAllowance(s)
    PROVE  /\ Reads(s)
           /\ session'[s].pc = "nonce" /\ session'[s].fn \in {"approve", "stake"}
           /\ session'[s].amount = session[s].amount
<1>1. \/ Send(s, "approve", session[s].amount)
      \/ Send(s, "stake", session[s].amount)
    BY DEF EnsureAllowance
<1>2. session[s].amount \in Nat
    BY DEF ToolsTypeOK, SessionType
<1>3. /\ Only(s) /\ session'[s].pc = "nonce" /\ session'[s].fn \in {"approve", "stake"}
      /\ session'[s].amount = session[s].amount
    BY <1>1, <1>2, SendLocal DEF ToolsTypeOK, Calls
<1> QED BY <1>3 DEF Reads, Quiet, EnsureAllowance, Reading, Busy, At, ToolsTypeOK

(***************************************************************************)
(* The commands that lower the bond never come to approve or to stake.     *)
(***************************************************************************)
Lowering == {"requestUnstake", "withdraw"}

LEMMA RequestedType ==
    ASSUME ToolsTypeOK, NEW s \in Sessions
    PROVE  Requested(s) \in Nat
<1>1. stakes[KeyOf[s]].amount \in Nat /\ session[s].amount \in Nat
    BY ToolsAssumption DEF ToolsTypeOK, SessionType
<1> QED BY <1>1 DEF Requested

LEMMA LoweringPreflightReads ==
    ASSUME ToolsTypeOK, NEW s \in Sessions, UnstakePreflight(s) \/ WithdrawPreflight(s)
    PROVE  /\ Reads(s)
           /\ session'[s].pc \in {"idle", "readAgain", "nonce"}
           /\ session'[s].pc = "idle" \/ session'[s].fn \in Lowering
<1>1. \/ End(s)
      \/ \E fn \in Lowering : \/ Become(s, [session[s] EXCEPT !.pc = "readAgain", !.fn = fn])
                              \/ Send(s, fn, Requested(s))
    BY DEF UnstakePreflight, WithdrawPreflight, Lowering
<1>3. ASSUME NEW fn \in Lowering, Become(s, [session[s] EXCEPT !.pc = "readAgain", !.fn = fn])
      PROVE  Only(s) /\ session'[s].pc = "readAgain" /\ session'[s].fn = fn
    <2> DEFINE local == [session[s] EXCEPT !.pc = "readAgain", !.fn = fn]
    <2>1. local \in SessionType /\ local.pc = "readAgain" /\ local.fn = fn
        BY ZenonT(30) DEF ToolsTypeOK, SessionType, Places, Calls, Lowering
    <2>2. Become(s, local)
        BY <1>3
    <2> HIDE DEF local
    <2> QED BY <2>1, <2>2, BecomeLocal DEF ToolsTypeOK
<1>4. ASSUME NEW fn \in Lowering, Send(s, fn, Requested(s))
      PROVE  Only(s) /\ session'[s].pc = "nonce" /\ session'[s].fn = fn
    BY <1>4, RequestedType, SendLocal DEF ToolsTypeOK, Calls, Lowering
<1>5. /\ Only(s)
      /\ \/ session'[s].pc = "idle"
         \/ session'[s].pc \in {"readAgain", "nonce"} /\ session'[s].fn \in Lowering
    BY <1>1, <1>3, <1>4, EndLocal DEF ToolsTypeOK
<1> QED BY <1>5, SMTT(20) DEF Reads, Quiet, UnstakePreflight, WithdrawPreflight, Reading, Busy, At,
                    ToolsTypeOK

LEMMA ReadAgainReads ==
    ASSUME ToolsTypeOK, NEW s \in Sessions, ReadAgain(s)
    PROVE  /\ Reads(s)
           /\ session'[s].pc \in {"idle", "nonce"}
           /\ session'[s].pc = "idle" \/ session'[s].fn = session[s].fn
<1>1. stakes[KeyOf[s]].amount \in Nat /\ session[s].fn \in Calls
    BY ToolsAssumption DEF ToolsTypeOK, SessionType
<1>2. \/ End(s)
      \/ Send(s, session[s].fn, stakes[KeyOf[s]].amount)
    BY DEF ReadAgain
<1>3. /\ Only(s)
      /\ \/ session'[s].pc = "idle"
         \/ session'[s].pc = "nonce" /\ session'[s].fn = session[s].fn
    BY <1>1, <1>2, EndLocal, SendLocal DEF ToolsTypeOK
<1> QED BY <1>3 DEF Reads, Quiet, ReadAgain, Reading, Busy, At, ToolsTypeOK

LEMMA UseSplitterReads ==
    ASSUME ToolsTypeOK, NEW s \in Sessions, UseSplitter(s)
    PROVE  /\ Reads(s)
           /\ session'[s].pc \in {"idle", "nonce"}
           /\ session'[s].pc = "idle" \/ session'[s].fn = "distribute"
<1>1. /\ Only(s)
      /\ \/ session'[s].pc = "idle"
         \/ session'[s].pc = "nonce" /\ session'[s].fn = "distribute"
    BY EndLocal, SendLocal DEF UseSplitter, ToolsTypeOK, Calls
<1> QED BY <1>1 DEF Reads, Quiet, UseSplitter, Reading, Busy, At, ToolsTypeOK

LEMMA PendingFinite ==
    ASSUME ToolsTypeOK, NEW u
    PROVE  IsFiniteSet(PendingOf(u)) /\ Cardinality(PendingOf(u)) \in Nat
<1>1. PendingOf(u) \subseteq mempool
    BY DEF PendingOf
<1> QED BY <1>1, FS_Subset, FS_CardinalityType DEF ToolsTypeOK

LEMMA ReadNonceReads ==
    ASSUME ToolsTypeOK, NEW s \in Sessions, ReadNonce(s)
    PROVE  /\ Reads(s)
           /\ session'[s].pc = "submit"
           /\ session'[s].fn = session[s].fn
           /\ session'[s].amount = session[s].amount
<1> DEFINE n == IF ThroughSdk(s) THEN nonce[KeyOf[s]] ELSE PendingNonce(s)
           local == [session[s] EXCEPT !.pc = "submit", !.nonce = n]
<1>1. nonce[KeyOf[s]] \in Nat /\ PendingNonce(s) \in Nat
    <2>1. nonce[KeyOf[s]] \in Nat
        BY ToolsAssumption DEF ToolsTypeOK
    <2>2. Cardinality(PendingOf(KeyOf[s])) \in Nat
        BY PendingFinite
    <2> QED BY <2>1, <2>2 DEF PendingNonce
<1>2. n \in Nat
    BY <1>1
<1>3. Become(s, local)
    BY DEF ReadNonce
<1> HIDE DEF n
<1>4. /\ local \in SessionType
      /\ local.pc = "submit" /\ local.fn = session[s].fn /\ local.amount = session[s].amount
    BY <1>2, ZenonT(30) DEF ToolsTypeOK, SessionType, Places
<1> HIDE DEF local
<1>5. Only(s) /\ session'[s] = local
    BY <1>3, <1>4, BecomeLocal DEF ToolsTypeOK
<1> QED BY <1>4, <1>5 DEF Reads, Quiet, ReadNonce, Reading, Busy, At, ToolsTypeOK

LEMMA SubmitFailsReads ==
    ASSUME ToolsTypeOK, NEW s \in Sessions, SubmitFails(s)
    PROVE  Reads(s) /\ session'[s].pc = "idle"
    BY EndLocal DEF Reads, Quiet, SubmitFails, Reading, Busy, At, ToolsTypeOK

(***************************************************************************)
(* The search for the signer's splitter.  A chunk moves the search on,     *)
(* never past the block it began with.                                     *)
(***************************************************************************)
LEMMA ScanChunkReads ==
    ASSUME ToolsTypeOK, ScanInv, NEW s \in Sessions, NEW fails \in BOOLEAN, ScanChunk(s, fails)
    PROVE  /\ Reads(s)
           /\ session'[s].pc = "scan"
           /\ session'[s].latest = session[s].latest
           /\ session'[s].from \in session[s].from + 1 .. session[s].latest + 1
           /\ session'[s].found = IF fails THEN session[s].found
                                  ELSE session[s].found
                                       \cup DeployedIn(KeyOf[s], session[s].from,
                                                       session'[s].from - 1)
           /\ session'[s].lost = (session[s].lost \/ fails)
<1> DEFINE more == DeployedIn(KeyOf[s], session[s].from, ChunkEnd(s))
           found == IF fails THEN session[s].found ELSE session[s].found \cup more
           local == [session[s] EXCEPT !.from = ChunkEnd(s) + 1,
                                       !.found = found,
                                       !.lost = @ \/ fails]
<1>1. /\ session[s] \in SessionType /\ At(s, "scan")
      /\ session[s].from \in Nat /\ session[s].latest \in Nat
      /\ session[s].from <= session[s].latest
    BY DEF ScanChunk, ToolsTypeOK, SessionType
<1>2. ChunkEnd(s) \in session[s].from .. session[s].latest
    BY <1>1, ToolsAssumption DEF ChunkEnd
<1>3. more \subseteq Nat /\ session[s].found \in SUBSET Nat
    <2>1. Len(deployments) \in Nat
        BY DEF ToolsTypeOK
    <2> QED BY <1>1, <2>1 DEF DeployedIn, SessionType
<1>4. Become(s, local)
    BY DEF ScanChunk
<1>5. found \in SUBSET Nat
    BY <1>3
<1> HIDE DEF found
<1>6. /\ local \in SessionType
      /\ local.pc = session[s].pc /\ local.latest = session[s].latest
      /\ local.from = ChunkEnd(s) + 1 /\ local.found = found
      /\ local.lost = (session[s].lost \/ fails)
    <2>1. ChunkEnd(s) + 1 \in Nat
        BY <1>1, <1>2
    <2>2. session[s].lost \/ fails \in BOOLEAN
        BY <1>1 DEF SessionType
    <2> QED BY <1>1, <1>5, <2>1, <2>2 DEF SessionType
<1> HIDE DEF local
<1>7. Only(s) /\ session'[s] = local
    BY <1>4, <1>6, BecomeLocal DEF ToolsTypeOK
<1>8. Reads(s) /\ session'[s].pc = "scan"
    BY <1>1, <1>6, <1>7 DEF Reads, Quiet, ScanChunk, Reading, Busy, At, ToolsTypeOK
<1>9. /\ session'[s].from \in session[s].from + 1 .. session[s].latest + 1
      /\ session'[s].from - 1 = ChunkEnd(s)
    BY <1>1, <1>2, <1>6, <1>7
<1>10. session'[s].found = IF fails THEN session[s].found
                           ELSE session[s].found
                                \cup DeployedIn(KeyOf[s], session[s].from, session'[s].from - 1)
    BY <1>6, <1>7, <1>9 DEF found
<1> QED BY <1>6, <1>7, <1>8, <1>9, <1>10

LEMMA ResolveSplitterReads ==
    ASSUME ToolsTypeOK, NEW s \in Sessions, ResolveSplitter(s)
    PROVE  /\ Reads(s)
           /\ session'[s].pc \in {"idle", "splitter"}
           /\ \/ session'[s].pc = "idle"
              \/ /\ session'[s].found = session[s].found
                 /\ session'[s].lost = session[s].lost
                 /\ session'[s].latest = session[s].latest
<1>1. Goto(s, "splitter") \/ End(s)
    BY DEF ResolveSplitter
<1>2. /\ Only(s)
      /\ \/ session'[s].pc = "idle"
         \/ session'[s] = [session[s] EXCEPT !.pc = "splitter"]
    BY <1>1, GotoLocal, EndLocal DEF ToolsTypeOK, Places
<1> QED BY <1>2 DEF Reads, Quiet, ResolveSplitter, Reading, Busy, At, ToolsTypeOK, SessionType

(***************************************************************************)
(* A command begins with nothing but what it is asked.                     *)
(***************************************************************************)
LEMMA CommandBegins ==
    ASSUME ToolsTypeOK, NEW s \in Sessions, CommandStep(s)
    PROVE  /\ Quiet(s)
           /\ ~Busy(s)
           /\ topUp' = topUp
           /\ overlapped' = IF \E r \in Sessions \ {s} : KeyOf[r] = KeyOf[s] /\ Busy(r)
                            THEN overlapped \cup {KeyOf[s]} ELSE overlapped
           /\ session'[s].pc \in {"readStake", "readMinimum", "nonce", "scan"}
           /\ session'[s].pc = "readMinimum" => s \notin SdkSessions
           /\ session'[s].pc = "nonce" => session'[s].fn \in Lowering
           /\ session'[s].pc = "scan" => /\ session'[s].from = 1
                                         /\ session'[s].latest = block
                                         /\ session'[s].found = {}
<1> DEFINE Right(local) ==
               /\ local \in SessionType
               /\ local.pc \in {"readStake", "readMinimum", "nonce", "scan"}
               /\ local.pc = "readMinimum" => s \notin SdkSessions
               /\ local.pc = "nonce" => local.fn \in Lowering
               /\ local.pc = "scan" => /\ local.from = 1
                                       /\ local.latest = block
                                       /\ local.found = {}
<1>1. \E local : Begin(s, local) /\ Right(local)
    <2> USE ParametersAssumption DEF Idle, SessionType, Places, Commands, Calls, Lowering
    <2>1. CASE StakeCommand(s)
        <3>1. Right([Idle EXCEPT !.cmd = "stake", !.pc = "readStake"])
            OBVIOUS
        <3> QED BY <2>1, <3>1 DEF StakeCommand
    <2>2. CASE DeployCommand(s)
        <3>1. Right([Idle EXCEPT !.cmd = "deploy", !.pc = "readStake"])
            OBVIOUS
        <3> QED BY <2>2, <3>1 DEF DeployCommand
    <2>3. CASE ScriptDeploy(s)
        <3>1. Right([Idle EXCEPT !.cmd = "deploy", !.pc = "readMinimum"])
            BY <2>3 DEF ScriptDeploy
        <3> QED BY <2>3, <3>1 DEF ScriptDeploy
    <2>4. ASSUME NEW amount \in Amounts, UnstakeCommand(s, amount)
          PROVE  \E local : Begin(s, local) /\ Right(local)
        <3>1. Right([Idle EXCEPT !.cmd = "unstake", !.pc = "readStake", !.amount = amount])
            OBVIOUS
        <3> QED BY <2>4, <3>1 DEF UnstakeCommand
    <2>5. ASSUME NEW amount \in Amounts, WithdrawCommand(s, amount)
          PROVE  \E local : Begin(s, local) /\ Right(local)
        <3>1. Right([Idle EXCEPT !.cmd = "withdraw", !.pc = "readStake", !.amount = amount])
            OBVIOUS
        <3> QED BY <2>5, <3>1 DEF WithdrawCommand
    <2>6. ASSUME NEW amount \in Amounts, ScriptUnstake(s, amount)
          PROVE  \E local : Begin(s, local) /\ Right(local)
        <3>1. Right([Idle EXCEPT !.cmd = "unstake", !.pc = "nonce", !.fn = "requestUnstake",
                                 !.amount = amount])
            OBVIOUS
        <3> QED BY <2>6, <3>1 DEF ScriptUnstake
    <2>7. ASSUME NEW amount \in Amounts, ScriptWithdraw(s, amount)
          PROVE  \E local : Begin(s, local) /\ Right(local)
        <3>1. Right([Idle EXCEPT !.cmd = "withdraw", !.pc = "nonce", !.fn = "withdraw",
                                 !.amount = amount])
            OBVIOUS
        <3> QED BY <2>7, <3>1 DEF ScriptWithdraw
    <2>8. CASE SplitterCommand(s)
        <3>1. Right([Idle EXCEPT !.cmd = "splitter", !.pc = "scan", !.from = 1,
                                 !.latest = block])
            BY DEF ToolsTypeOK
        <3> QED BY <2>8, <3>1 DEF SplitterCommand
    <2> HIDE DEF Right
    <2> QED BY <2>1, <2>2, <2>3, <2>4, <2>5, <2>6, <2>7, <2>8 DEF CommandStep
<1>2. PICK local : Begin(s, local) /\ Right(local)
    BY <1>1
<1>3. Only(s) /\ session'[s] = local
    BY <1>2, BecomeLocal DEF Begin, ToolsTypeOK
<1>4. Quiet(s) /\ ~Busy(s)
    BY <1>2, <1>3 DEF Quiet, Begin, At, Busy
<1> QED BY <1>2, <1>3, <1>4 DEF Begin

-----------------------------------------------------------------------------
(***************************************************************************)
(* Submitting, mining, and what comes of it.                               *)
(***************************************************************************)
LEMMA TransactionHasType ==
    ASSUME ToolsTypeOK, NEW s \in Sessions
    PROVE  Transaction(s) \in TransactionType
    BY DEF ToolsTypeOK, SessionType, Transaction, TransactionType

LEMMA SubmitStep ==
    ASSUME ToolsTypeOK, NEW s \in Sessions, Submit(s)
    PROVE  /\ Only(s) /\ At(s, "submit")
           /\ session'[s] = [session[s] EXCEPT !.pc = "wait"]
           /\ Transaction(s)' = Transaction(s)
           /\ mempool' = (mempool \ Rivals(s)) \cup {Transaction(s)}
           /\ UNCHANGED <<stakeVars, registryVars, nonce, block, deployments, historyVars>>
<1>1. Only(s) /\ session'[s] = [session[s] EXCEPT !.pc = "wait"]
    BY GotoLocal DEF Submit, ToolsTypeOK, Places
<1>2. Transaction(s)' = Transaction(s)
    BY <1>1 DEF Transaction, ToolsTypeOK, SessionType
<1> QED BY <1>1, <1>2 DEF Submit

LEMMA ReceiptStep ==
    ASSUME ToolsTypeOK, NEW s \in Sessions, Receipt(s)
    PROVE  /\ Only(s) /\ At(s, "receipt")
           /\ \/ session'[s].pc = "idle"
              \/ /\ session'[s].pc = "nonce"
                 /\ \/ /\ session[s].fn = "approve"
                       /\ session'[s].fn = "stake" /\ session'[s].amount = session[s].amount
                    \/ session'[s].fn = "deployProvider"
           /\ reported' = IF session[s].fn = "deployProvider"
                          THEN [reported EXCEPT ![KeyOf[s]] = @ + 1] ELSE reported
           /\ UNCHANGED <<stakeVars, registryVars, chainVars, topUp, cut, overlapped>>
<1>1. \/ session[s].fn = "approve" /\ Send(s, "stake", session[s].amount)
      \/ Send(s, "deployProvider", 0)
      \/ End(s)
    BY DEF Receipt
<1>2. session[s].amount \in Nat
    BY DEF ToolsTypeOK, SessionType
<1>3. /\ Only(s)
      /\ \/ session'[s].pc = "idle"
         \/ /\ session'[s].pc = "nonce"
            /\ \/ /\ session[s].fn = "approve"
                  /\ session'[s].fn = "stake" /\ session'[s].amount = session[s].amount
               \/ session'[s].fn = "deployProvider"
    BY <1>1, <1>2, SendLocal, EndLocal DEF ToolsTypeOK, Calls
<1> QED BY <1>3 DEF Receipt

LEMMA RaiseRevertedStep ==
    ASSUME ToolsTypeOK, NEW s \in Sessions, RaiseReverted(s)
    PROVE  /\ Only(s) /\ session'[s].pc = "idle"
           /\ At(s, "reverted") \/ (At(s, "wait") /\ Transaction(s) \notin mempool)
           /\ UNCHANGED <<stakeVars, registryVars, chainVars, topUp, reported, cut, overlapped>>
    BY EndLocal DEF RaiseReverted, Reading, ToolsTypeOK

LEMMA CutStep ==
    ASSUME ToolsTypeOK, NEW s \in Sessions, Cut(s)
    PROVE  /\ Only(s) /\ session'[s].pc = "idle"
           /\ cut' = [cut EXCEPT ![KeyOf[s]] = @ + 1]
           /\ UNCHANGED <<stakeVars, registryVars, chainVars, topUp, reported, overlapped>>
    BY EndLocal DEF Cut, ToolsTypeOK

Deploys(t) ==
    /\ t.fn = "deployProvider"
    /\ \E spl \in Splitters :
           providers' = Append(providers, [owner |-> KeyOf[t.by], revenueSplitter |-> spl])
    /\ deployments' = Append(deployments, [deployer |-> KeyOf[t.by], block |-> block + 1])

LEMMA MineStep ==
    ASSUME ToolsTypeOK, NEW t \in mempool, Mine(t)
    PROVE  /\ t.by \in Sessions /\ KeyOf[t.by] \in Users
           /\ stakes' \in [Users -> [amount : Nat, unlockTimestamp : Nat]]
           /\ now' = now /\ withdrawCooldown' = withdrawCooldown
           /\ minimumStakeRequired' = minimumStakeRequired
           /\ \A v \in Users :
                  stakes'[v].amount > stakes[v].amount =>
                      /\ v = KeyOf[t.by] /\ t.fn = "stake" /\ Runs(t)
                      /\ stakes'[v].amount = stakes[v].amount + t.amount
           /\ (Deploys(t) /\ Runs(t)) \/ UNCHANGED <<providers, deployments>>
           /\ mempool' = mempool \ {t}
           /\ nonce' \in [Users -> Nat]
           /\ block' = block + 1
           /\ Only(t.by)
           /\ ~Awaits(t.by, t) => session' = session
           /\ Awaits(t.by, t) =>
                  session'[t.by] = [session[t.by] EXCEPT
                                       !.pc = IF Runs(t) THEN "receipt" ELSE "reverted"]
           /\ UNCHANGED historyVars
<1> DEFINE s == t.by
<1>1. s \in Sessions /\ KeyOf[s] \in Users
    BY ToolsAssumption DEF ToolsTypeOK, TransactionType
<1>2. /\ stakes' \in [Users -> [amount : Nat, unlockTimestamp : Nat]]
      /\ now' = now /\ withdrawCooldown' = withdrawCooldown
      /\ minimumStakeRequired' = minimumStakeRequired
      /\ \A v \in Users :
             stakes'[v].amount > stakes[v].amount =>
                 /\ v = KeyOf[s] /\ t.fn = "stake" /\ Runs(t)
                 /\ stakes'[v].amount = stakes[v].amount + t.amount
    <2>1. CASE Runs(t)
        <3>1. Effect(t)
            BY <2>1 DEF Mine
        <3> QED BY <2>1, <3>1, EffectOnContracts
    <2>2. CASE ~Runs(t)
        <3>1. UNCHANGED stakeVars
            BY <2>2 DEF Mine
        <3>2. \A v \in Users : stakes[v].amount \in Nat
            BY DEF ToolsTypeOK
        <3> QED BY <3>1, <3>2 DEF stakeVars, stakeParams, ToolsTypeOK
    <2> QED BY <2>1, <2>2
<1>3. (Deploys(t) /\ Runs(t)) \/ UNCHANGED <<providers, deployments>>
    <2>1. CASE Runs(t)
        <3>1. Effect(t)
            BY <2>1 DEF Mine
        <3> QED BY <2>1, <3>1 DEF Effect, Deploys, RegisterProvider, registryVars
    <2>2. CASE ~Runs(t)
        BY <2>2 DEF Mine, registryVars
    <2> QED BY <2>1, <2>2
<1>4. nonce' \in [Users -> Nat]
    BY <1>1, SMTT(20) DEF Mine, ToolsTypeOK
<1>5. /\ Only(s)
      /\ ~Awaits(s, t) => session' = session
      /\ Awaits(s, t) =>
             session'[s] = [session[s] EXCEPT !.pc = IF Runs(t) THEN "receipt" ELSE "reverted"]
    <2>1. CASE Awaits(s, t)
        <3> DEFINE pc == IF Runs(t) THEN "receipt" ELSE "reverted"
        <3>1. pc \in Places
            BY DEF Places
        <3>2. session' = [session EXCEPT ![s].pc = pc]
            BY <2>1 DEF Mine
        <3> HIDE DEF pc
        <3>3. Only(s) /\ session'[s] = [session[s] EXCEPT !.pc = pc]
            BY <1>1, <3>1, <3>2, ZenonT(30) DEF Only, ToolsTypeOK, SessionType
        <3> QED BY <2>1, <3>3 DEF pc
    <2>2. CASE ~Awaits(s, t)
        BY <2>2 DEF Mine, Only, ToolsTypeOK
    <2> QED BY <2>1, <2>2
<1>6. mempool' = mempool \ {t} /\ block' = block + 1 /\ UNCHANGED historyVars
    BY DEF Mine
<1> QED BY <1>1, <1>2, <1>3, <1>4, <1>5, <1>6

(***************************************************************************)
(* What others do on the chain lowers bonds only.                          *)
(***************************************************************************)
Outside ==
    \/ \E u \in Users, c \in Users, bp \in SlashBps : SlashStep(u, c, bp)
    \/ \E m \in MinimumStakes : SetMinimumStep(m)
    \/ TimeStep

LEMMA OutsideStep ==
    ASSUME ToolsTypeOK, Outside
    PROVE  /\ stakes' \in [Users -> [amount : Nat, unlockTimestamp : Nat]]
           /\ \A v \in Users : stakes'[v].amount <= stakes[v].amount
           /\ now' \in Nat /\ withdrawCooldown' = withdrawCooldown
           /\ minimumStakeRequired' \in Nat
           /\ UNCHANGED <<registryVars, chainVars, session, topUp, reported, cut, overlapped>>
<1> USE ParametersAssumption
<1>1. \A v \in Users : stakes[v].amount \in Nat
    BY DEF ToolsTypeOK
<1>2. ASSUME NEW u \in Users, NEW c \in Users, NEW bp \in SlashBps, SlashStep(u, c, bp)
      PROVE  /\ stakes' \in [Users -> [amount : Nat, unlockTimestamp : Nat]]
             /\ \A v \in Users : stakes'[v].amount <= stakes[v].amount
             /\ UNCHANGED <<now, stakeParams>>
    <2>1. stakes' = [stakes EXCEPT ![u].amount = @ - SlashAmount(u, bp)]
        BY <1>2 DEF SlashStep, Slash, StakesAfterSlash
    <2>2. /\ stakes[u].amount - SlashAmount(u, bp) \in Nat
          /\ stakes[u].amount - SlashAmount(u, bp) <= stakes[u].amount
        <3>1. stakes[u].amount \in Nat /\ SlashAmount(u, bp) \in 0 .. stakes[u].amount
            BY <1>1, SlashLowersBond
        <3> QED BY <3>1
    <2>3. stakes' \in [Users -> [amount : Nat, unlockTimestamp : Nat]]
        BY <2>1, <2>2 DEF ToolsTypeOK
    <2>4. stakes'[u].amount = stakes[u].amount - SlashAmount(u, bp)
        BY <2>1 DEF ToolsTypeOK
    <2>5. \A v \in Users \ {u} : stakes'[v] = stakes[v]
        BY <2>1 DEF ToolsTypeOK
    <2>6. \A v \in Users : stakes'[v].amount <= stakes[v].amount
        BY <1>1, <2>2, <2>4, <2>5
    <2> QED BY <1>2, <2>3, <2>6 DEF SlashStep, Slash
<1>3. ASSUME NEW m \in MinimumStakes, SetMinimumStep(m)
      PROVE  m \in Nat /\ minimumStakeRequired' = m /\ UNCHANGED <<now, stakes, withdrawCooldown>>
    BY <1>3 DEF SetMinimumStep, SetMinimumStakeRequired
<1>4. CASE TimeStep
    BY <1>1, <1>4, SMTT(20) DEF TimeStep, Tick, OutsideMove, ToolsTypeOK, stakeParams
<1>5. UNCHANGED <<registryVars, chainVars, session, topUp, reported, cut, overlapped>>
    BY DEF Outside, SlashStep, SetMinimumStep, TimeStep, OutsideMove
<1>6. CASE \E u \in Users, c \in Users, bp \in SlashBps : SlashStep(u, c, bp)
    BY <1>2, <1>5, <1>6 DEF ToolsTypeOK, stakeParams
<1>7. CASE \E m \in MinimumStakes : SetMinimumStep(m)
    <2>1. \A v \in Users : stakes[v].amount <= stakes[v].amount
        BY <1>1
    <2> QED BY <1>3, <1>5, <1>7, <2>1 DEF ToolsTypeOK
<1> QED BY <1>4, <1>5, <1>6, <1>7 DEF Outside

(***************************************************************************)
(* The steps of a run, for the proofs below.                               *)
(***************************************************************************)
ReadAction(s) ==
    \/ ReadStake(s) \/ ReadMinimum(s) \/ Preflight(s) \/ EnsureAllowance(s)
    \/ UnstakePreflight(s) \/ WithdrawPreflight(s) \/ ReadAgain(s)
    \/ \E fails \in BOOLEAN : ScanChunk(s, fails)
    \/ ResolveSplitter(s) \/ UseSplitter(s)
    \/ ReadNonce(s) \/ SubmitFails(s)

LEMMA ToolsNextCases ==
    ASSUME [ToolsNext]_toolsVars
    PROVE  \/ \E s \in Sessions : \/ CommandStep(s) \/ ReadAction(s)
                                  \/ Submit(s) \/ Receipt(s) \/ RaiseReverted(s) \/ Cut(s)
           \/ \E t \in mempool : Mine(t)
           \/ Outside
           \/ UNCHANGED toolsVars
    BY DEF ToolsNext, SessionStep, ReadAction, Outside

LEMMA ReadActionReads ==
    ASSUME ToolsTypeOK, ScanInv, NEW s \in Sessions, ReadAction(s)
    PROVE  Reads(s)
    BY ReadStakeReads, ReadMinimumReads, PreflightReads, EnsureAllowanceReads,
       LoweringPreflightReads, ReadAgainReads, ScanChunkReads, ResolveSplitterReads,
       UseSplitterReads, ReadNonceReads, SubmitFailsReads DEF ReadAction

-----------------------------------------------------------------------------
(***************************************************************************)
(* Types.                                                                  *)
(***************************************************************************)
LEMMA ToolsTypeInit == ToolsInit => ToolsTypeOK
<1> SUFFICES ASSUME ToolsInit PROVE ToolsTypeOK
    OBVIOUS
<1>1. Deployer \in Users
    BY ToolsAssumption DEF Deployer
<1>2. PICK n \in EarlierDeployments, spl \in Splitters :
          /\ providers = [i \in 1 .. n |-> [owner |-> Deployer, revenueSplitter |-> spl]]
          /\ deployments = [i \in 1 .. n |-> [deployer |-> Deployer, block |-> i]]
          /\ block = n
          /\ reported = [u \in Users |-> IF u = Deployer THEN n ELSE 0]
    BY DEF ToolsInit
<1>3. n \in Nat
    BY ToolsAssumption
<1>4. providers \in Seq([owner : Users, revenueSplitter : Splitters])
    BY <1>1, <1>2, <1>3, IsASeq
<1>5. deployments \in Seq([deployer : Users, block : Nat])
    BY <1>1, <1>2, <1>3, IsASeq
<1>6. IsFiniteSet(mempool) /\ mempool \subseteq TransactionType
    BY FS_EmptySet DEF ToolsInit
<1>7. session \in [Sessions -> SessionType]
    BY DEF ToolsInit, Idle, SessionType, Places, Commands, Calls
<1>8. /\ stakes \in [Users -> [amount : Nat, unlockTimestamp : Nat]]
      /\ now \in Nat /\ withdrawCooldown \in Nat /\ minimumStakeRequired \in Nat
    BY ParametersAssumption DEF ToolsInit, StakeInit, NoStake
<1> QED BY <1>2, <1>3, <1>4, <1>5, <1>6, <1>7, <1>8 DEF ToolsInit, ToolsTypeOK

LEMMA ToolsTypeStep == ToolsTypeOK /\ ScanInv /\ [ToolsNext]_toolsVars => ToolsTypeOK'
<1> SUFFICES ASSUME ToolsTypeOK, ScanInv, [ToolsNext]_toolsVars
             PROVE  ToolsTypeOK'
    OBVIOUS
<1>1. ASSUME NEW s \in Sessions, CommandStep(s)
      PROVE  ToolsTypeOK'
    BY <1>1, CommandBegins DEF Quiet, Only, ToolsTypeOK, stakeVars, stakeParams, registryVars,
                               chainVars
<1>2. ASSUME NEW s \in Sessions, ReadAction(s)
      PROVE  ToolsTypeOK'
    BY <1>2, ReadActionReads DEF Reads, Quiet, Only, ToolsTypeOK, stakeVars, stakeParams,
                                 registryVars, chainVars
<1>3. ASSUME NEW s \in Sessions, Submit(s)
      PROVE  ToolsTypeOK'
    <2>1. IsFiniteSet(mempool') /\ mempool' \subseteq TransactionType
        <3>1. mempool' = (mempool \ Rivals(s)) \cup {Transaction(s)}
            BY <1>3, SubmitStep
        <3>2. IsFiniteSet(mempool \ Rivals(s))
            BY FS_Subset DEF ToolsTypeOK
        <3> QED BY <3>1, <3>2, FS_AddElement, TransactionHasType DEF ToolsTypeOK
    <2> QED BY <1>3, <2>1, SubmitStep DEF Only, ToolsTypeOK, stakeVars, stakeParams,
                                          registryVars, historyVars
<1>4. ASSUME NEW s \in Sessions, Receipt(s)
      PROVE  ToolsTypeOK'
    <2>1. KeyOf[s] \in Users
        BY ToolsAssumption
    <2>2. \/ reported' = [reported EXCEPT ![KeyOf[s]] = @ + 1]
          \/ reported' = reported
        BY <1>4, ReceiptStep
    <2>3. reported' \in [Users -> Nat]
        <3>1. reported \in [Users -> Nat] /\ reported[KeyOf[s]] + 1 \in Nat
            BY <2>1 DEF ToolsTypeOK
        <3> QED BY <2>1, <2>2, <3>1
    <2> QED BY <1>4, <2>3, ReceiptStep DEF Only, ToolsTypeOK, stakeVars, stakeParams,
                                           registryVars, chainVars
<1>5. ASSUME NEW s \in Sessions, RaiseReverted(s)
      PROVE  ToolsTypeOK'
    BY <1>5, RaiseRevertedStep DEF Only, ToolsTypeOK, stakeVars, stakeParams, registryVars,
                                   chainVars
<1>6. ASSUME NEW s \in Sessions, Cut(s)
      PROVE  ToolsTypeOK'
    <2>1. KeyOf[s] \in Users
        BY ToolsAssumption
    <2>2. cut' \in [Users -> Nat]
        <3>1. cut' = [cut EXCEPT ![KeyOf[s]] = @ + 1]
            BY <1>6, CutStep
        <3>2. cut \in [Users -> Nat]
            BY DEF ToolsTypeOK
        <3> QED BY <2>1, <3>1, <3>2
    <2> QED BY <1>6, <2>2, CutStep DEF Only, ToolsTypeOK, stakeVars, stakeParams, registryVars,
                                       chainVars
<1>7. ASSUME NEW t \in mempool, Mine(t)
      PROVE  ToolsTypeOK'
    <2>1. /\ providers' \in Seq([owner : Users, revenueSplitter : Splitters])
          /\ deployments' \in Seq([deployer : Users, block : Nat])
        <3>1. CASE Deploys(t)
            <4>1. KeyOf[t.by] \in Users
                BY <1>7, MineStep
            <4>2. block + 1 \in Nat
                BY DEF ToolsTypeOK
            <4> QED BY <3>1, <4>1, <4>2, AppendProperties DEF Deploys, ToolsTypeOK
        <3>2. CASE UNCHANGED <<providers, deployments>>
            BY <3>2 DEF ToolsTypeOK
        <3> QED BY <1>7, <3>1, <3>2, MineStep
    <2>2. IsFiniteSet(mempool') /\ mempool' \subseteq TransactionType
        BY <1>7, MineStep, FS_Subset DEF ToolsTypeOK
    <2>3. /\ stakes' \in [Users -> [amount : Nat, unlockTimestamp : Nat]]
          /\ now' = now /\ withdrawCooldown' = withdrawCooldown
          /\ minimumStakeRequired' = minimumStakeRequired
          /\ nonce' \in [Users -> Nat]
          /\ block' = block + 1
          /\ Only(t.by)
          /\ UNCHANGED historyVars
        BY <1>7, MineStep
    <2> QED BY <2>1, <2>2, <2>3 DEF Only, ToolsTypeOK, historyVars
<1>8. CASE Outside
    BY <1>8, OutsideStep DEF ToolsTypeOK, registryVars, chainVars
<1>9. CASE UNCHANGED toolsVars
    BY <1>9 DEF ToolsTypeOK, toolsVars, stakeVars, stakeParams, registryVars, chainVars,
                historyVars
<1> QED BY <1>1, <1>2, <1>3, <1>4, <1>5, <1>6, <1>7, <1>8, <1>9, ToolsNextCases

-----------------------------------------------------------------------------
(***************************************************************************)
(* The search.  What is deployed later lies in blocks after the one the    *)
(* search began with.                                                      *)
(***************************************************************************)
LEMMA ScanInit == ToolsInit => ScanInv
<1> SUFFICES ASSUME ToolsInit PROVE ScanInv
    OBVIOUS
<1>1. PICK n \in EarlierDeployments :
          /\ deployments = [i \in 1 .. n |-> [deployer |-> Deployer, block |-> i]]
          /\ block = n
    BY DEF ToolsInit
<1>2. n \in Nat
    BY ToolsAssumption
<1>3. \A i \in 1 .. Len(deployments) : deployments[i].block <= block
    BY <1>1, <1>2
<1> QED BY <1>3 DEF ToolsInit, ScanInv, Idle, At

LEMMA DeploymentsHaveType ==
    ASSUME ToolsTypeOK
    PROVE  /\ Len(deployments) \in Nat
           /\ \A i \in 1 .. Len(deployments) :
                  deployments[i] \in [deployer : Users, block : Nat]
<1>1. deployments \in Seq([deployer : Users, block : Nat])
    BY DEF ToolsTypeOK
<1> QED BY <1>1, ElementOfSeq, LenProperties

LEMMA DeployedJoin ==
    ASSUME ToolsTypeOK, NEW u, NEW a \in Nat \ {0}, NEW b \in Nat, a <= b
    PROVE  DeployedIn(u, 1, a - 1) \cup DeployedIn(u, a, b) = DeployedIn(u, 1, b)
<1>1. \A i \in 1 .. Len(deployments) : deployments[i].block \in Nat
    BY DeploymentsHaveType
<1> QED BY <1>1 DEF DeployedIn

LEMMA ScanStep == ToolsTypeOK /\ ScanInv /\ [ToolsNext]_toolsVars => ScanInv'
<1> SUFFICES ASSUME ToolsTypeOK, ScanInv, [ToolsNext]_toolsVars
             PROVE  ScanInv'
    OBVIOUS
<1> DEFINE Searched(s) ==
        /\ At(s, "scan") \/ At(s, "splitter") =>
               /\ session[s].latest <= block
               /\ \A i \in session[s].found :
                      i \in 1 .. Len(deployments) /\ deployments[i].deployer = KeyOf[s]
        /\ At(s, "scan") =>
               /\ session[s].from >= 1
               /\ session[s].from <= session[s].latest + 1
               /\ \/ session[s].lost
                  \/ session[s].found = DeployedIn(KeyOf[s], 1, session[s].from - 1)
        /\ At(s, "splitter") =>
               \/ session[s].lost
               \/ session[s].found = DeployedIn(KeyOf[s], 1, session[s].latest)
           After(u, b) ==
        {i \in 1 .. Len(deployments') :
            deployments'[i].deployer = u /\ deployments'[i].block \in 1 .. b}
<1>1. \A s \in Sessions : Searched(s)
    BY DEF ScanInv
(***************************************************************************)
(* A step of s that leaves the chain alone concerns s only.                *)
(***************************************************************************)
<1>2. ASSUME NEW s \in Sessions, Only(s), UNCHANGED <<deployments, block>>, Searched(s)'
      PROVE  ScanInv'
    <2>1. \A r \in Sessions \ {s} : Searched(r)'
        BY <1>1, <1>2 DEF Only, At, DeployedIn
    <2>2. \A r \in Sessions : Searched(r)'
        BY <1>2, <2>1
    <2>3. \A i \in 1 .. Len(deployments') : deployments'[i].block <= block'
        BY <1>2 DEF ScanInv
    <2> QED BY <2>2, <2>3 DEF ScanInv
<1>3. ASSUME NEW s \in Sessions, session'[s].pc \notin {"scan", "splitter"}
      PROVE  Searched(s)'
    BY <1>3 DEF At
<1>4. ASSUME NEW s \in Sessions, CommandStep(s)
      PROVE  ScanInv'
    <2>1. /\ Only(s) /\ UNCHANGED chainVars
          /\ session'[s].pc # "splitter"
          /\ session'[s].pc = "scan" => /\ session'[s].from = 1
                                        /\ session'[s].latest = block
                                        /\ session'[s].found = {}
        BY <1>4, CommandBegins DEF Quiet
    <2>2. CASE session'[s].pc = "scan"
        <3>1. After(KeyOf[s], session'[s].from - 1) = {}
            BY <2>1, <2>2
        <3>2. block' = block /\ block \in Nat
            BY <2>1 DEF ToolsTypeOK, chainVars
        <3>3. Searched(s)'
            BY <2>1, <2>2, <3>1, <3>2 DEF At, DeployedIn
        <3> QED BY <1>2, <2>1, <3>3 DEF chainVars
    <2> QED BY <1>2, <1>3, <2>1, <2>2 DEF chainVars
<1>5. ASSUME NEW s \in Sessions, NEW fails \in BOOLEAN, ScanChunk(s, fails)
      PROVE  ScanInv'
    <2> DEFINE K == KeyOf[s]
               more == DeployedIn(K, session[s].from, session'[s].from - 1)
    <2>1. /\ At(s, "scan") /\ Only(s)
          /\ UNCHANGED <<deployments, block>>
          /\ session'[s].pc = "scan"
          /\ session'[s].latest = session[s].latest
          /\ session'[s].from \in session[s].from + 1 .. session[s].latest + 1
          /\ session'[s].found = IF fails THEN session[s].found ELSE session[s].found \cup more
          /\ session'[s].lost = (session[s].lost \/ fails)
        BY <1>5, ScanChunkReads DEF Reads, Quiet, ScanChunk, chainVars
    <2>2. /\ session[s].from \in Nat \ {0} /\ session[s].latest \in Nat
          /\ session[s].latest <= block
          /\ session'[s].from - 1 \in Nat /\ session[s].from <= session'[s].from - 1
          /\ session'[s].from >= 1 /\ session'[s].from <= session'[s].latest + 1
        BY <1>1, <2>1, SMTT(20) DEF ToolsTypeOK, SessionType
    <2>3. more \subseteq {i \in 1 .. Len(deployments) : deployments[i].deployer = K}
        BY DEF DeployedIn
    <2>4. session[s].found = DeployedIn(K, 1, session[s].from - 1)
              => session[s].found \cup more = DeployedIn(K, 1, session'[s].from - 1)
        BY <2>2, DeployedJoin
    <2>5. After(K, session'[s].from - 1) = DeployedIn(K, 1, session'[s].from - 1)
        BY <2>1 DEF DeployedIn
    <2> HIDE DEF more
    <2>6. session'[s].lost \/ session'[s].found = DeployedIn(K, 1, session'[s].from - 1)
        BY <1>1, <2>1, <2>4
    <2>7. \A i \in session'[s].found : i \in 1 .. Len(deployments) /\ deployments[i].deployer = K
        BY <1>1, <2>1, <2>3
    <2>8. Searched(s)'
        BY <2>1, <2>2, <2>5, <2>6, <2>7 DEF At, DeployedIn
    <2> QED BY <1>2, <2>1, <2>8
<1>6. ASSUME NEW s \in Sessions, ResolveSplitter(s)
      PROVE  ScanInv'
    <2>1. /\ At(s, "scan") /\ session[s].from > session[s].latest /\ Only(s)
          /\ UNCHANGED <<deployments, block>>
          /\ session'[s].pc \in {"idle", "splitter"}
          /\ \/ session'[s].pc = "idle"
             \/ /\ session'[s].found = session[s].found
                /\ session'[s].lost = session[s].lost
                /\ session'[s].latest = session[s].latest
        BY <1>6, ResolveSplitterReads DEF Reads, Quiet, ResolveSplitter, chainVars
    <2>2. session[s].from - 1 = session[s].latest
        BY <1>1, <2>1 DEF ToolsTypeOK, SessionType
    <2>3. After(KeyOf[s], session'[s].latest) = DeployedIn(KeyOf[s], 1, session'[s].latest)
        BY <2>1 DEF DeployedIn
    <2>4. Searched(s)'
        BY <1>1, <2>1, <2>2, <2>3 DEF At, DeployedIn
    <2> QED BY <1>2, <2>1, <2>4
<1>7. ASSUME NEW s \in Sessions, ReadAction(s)
      PROVE  ScanInv'
    <2>1. \/ \E fails \in BOOLEAN : ScanChunk(s, fails)
          \/ ResolveSplitter(s)
          \/ session'[s].pc \notin {"scan", "splitter"}
        BY <1>7, ReadStakeReads, ReadMinimumReads, PreflightReads, EnsureAllowanceReads,
           LoweringPreflightReads, ReadAgainReads, UseSplitterReads, ReadNonceReads,
           SubmitFailsReads DEF ReadAction
    <2>2. Only(s) /\ UNCHANGED <<deployments, block>>
        BY <1>7, ReadActionReads DEF Reads, Quiet, chainVars
    <2> QED BY <1>2, <1>3, <1>5, <1>6, <2>1, <2>2
<1>8. ASSUME NEW s \in Sessions, Submit(s) \/ Receipt(s) \/ RaiseReverted(s) \/ Cut(s)
      PROVE  ScanInv'
    <2>1. /\ Only(s) /\ UNCHANGED <<deployments, block>>
          /\ session'[s].pc \in {"wait", "idle", "nonce"}
        <3>1. CASE Submit(s)
            BY <3>1, SubmitStep, ZenonT(30) DEF ToolsTypeOK, SessionType
        <3>2. CASE Receipt(s)
            BY <3>2, ReceiptStep DEF chainVars
        <3>3. CASE RaiseReverted(s)
            BY <3>3, RaiseRevertedStep DEF chainVars
        <3>4. CASE Cut(s)
            BY <3>4, CutStep DEF chainVars
        <3> QED BY <1>8, <3>1, <3>2, <3>3, <3>4
    <2> QED BY <1>2, <1>3, <2>1
<1>9. ASSUME NEW t \in mempool, Mine(t)
      PROVE  ScanInv'
    <2> DEFINE n == Len(deployments)
    <2>1. /\ n \in Nat /\ block \in Nat /\ block' = block + 1
          /\ \A i \in 1 .. n : deployments[i].block \in Nat /\ deployments[i].block <= block
        BY <1>9, MineStep, DeploymentsHaveType DEF ScanInv, ToolsTypeOK
    <2>2. /\ n' >= n /\ n' \in Nat
          /\ \A i \in 1 .. n : deployments'[i] = deployments[i]
          /\ \A i \in 1 .. n' : i > n => deployments'[i].block = block'
        <3>1. CASE Deploys(t)
            <4>1. KeyOf[t.by] \in Users
                BY <1>9, MineStep
            <4>2. [deployer |-> KeyOf[t.by], block |-> block + 1]
                      \in [deployer : Users, block : Nat]
                BY <2>1, <4>1
            <4>3. deployments \in Seq([deployer : Users, block : Nat])
                BY DEF ToolsTypeOK
            <4>4. /\ n' = n + 1
                  /\ \A i \in 1 .. n : deployments'[i] = deployments[i]
                  /\ deployments'[n + 1] = [deployer |-> KeyOf[t.by], block |-> block + 1]
                BY <3>1, <4>2, <4>3, AppendProperties DEF Deploys
            <4> QED BY <2>1, <4>4
        <3>2. CASE deployments' = deployments
            BY <2>1, <3>2
        <3> QED BY <1>9, <3>1, <3>2, MineStep
    <2>3. \A i \in 1 .. n' : deployments'[i].block <= block'
        BY <2>1, <2>2
    <2>4. ASSUME NEW u, NEW b \in Int, b <= block
          PROVE  After(u, b) = DeployedIn(u, 1, b)
        BY <2>1, <2>2, <2>4 DEF DeployedIn
    <2>5. ASSUME NEW s \in Sessions
          PROVE  Searched(s)'
        <3>1. \/ session'[s] = session[s]
              \/ session'[s].pc \in {"receipt", "reverted"}
            <4>1. CASE s # t.by \/ ~Awaits(t.by, t)
                BY <1>9, <4>1, MineStep DEF Only
            <4>2. CASE s = t.by /\ Awaits(t.by, t)
                <5>1. session'[s] = [session[s] EXCEPT
                                        !.pc = IF Runs(t) THEN "receipt" ELSE "reverted"]
                    BY <1>9, <4>2, MineStep
                <5> QED BY <5>1 DEF ToolsTypeOK, SessionType
            <4> QED BY <4>1, <4>2
        <3>2. CASE session'[s] = session[s] /\ (At(s, "scan") \/ At(s, "splitter"))
            <4>1. /\ session[s].latest \in Nat /\ session[s].from \in Nat
                  /\ session[s].latest <= block /\ session[s].latest <= block'
                BY <1>1, <2>1, <3>2 DEF ToolsTypeOK, SessionType
            <4>2. At(s, "scan") => session[s].from - 1 <= block
                BY <1>1, <2>1, <4>1
            <4>3. After(KeyOf[s], session[s].latest) = DeployedIn(KeyOf[s], 1, session[s].latest)
                BY <2>4, <4>1
            <4>4. At(s, "scan") => After(KeyOf[s], session[s].from - 1)
                                       = DeployedIn(KeyOf[s], 1, session[s].from - 1)
                BY <2>4, <4>1, <4>2
            <4>5. \A i \in session[s].found :
                      i \in 1 .. n' /\ deployments'[i].deployer = KeyOf[s]
                BY <1>1, <2>1, <2>2, <3>2
            <4> QED BY <1>1, <3>2, <4>1, <4>3, <4>4, <4>5 DEF At, DeployedIn
        <3> QED BY <3>1, <3>2 DEF At
    <2> QED BY <2>3, <2>5 DEF ScanInv
<1>10. CASE Outside
    BY <1>10, OutsideStep DEF ScanInv, At, DeployedIn, chainVars
<1>11. CASE UNCHANGED toolsVars
    BY <1>11 DEF ScanInv, At, DeployedIn, toolsVars, chainVars
<1> QED BY <1>4, <1>7, <1>8, <1>9, <1>10, <1>11, ToolsNextCases

-----------------------------------------------------------------------------
(***************************************************************************)
(* Deployments and reports.                                                *)
(***************************************************************************)
LEMMA NoMore ==
    ASSUME NEW B, IsFiniteSet(B), NEW A, A \subseteq B
    PROVE  Cardinality(A) \in Nat /\ Cardinality(B) \in Nat /\ Cardinality(A) <= Cardinality(B)
    BY FS_Subset, FS_CardinalityType

LEMMA OneMore ==
    ASSUME NEW B, IsFiniteSet(B), NEW x, NEW A, A \subseteq B \cup {x}
    PROVE  /\ Cardinality(A) \in Nat /\ Cardinality(B) \in Nat
           /\ Cardinality(A) <= Cardinality(B) + 1
<1>1. Cardinality(B) \in Nat
    BY FS_CardinalityType
<1>2. /\ IsFiniteSet(B \cup {x})
      /\ Cardinality(B \cup {x}) = IF x \in B THEN Cardinality(B) ELSE Cardinality(B) + 1
    BY FS_AddElement
<1>3. Cardinality(A) \in Nat /\ Cardinality(A) <= Cardinality(B \cup {x})
    BY <1>2, NoMore
<1> QED BY <1>1, <1>2, <1>3

LEMMA OneFewer ==
    ASSUME NEW B, IsFiniteSet(B), NEW x \in B, NEW A, A \subseteq B \ {x}
    PROVE  /\ Cardinality(A) \in Nat /\ Cardinality(B) \in Nat
           /\ Cardinality(A) + 1 <= Cardinality(B)
<1>1. IsFiniteSet(B \ {x}) /\ Cardinality(B \ {x}) = Cardinality(B) - 1
    BY FS_RemoveElement
<1>2. Cardinality(A) \in Nat /\ Cardinality(A) <= Cardinality(B) - 1
    BY <1>1, NoMore
<1> QED BY <1>2, FS_CardinalityType

LEMMA CountsFinite ==
    ASSUME ToolsTypeOK, NEW u
    PROVE  IsFiniteSet(Owned(u)) /\ IsFiniteSet(Orphans(u)) /\ IsFiniteSet(ToReport(u))
<1>1. Len(providers) \in Nat
    BY LenProperties DEF ToolsTypeOK
<1>2. IsFiniteSet(1 .. Len(providers)) /\ Owned(u) \subseteq 1 .. Len(providers)
    BY <1>1, FS_Interval DEF Owned, ProviderIds
<1>3. Orphans(u) \subseteq mempool /\ IsFiniteSet(mempool)
    BY DEF Orphans, ToolsTypeOK
<1>4. ToReport(u) \subseteq Sessions
    BY DEF ToReport
<1> QED BY <1>2, <1>3, <1>4, FS_Subset, ToolsAssumption

(***************************************************************************)
(* A session that stops waiting leaves at most its own transaction behind. *)
(***************************************************************************)
LEMMA OrphansLeft ==
    ASSUME ToolsTypeOK, NEW s \in Sessions, Only(s), mempool' = mempool, NEW u
    PROVE  /\ Orphans(u)' \subseteq Orphans(u) \cup {Transaction(s)}
           /\ (KeyOf[s] # u \/ ~At(s, "wait") \/ Transaction(s) \notin mempool)
                  => Orphans(u)' \subseteq Orphans(u)
<1>1. ASSUME NEW t \in mempool, t.by # s
      PROVE  Awaits(t.by, t)' = Awaits(t.by, t)
    BY <1>1 DEF Only, Awaits, At, Transaction, ToolsTypeOK, TransactionType
<1>2. ASSUME NEW t \in mempool, t.by = s, Awaits(t.by, t)
      PROVE  t = Transaction(s) /\ At(s, "wait")
    BY <1>2 DEF Awaits
<1> QED BY <1>1, <1>2 DEF Orphans

Counted(u) ==
    Cardinality(Owned(u)) + Cardinality(Orphans(u))
        <= reported[u] + Cardinality(ToReport(u)) + cut[u]

LEMMA CountsKept ==
    ASSUME ToolsTypeOK, NEW u \in Users, Counted(u),
           ToolsTypeOK',
           Owned(u)' = Owned(u), Orphans(u)' \subseteq Orphans(u),
           ToReport(u)' = ToReport(u),
           reported'[u] = reported[u], cut'[u] = cut[u]
    PROVE  Counted(u)'
<1>1. Cardinality(Orphans(u)') <= Cardinality(Orphans(u))
      /\ Cardinality(Orphans(u)') \in Nat /\ Cardinality(Orphans(u)) \in Nat
    BY CountsFinite, NoMore
<1>2. /\ Cardinality(Owned(u)) \in Nat /\ Cardinality(ToReport(u)) \in Nat
      /\ reported[u] \in Nat /\ cut[u] \in Nat
    BY CountsFinite, FS_CardinalityType DEF ToolsTypeOK
<1> QED BY <1>1, <1>2 DEF Counted

LEMMA ReportInit == ToolsInit => ReportInv
<1> SUFFICES ASSUME ToolsInit, NEW u \in Users
             PROVE  Counted(u)
    BY DEF ReportInv, Counted
<1>1. PICK n \in EarlierDeployments, spl \in Splitters :
          /\ providers = [i \in 1 .. n |-> [owner |-> Deployer, revenueSplitter |-> spl]]
          /\ reported = [v \in Users |-> IF v = Deployer THEN n ELSE 0]
    BY DEF ToolsInit
<1>2. n \in Nat
    BY ToolsAssumption
<1>3. Cardinality(Owned(u)) = reported[u]
    <2>1. Owned(u) = IF u = Deployer THEN 1 .. n ELSE {}
        BY <1>1, <1>2 DEF Owned, ProviderIds
    <2>2. Cardinality(1 .. n) = n
        BY <1>2, FS_Interval
    <2> QED BY <1>1, <2>1, <2>2, FS_EmptySet
<1>4. Orphans(u) = {} /\ ToReport(u) = {} /\ cut[u] = 0
    BY DEF ToolsInit, Orphans, ToReport, At, Idle
<1>5. reported[u] \in Nat
    BY <1>1, <1>2
<1> QED BY <1>3, <1>4, <1>5, FS_EmptySet DEF Counted

LEMMA ReportStep == ToolsTypeOK /\ ScanInv /\ ReportInv /\ [ToolsNext]_toolsVars => ReportInv'
<1> SUFFICES ASSUME ToolsTypeOK, ScanInv, ReportInv, [ToolsNext]_toolsVars, NEW u \in Users
             PROVE  Counted(u)'
    BY DEF ReportInv, Counted
<1>1. ToolsTypeOK'
    BY ToolsTypeStep
<1>2. Counted(u)
    BY DEF ReportInv, Counted
<1>9. IsFiniteSet(ToReport(u)) /\ IsFiniteSet(ToReport(u)')
    BY ToolsAssumption, FS_Subset DEF ToReport
(***************************************************************************)
(* Steps of a session that neither awaits a pending transaction nor has a  *)
(* receipt, before or after.                                               *)
(***************************************************************************)
<1>3. ASSUME NEW s \in Sessions, Only(s), UNCHANGED <<providers, mempool, reported, cut>>,
             ~At(s, "wait") \/ Transaction(s) \notin mempool, ~At(s, "receipt"),
             session'[s].pc # "receipt"
      PROVE  Counted(u)'
    <2>1. Owned(u)' = Owned(u)
        BY <1>3 DEF Owned, ProviderIds
    <2>2. ToReport(u)' = ToReport(u)
        BY <1>3 DEF ToReport, At, Only
    <2>3. Orphans(u)' \subseteq Orphans(u)
        BY <1>3, OrphansLeft
    <2> QED BY <1>1, <1>2, <1>3, <2>1, <2>2, <2>3, CountsKept
<1>4. ASSUME NEW s \in Sessions, CommandStep(s) \/ ReadAction(s)
      PROVE  Counted(u)'
    <2>1. Quiet(s)
        BY <1>4, CommandBegins, ReadActionReads DEF Reads
    <2> QED BY <1>3, <2>1 DEF Quiet, registryVars, chainVars
<1>5. ASSUME NEW s \in Sessions, RaiseReverted(s)
      PROVE  Counted(u)'
    BY <1>3, <1>5, RaiseRevertedStep DEF registryVars, chainVars, At
<1>6. ASSUME NEW s \in Sessions, Submit(s)
      PROVE  Counted(u)'
    <2>1. /\ Only(s) /\ At(s, "submit") /\ session'[s].pc = "wait"
          /\ Transaction(s)' = Transaction(s)
          /\ mempool' \subseteq mempool \cup {Transaction(s)}
          /\ UNCHANGED <<providers, reported, cut>>
        BY <1>6, SubmitStep DEF ToolsTypeOK, SessionType, registryVars, historyVars
    <2>2. Owned(u)' = Owned(u) /\ ToReport(u)' = ToReport(u)
        BY <2>1 DEF Owned, ProviderIds, ToReport, At, Only
    <2>3. Transaction(s).by = s
        BY DEF Transaction
    <2>4. Awaits(s, Transaction(s))'
        BY <2>1 DEF Awaits, At
    <2>5. ASSUME NEW t \in mempool, Awaits(t.by, t)
          PROVE  Awaits(t.by, t)'
        <3>1. t.by \in Sessions \ {s}
            BY <2>1, <2>5 DEF Awaits, At, ToolsTypeOK, TransactionType
        <3> QED BY <2>1, <2>5, <3>1 DEF Awaits, At, Only, Transaction
    <2>6. Orphans(u)' \subseteq Orphans(u)
        BY <2>1, <2>3, <2>4, <2>5 DEF Orphans
    <2> QED BY <1>1, <1>2, <2>1, <2>2, <2>6, CountsKept
<1>7. ASSUME NEW s \in Sessions, Receipt(s)
      PROVE  Counted(u)'
    <2>1. /\ Only(s) /\ At(s, "receipt") /\ session'[s].pc # "receipt"
          /\ UNCHANGED <<providers, mempool, cut>>
          /\ reported' = IF session[s].fn = "deployProvider"
                         THEN [reported EXCEPT ![KeyOf[s]] = @ + 1] ELSE reported
        BY <1>7, ReceiptStep DEF registryVars, chainVars
    <2>2. Owned(u)' = Owned(u) /\ Orphans(u)' \subseteq Orphans(u)
        BY <2>1, OrphansLeft DEF Owned, ProviderIds, At
    <2>3. CASE session[s].fn = "deployProvider" /\ KeyOf[s] = u
        <3>1. ToReport(u) \subseteq ToReport(u)' \cup {s}
            BY <2>1 DEF ToReport, At, Only
        <3>2. /\ Cardinality(ToReport(u)) <= Cardinality(ToReport(u)') + 1
              /\ Cardinality(ToReport(u)) \in Nat /\ Cardinality(ToReport(u)') \in Nat
            BY <1>9, <3>1, OneMore
        <3>3. Cardinality(Orphans(u)') <= Cardinality(Orphans(u))
              /\ Cardinality(Orphans(u)') \in Nat /\ Cardinality(Orphans(u)) \in Nat
            BY <1>1, <2>2, CountsFinite, NoMore
        <3>4. reported[u] \in Nat /\ cut[u] \in Nat /\ reported'[u] = reported[u] + 1
              /\ cut'[u] = cut[u] /\ Cardinality(Owned(u)) \in Nat
            BY <2>1, <2>3, CountsFinite, FS_CardinalityType DEF ToolsTypeOK
        <3> QED BY <1>2, <2>2, <3>2, <3>3, <3>4 DEF Counted
    <2>4. CASE session[s].fn # "deployProvider" \/ KeyOf[s] # u
        <3>1. ToReport(u)' = ToReport(u)
            BY <2>1, <2>4 DEF ToReport, At, Only
        <3>2. reported'[u] = reported[u]
            BY <2>1, <2>4 DEF ToolsTypeOK
        <3> QED BY <1>1, <1>2, <2>1, <2>2, <3>1, <3>2, CountsKept
    <2> QED BY <2>3, <2>4
<1>8. ASSUME NEW s \in Sessions, Cut(s)
      PROVE  Counted(u)'
    <2>1. /\ Only(s) /\ session'[s].pc = "idle"
          /\ UNCHANGED <<providers, mempool, reported>>
          /\ cut' = [cut EXCEPT ![KeyOf[s]] = @ + 1]
        BY <1>8, CutStep DEF registryVars, chainVars
    <2>2. Owned(u)' = Owned(u)
        BY <2>1 DEF Owned, ProviderIds
    <2>3. CASE KeyOf[s] = u
        <3>1. cut'[u] = cut[u] + 1 /\ cut[u] \in Nat /\ reported[u] \in Nat
            BY <2>1, <2>3 DEF ToolsTypeOK
        <3>2. \/ Orphans(u)' \subseteq Orphans(u) /\ ToReport(u) \subseteq ToReport(u)' \cup {s}
              \/ /\ Orphans(u)' \subseteq Orphans(u) \cup {Transaction(s)}
                 /\ ToReport(u) \subseteq ToReport(u)'
            <4>1. CASE At(s, "wait")
                BY <2>1, <4>1, OrphansLeft DEF ToReport, At, Only
            <4>2. CASE ~At(s, "wait")
                BY <2>1, <4>2, OrphansLeft DEF ToReport, At, Only
            <4> QED BY <4>1, <4>2
        <3>3. /\ Cardinality(ToReport(u)) \in Nat /\ Cardinality(ToReport(u)') \in Nat
              /\ Cardinality(Orphans(u)) \in Nat /\ Cardinality(Orphans(u)') \in Nat
              /\ Cardinality(Orphans(u)') + Cardinality(ToReport(u))
                     <= Cardinality(Orphans(u)) + Cardinality(ToReport(u)') + 1
            <4>1. CASE /\ Orphans(u)' \subseteq Orphans(u)
                       /\ ToReport(u) \subseteq ToReport(u)' \cup {s}
                <5>1. /\ Cardinality(ToReport(u)) <= Cardinality(ToReport(u)') + 1
                      /\ Cardinality(ToReport(u)) \in Nat /\ Cardinality(ToReport(u)') \in Nat
                    BY <1>9, <4>1, OneMore
                <5>2. /\ Cardinality(Orphans(u)') <= Cardinality(Orphans(u))
                      /\ Cardinality(Orphans(u)) \in Nat /\ Cardinality(Orphans(u)') \in Nat
                    BY <4>1, CountsFinite, NoMore
                <5> QED BY <5>1, <5>2
            <4>2. CASE /\ Orphans(u)' \subseteq Orphans(u) \cup {Transaction(s)}
                       /\ ToReport(u) \subseteq ToReport(u)'
                <5>1. /\ Cardinality(ToReport(u)) <= Cardinality(ToReport(u)')
                      /\ Cardinality(ToReport(u)) \in Nat /\ Cardinality(ToReport(u)') \in Nat
                    BY <1>9, <4>2, NoMore
                <5>2. /\ Cardinality(Orphans(u)') <= Cardinality(Orphans(u)) + 1
                      /\ Cardinality(Orphans(u)) \in Nat /\ Cardinality(Orphans(u)') \in Nat
                    BY <4>2, CountsFinite, OneMore
                <5> QED BY <5>1, <5>2
            <4> QED BY <3>2, <4>1, <4>2
        <3>4. Cardinality(Owned(u)) \in Nat
            BY CountsFinite, FS_CardinalityType
        <3> QED BY <1>2, <2>1, <2>2, <3>1, <3>3, <3>4 DEF Counted
    <2>4. CASE KeyOf[s] # u
        <3>1. ToReport(u)' = ToReport(u) /\ Orphans(u)' \subseteq Orphans(u)
            BY <2>1, <2>4, OrphansLeft DEF ToReport, At, Only
        <3>2. cut'[u] = cut[u]
            BY <2>1, <2>4 DEF ToolsTypeOK
        <3> QED BY <1>1, <1>2, <2>1, <2>2, <3>1, <3>2, CountsKept
    <2> QED BY <2>3, <2>4
<1>10. CASE Outside
    <2>1. UNCHANGED <<providers, mempool, session, reported, cut>>
        BY <1>10, OutsideStep DEF registryVars, chainVars
    <2> QED BY <1>2, <2>1 DEF Counted, Owned, ProviderIds, Orphans, ToReport, Awaits, At,
                              Transaction
<1>11. CASE UNCHANGED toolsVars
    <2>1. UNCHANGED <<providers, mempool, session, reported, cut>>
        BY <1>11 DEF toolsVars, registryVars, chainVars, historyVars
    <2> QED BY <1>2, <2>1 DEF Counted, Owned, ProviderIds, Orphans, ToReport, Awaits, At,
                              Transaction
<1>12. ASSUME NEW t \in mempool, Mine(t)
       PROVE  Counted(u)'
    <2> DEFINE s == t.by
    <2>1. /\ s \in Sessions /\ Only(s) /\ mempool' = mempool \ {t}
          /\ ~Awaits(s, t) => session' = session
          /\ Awaits(s, t) =>
                 session'[s] = [session[s] EXCEPT
                                   !.pc = IF Runs(t) THEN "receipt" ELSE "reverted"]
          /\ reported' = reported /\ cut' = cut
        BY <1>12, MineStep DEF historyVars
    <2>2. Orphans(u)' \subseteq Orphans(u) \ {t}
        <3>1. ASSUME NEW x \in mempool, x # t, Awaits(x.by, x)
              PROVE  Awaits(x.by, x)'
            <4>1. CASE x.by = s
                <5>1. ~Awaits(s, t)
                    BY <3>1, <4>1 DEF Awaits
                <5> QED BY <2>1, <3>1, <5>1 DEF Awaits, At, Transaction
            <4>2. CASE x.by # s
                <5>1. session'[x.by] = session[x.by]
                    BY <2>1, <4>2 DEF Only, ToolsTypeOK, TransactionType
                <5> QED BY <3>1, <5>1 DEF Awaits, At, Transaction
            <4> QED BY <4>1, <4>2
        <3> QED BY <2>1, <3>1 DEF Orphans
    <2>3. ToReport(u) \subseteq ToReport(u)'
        <3>1. CASE Awaits(s, t)
            BY <2>1, <3>1 DEF ToReport, Awaits, At, Only
        <3>2. CASE ~Awaits(s, t)
            BY <2>1, <3>2 DEF ToReport, At
        <3> QED BY <3>1, <3>2
    <2>4. /\ Cardinality(Orphans(u)') <= Cardinality(Orphans(u))
          /\ Cardinality(Orphans(u)) \in Nat /\ Cardinality(Orphans(u)') \in Nat
        BY <2>2, CountsFinite, NoMore
    <2>5. /\ Cardinality(ToReport(u)) <= Cardinality(ToReport(u)')
          /\ Cardinality(ToReport(u)) \in Nat /\ Cardinality(ToReport(u)') \in Nat
        BY <1>9, <2>3, NoMore
    <2>6. reported[u] \in Nat /\ cut[u] \in Nat /\ Cardinality(Owned(u)) \in Nat
        BY CountsFinite, FS_CardinalityType DEF ToolsTypeOK
    <2>7. CASE KeyOf[s] = u /\ Deploys(t) /\ Runs(t)
        <3> DEFINE n == Len(providers)
        <3>1. Cardinality(Owned(u)') \in Nat /\ Cardinality(Owned(u)') <= Cardinality(Owned(u)) + 1
            <4>1. n \in Nat /\ Len(providers') = n + 1
                  /\ \A i \in 1 .. n : providers'[i] = providers[i]
                BY <2>7, LenProperties, AppendProperties DEF Deploys, ToolsTypeOK
            <4>2. Owned(u)' \subseteq Owned(u) \cup {n + 1}
                BY <4>1 DEF Owned, ProviderIds
            <4> QED BY <4>2, CountsFinite, OneMore
        <3>2. CASE Awaits(s, t)
            <4>1. s \in ToReport(u)' /\ s \notin ToReport(u)
                <5>1. session[s].fn = "deployProvider" /\ session[s].pc = "wait"
                    BY <2>7, <3>2 DEF Awaits, At, Transaction, Deploys
                <5>2. session'[s].pc = "receipt" /\ session'[s].fn = session[s].fn
                    BY <2>1, <2>7, <3>2 DEF ToolsTypeOK, SessionType
                <5> QED BY <2>1, <2>7, <5>1, <5>2 DEF ToReport, At
            <4>2. Cardinality(ToReport(u)) + 1 <= Cardinality(ToReport(u)')
                <5>1. ToReport(u) \subseteq ToReport(u)' \ {s}
                    BY <2>3, <4>1
                <5> QED BY <1>9, <4>1, <5>1, OneFewer
            <4> QED BY <1>2, <2>1, <2>4, <2>5, <2>6, <3>1, <4>2 DEF Counted
        <3>3. CASE ~Awaits(s, t)
            <4>1. t \in Orphans(u)
                BY <2>7, <3>3 DEF Orphans, Deploys
            <4>2. Cardinality(Orphans(u)') + 1 <= Cardinality(Orphans(u))
                BY <2>2, <4>1, CountsFinite, OneFewer
            <4> QED BY <1>2, <2>1, <2>4, <2>5, <2>6, <3>1, <4>2 DEF Counted
        <3> QED BY <3>2, <3>3
    <2>8. CASE KeyOf[s] # u \/ ~Deploys(t) \/ ~Runs(t)
        <3>1. Owned(u)' = Owned(u)
            <4>1. CASE providers' = providers
                BY <4>1 DEF Owned, ProviderIds
            <4>2. CASE KeyOf[s] # u /\ Deploys(t)
                <5>1. PICK spl \in Splitters :
                          providers' = Append(providers, [owner |-> KeyOf[s],
                                                          revenueSplitter |-> spl])
                    BY <4>2 DEF Deploys
                <5>2. [owner |-> KeyOf[s], revenueSplitter |-> spl]
                          \in [owner : Users, revenueSplitter : Splitters]
                    BY <2>1, ToolsAssumption
                <5>3. /\ Len(providers) \in Nat /\ Len(providers') = Len(providers) + 1
                      /\ \A i \in 1 .. Len(providers) : providers'[i] = providers[i]
                      /\ providers'[Len(providers) + 1].owner = KeyOf[s]
                    BY <5>1, <5>2, LenProperties, AppendProperties DEF ToolsTypeOK
                <5>4. 1 .. Len(providers') = (1 .. Len(providers)) \cup {Len(providers) + 1}
                    BY <5>3
                <5>5. \A i \in 1 .. Len(providers') :
                          providers'[i].owner = u <=> i \in Owned(u)
                    <6>1. ASSUME NEW i \in 1 .. Len(providers)
                          PROVE  providers'[i].owner = u <=> i \in Owned(u)
                        BY <5>3 DEF Owned, ProviderIds
                    <6>2. Len(providers) + 1 \notin Owned(u)
                        BY <5>3 DEF Owned, ProviderIds
                    <6>3. ~(providers'[Len(providers) + 1].owner = u)
                        BY <4>2, <5>3
                    <6> QED BY <5>4, <6>1, <6>2, <6>3
                <5>6. Owned(u) \subseteq 1 .. Len(providers')
                    BY <5>4 DEF Owned, ProviderIds
                <5> QED BY <5>5, <5>6 DEF Owned, ProviderIds
            <4>3. providers' = providers \/ (Deploys(t) /\ Runs(t))
                BY <1>12, MineStep
            <4> QED BY <2>8, <4>1, <4>2, <4>3
        <3> QED BY <1>2, <2>1, <2>4, <2>5, <2>6, <3>1 DEF Counted
    <2> QED BY <2>7, <2>8
<1> QED BY <1>4, <1>5, <1>6, <1>7, <1>8, <1>10, <1>11, <1>12, ToolsNextCases

LEMMA ReportInvImplies == ToolsTypeOK /\ ReportInv => UnreportedHasCause
<1> SUFFICES ASSUME ToolsTypeOK, ReportInv, NEW u \in Users
             PROVE  Cardinality(Owned(u)) <= reported[u] + Cardinality(ToReport(u)) + cut[u]
    BY DEF UnreportedHasCause
<1>1. /\ Cardinality(Owned(u)) \in Nat /\ Cardinality(Orphans(u)) \in Nat
      /\ Cardinality(ToReport(u)) \in Nat /\ reported[u] \in Nat /\ cut[u] \in Nat
    BY CountsFinite, FS_CardinalityType DEF ToolsTypeOK
<1> QED BY <1>1 DEF ReportInv

-----------------------------------------------------------------------------
(***************************************************************************)
(* Bonds.  First what a step of one session does to its own bound.         *)
(***************************************************************************)
LEMMA ReadActionBounded ==
    ASSUME ToolsTypeOK, ScanInv, NEW s \in Sessions, ReadAction(s), Bounded(s)
    PROVE  Bounded(s)'
<1> DEFINE u == KeyOf[s]
<1>1. /\ Reads(s) /\ stakes' = stakes
      /\ u \in Users /\ stakes[u].amount \in Nat
      /\ topUp[u] \in Nat /\ topUp'[u] \in Nat /\ topUp[u] <= topUp'[u]
      /\ session[s].amount \in Nat /\ session'[s].amount \in Nat
      /\ session[s].seen \in Nat /\ session'[s].seen \in Nat
    BY ReadActionReads, ToolsAssumption DEF Reads, Quiet, Only, ToolsTypeOK, SessionType, stakeVars
<1>2. CASE ReadStake(s)
    <2>1. /\ session'[s].pc = IF s \in SdkSessions THEN "readMinimum" ELSE "preflight"
          /\ session'[s].seen = stakes[u].amount
        BY <1>2, ReadStakeReads
    <2> QED BY <1>1, <2>1 DEF Bounded, HasSeen, ToppingUp, At
<1>3. CASE ReadMinimum(s)
    <2>1. /\ session'[s].pc = IF s \in SdkSessions THEN "preflight" ELSE "readStake"
          /\ session'[s].seen = session[s].seen
          /\ At(s, "readMinimum")
        BY <1>3, ReadMinimumReads DEF ReadMinimum
    <2> QED BY <1>1, <2>1 DEF Bounded, HasSeen, ToppingUp, At
<1>4. CASE Preflight(s)
    <2>1. /\ session'[s].pc \in {"idle", "nonce", "readAllowance"}
          /\ \/ session'[s].pc = "idle"
             \/ session'[s].pc = "nonce" /\ session'[s].fn = "deployProvider"
             \/ session[s].seen + session'[s].amount <= topUp'[u]
          /\ At(s, "preflight")
        BY <1>4, PreflightReads DEF Preflight
    <2>2. stakes[u].amount <= session[s].seen
        BY <2>1 DEF Bounded, HasSeen
    <2> QED BY <1>1, <2>1, <2>2 DEF Bounded, HasSeen, ToppingUp, At
<1>5. CASE EnsureAllowance(s)
    <2>1. /\ session'[s].pc = "nonce"
          /\ session'[s].amount = session[s].amount
          /\ At(s, "readAllowance")
        BY <1>5, EnsureAllowanceReads DEF EnsureAllowance
    <2>2. stakes[u].amount + session[s].amount <= topUp[u]
        BY <2>1 DEF Bounded, ToppingUp
    <2> QED BY <1>1, <2>1, <2>2 DEF Bounded, HasSeen, ToppingUp, At
<1>6. CASE UnstakePreflight(s) \/ WithdrawPreflight(s) \/ ReadAgain(s) \/ UseSplitter(s)
    <2>1. /\ session'[s].pc \in {"idle", "readAgain", "nonce"}
          /\ \/ session'[s].pc = "idle"
             \/ session'[s].pc = "nonce" /\ session'[s].fn = "distribute"
             \/ session'[s].fn \in Lowering
        <3>1. CASE UnstakePreflight(s) \/ WithdrawPreflight(s)
            BY <3>1, LoweringPreflightReads
        <3>2. CASE ReadAgain(s)
            BY <3>2, ReadAgainReads DEF ReadAgain, Bounded, Lowering
        <3>3. CASE UseSplitter(s)
            BY <3>3, UseSplitterReads
        <3> QED BY <1>6, <3>1, <3>2, <3>3
    <2> QED BY <1>1, <2>1 DEF Bounded, HasSeen, ToppingUp, At, Lowering
<1>7. CASE (\E fails \in BOOLEAN : ScanChunk(s, fails)) \/ ResolveSplitter(s) \/ SubmitFails(s)
    <2>1. session'[s].pc \in {"idle", "scan", "splitter"}
        BY <1>7, ScanChunkReads, ResolveSplitterReads, SubmitFailsReads
    <2> QED BY <1>1, <2>1 DEF Bounded, HasSeen, ToppingUp, At
<1>8. CASE ReadNonce(s)
    <2>1. /\ session'[s].pc = "submit" /\ session'[s].fn = session[s].fn
          /\ session'[s].amount = session[s].amount
          /\ At(s, "nonce")
        BY <1>8, ReadNonceReads DEF ReadNonce
    <2> QED BY <1>1, <2>1 DEF Bounded, HasSeen, ToppingUp, At
<1> QED BY <1>2, <1>3, <1>4, <1>5, <1>6, <1>7, <1>8 DEF ReadAction

LEMMA TopUpInit == ToolsInit => TopUpInv
<1> SUFFICES ASSUME ToolsInit PROVE TopUpInv
    OBVIOUS
<1>1. \A s \in Sessions : session[s].pc = "idle"
    BY DEF ToolsInit, Idle
<1>2. mempool = {} /\ topUp = [u \in Users |-> 0]
    BY DEF ToolsInit
<1>3. \A u \in Users : stakes[u].amount = 0
    BY DEF ToolsInit, StakeInit, NoStake
<1> QED BY <1>1, <1>2, <1>3 DEF TopUpInv, Alone, Bounded, HasSeen, ToppingUp, Busy, At

(***************************************************************************)
(* A key that is clean after a step was clean before.                      *)
(***************************************************************************)
LEMMA CleanBefore ==
    ASSUME ToolsTypeOK, [ToolsNext]_toolsVars, NEW u \in Users, Clean(u)'
    PROVE  Clean(u)
<1>1. cut[u] \in Nat
    BY DEF ToolsTypeOK
<1>2. ASSUME NEW s \in Sessions, CommandStep(s)
      PROVE  Clean(u)
    <2>1. cut' = cut /\ overlapped \subseteq overlapped'
        BY <1>2, CommandBegins DEF Quiet
    <2> QED BY <2>1 DEF Clean
<1>3. ASSUME NEW s \in Sessions, ReadAction(s)
      PROVE  UNCHANGED <<cut, overlapped>>
    BY <1>3 DEF ReadAction, ReadStake, ReadMinimum, Preflight, EnsureAllowance,
                UnstakePreflight, WithdrawPreflight, ReadAgain, ScanChunk, ResolveSplitter,
                UseSplitter, ReadNonce, SubmitFails, Reading
<1>4. ASSUME NEW s \in Sessions, Cut(s)
      PROVE  Clean(u)
    <2>1. KeyOf[s] \in Users /\ overlapped' = overlapped
          /\ cut' = [cut EXCEPT ![KeyOf[s]] = @ + 1]
        BY <1>4, CutStep, ToolsAssumption
    <2>2. cut'[u] = cut[u] \/ cut'[u] = cut[u] + 1
        BY <2>1 DEF ToolsTypeOK
    <2> QED BY <1>1, <2>1, <2>2 DEF Clean
<1>5. ASSUME NEW s \in Sessions, Submit(s) \/ Receipt(s) \/ RaiseReverted(s)
      PROVE  UNCHANGED <<cut, overlapped>>
    BY <1>5 DEF Submit, Receipt, RaiseReverted, Reading, historyVars
<1>6. ASSUME NEW t \in mempool, Mine(t)
      PROVE  UNCHANGED <<cut, overlapped>>
    BY <1>6 DEF Mine, historyVars
<1>7. CASE Outside
    BY <1>7, OutsideStep DEF Clean
<1>8. CASE UNCHANGED toolsVars
    BY <1>8 DEF toolsVars, historyVars, Clean
<1> QED BY <1>2, <1>3, <1>4, <1>5, <1>6, <1>7, <1>8, ToolsNextCases DEF Clean

LEMMA TopUpStep == ToolsTypeOK /\ ScanInv /\ TopUpInv /\ [ToolsNext]_toolsVars => TopUpInv'
<1> SUFFICES ASSUME ToolsTypeOK, ScanInv, TopUpInv, [ToolsNext]_toolsVars,
                    NEW u \in Users, Clean(u)'
             PROVE  (/\ Alone(u)
                     /\ stakes[u].amount <= topUp[u]
                     /\ \A s \in Sessions : KeyOf[s] = u => Bounded(s))'
    BY DEF TopUpInv
<1> DEFINE Good ==
        /\ Alone(u)
        /\ stakes[u].amount <= topUp[u]
        /\ \A s \in Sessions : KeyOf[s] = u => Bounded(s)
<1>1. Clean(u) /\ Good
    BY CleanBefore DEF TopUpInv
<1>2. stakes[u].amount \in Nat /\ topUp[u] \in Nat
    BY DEF ToolsTypeOK
(***************************************************************************)
(* Steps of a session of another key.                                      *)
(***************************************************************************)
<1>3. ASSUME NEW s \in Sessions, KeyOf[s] # u, Only(s), stakes'[u].amount \in 0 .. stakes[u].amount,
             topUp'[u] >= topUp[u], topUp'[u] \in Nat,
             \A t \in mempool' : KeyOf[t.by] = u => t \in mempool
      PROVE  Good'
    <2>1. \A r \in Sessions : KeyOf[r] = u => session'[r] = session[r]
        BY <1>3 DEF Only
    <2>2. Alone(u)'
        <3>1. \A r \in Sessions : KeyOf[r] = u => (Busy(r)' <=> Busy(r))
            BY <2>1 DEF Busy
        <3>2. ASSUME NEW t \in mempool', KeyOf[t.by] = u
              PROVE  Awaits(t.by, t)'
            <4>1. t \in mempool /\ t.by \in Sessions /\ Awaits(t.by, t)
                BY <1>1, <1>3, <3>2 DEF Alone, ToolsTypeOK, TransactionType
            <4> QED BY <2>1, <3>2, <4>1 DEF Awaits, At, Transaction
        <3> QED BY <1>1, <3>1, <3>2 DEF Alone
    <2>3. ASSUME NEW r \in Sessions, KeyOf[r] = u
          PROVE  Bounded(r)'
        <3>1. session[r].amount \in Nat /\ session[r].seen \in Nat
            BY DEF ToolsTypeOK, SessionType
        <3>2. Bounded(r) /\ session'[r] = session[r]
            BY <1>1, <2>1, <2>3
        <3>3. stakes[u].amount <= session[r].seen => stakes'[u].amount <= session[r].seen
            BY <1>2, <1>3, <3>1
        <3>4. stakes[u].amount + session[r].amount <= topUp[u] =>
                  stakes'[u].amount + session[r].amount <= topUp'[u]
            BY <1>2, <1>3, <3>1
        <3> QED BY <2>3, <3>2, <3>3, <3>4 DEF Bounded, HasSeen, ToppingUp, At
    <2> QED BY <1>1, <1>2, <1>3, <2>2, <2>3
(***************************************************************************)
(* Steps of the one session of u that is busy.                             *)
(***************************************************************************)
<1>4. ASSUME NEW s \in Sessions, KeyOf[s] = u, Busy(s)
      PROVE  \A r \in Sessions \ {s} : KeyOf[r] = u => ~Busy(r)
    BY <1>1, <1>4 DEF Alone
<1>5. ASSUME NEW s \in Sessions, KeyOf[s] = u, ~At(s, "wait"),
             \A r \in Sessions \ {s} : KeyOf[r] = u => ~Busy(r)
      PROVE  \A t \in mempool : KeyOf[t.by] # u
    BY <1>1, <1>5 DEF Alone, Awaits, At, Busy, ToolsTypeOK, TransactionType
<1>6. ASSUME NEW s \in Sessions, KeyOf[s] = u, Only(s),
             \A r \in Sessions \ {s} : KeyOf[r] = u => ~Busy(r),
             \A t \in mempool' : KeyOf[t.by] = u => Awaits(t.by, t)',
             stakes'[u].amount <= topUp'[u], Bounded(s)'
      PROVE  Good'
    <2>1. \A r \in Sessions \ {s} : KeyOf[r] = u => ~Busy(r)'
        BY <1>6 DEF Only, Busy
    <2>2. Alone(u)'
        BY <1>6, <2>1 DEF Alone
    <2>3. ASSUME NEW r \in Sessions, KeyOf[r] = u, r # s
          PROVE  Bounded(r)'
        BY <2>1, <2>3 DEF Bounded, HasSeen, ToppingUp, Busy, At
    <2> QED BY <1>6, <2>2, <2>3
<1>7. ASSUME NEW s \in Sessions, CommandStep(s)
      PROVE  Good'
    <2>1. /\ Quiet(s) /\ ~Busy(s) /\ topUp' = topUp /\ stakes' = stakes /\ mempool' = mempool
          /\ overlapped' = IF \E r \in Sessions \ {s} : KeyOf[r] = KeyOf[s] /\ Busy(r)
                           THEN overlapped \cup {KeyOf[s]} ELSE overlapped
          /\ session'[s].pc \in {"readStake", "readMinimum", "nonce", "scan"}
          /\ session'[s].pc = "readMinimum" => s \notin SdkSessions
          /\ session'[s].pc = "nonce" => session'[s].fn \in Lowering
        BY <1>7, CommandBegins DEF Quiet, stakeVars, chainVars
    <2>2. CASE KeyOf[s] = u
        <3>1. \A r \in Sessions \ {s} : KeyOf[r] = u => ~Busy(r)
            BY <2>1, <2>2 DEF Clean
        <3>2. \A t \in mempool : KeyOf[t.by] # u
            BY <1>5, <2>1, <2>2, <3>1 DEF Quiet
        <3>3. Bounded(s)'
            BY <2>1 DEF Bounded, HasSeen, ToppingUp, At, Lowering
        <3> QED BY <1>1, <1>6, <2>1, <2>2, <3>1, <3>2, <3>3 DEF Quiet
    <2> QED BY <1>2, <1>3, <2>1, <2>2 DEF Quiet
<1>8. ASSUME NEW s \in Sessions, ReadAction(s)
      PROVE  Good'
    <2>1. /\ Reads(s) /\ stakes' = stakes /\ mempool' = mempool
          /\ topUp'[u] \in Nat /\ topUp'[u] >= topUp[u]
        BY <1>8, ReadActionReads DEF Reads, Quiet, stakeVars, chainVars
    <2>2. CASE KeyOf[s] = u
        <3>1. \A r \in Sessions \ {s} : KeyOf[r] = u => ~Busy(r)
            BY <1>4, <2>1, <2>2 DEF Reads
        <3>2. \A t \in mempool : KeyOf[t.by] # u
            BY <1>5, <2>1, <2>2, <3>1 DEF Reads, Quiet
        <3>3. Bounded(s)'
            BY <1>1, <1>8, <2>2, ReadActionBounded
        <3>4. stakes'[u].amount <= topUp'[u]
            BY <1>1, <1>2, <2>1
        <3> QED BY <1>6, <2>1, <2>2, <3>1, <3>2, <3>3, <3>4 DEF Reads, Quiet
    <2> QED BY <1>2, <1>3, <2>1, <2>2 DEF Reads, Quiet
<1>9. ASSUME NEW s \in Sessions, Submit(s)
      PROVE  Good'
    <2>1. /\ Only(s) /\ At(s, "submit") /\ stakes' = stakes /\ topUp' = topUp
          /\ session'[s] = [session[s] EXCEPT !.pc = "wait"]
          /\ Transaction(s)' = Transaction(s)
          /\ mempool' \subseteq mempool \cup {Transaction(s)}
        BY <1>9, SubmitStep DEF stakeVars, historyVars
    <2>2. session'[s].pc = "wait" /\ session'[s].fn = session[s].fn
          /\ session'[s].amount = session[s].amount
        BY <2>1 DEF ToolsTypeOK, SessionType
    <2>3. CASE KeyOf[s] = u
        <3>1. \A r \in Sessions \ {s} : KeyOf[r] = u => ~Busy(r)
            BY <1>4, <2>1, <2>3 DEF At, Busy
        <3>2. \A t \in mempool : KeyOf[t.by] # u
            BY <1>5, <2>1, <2>3, <3>1 DEF At
        <3>3. Awaits(s, Transaction(s))' /\ Transaction(s).by = s
            BY <2>1, <2>2 DEF Awaits, At, Transaction
        <3>4. \A t \in mempool' : KeyOf[t.by] = u => t = Transaction(s)
            BY <2>1, <3>2
        <3>5. \A t \in mempool' : KeyOf[t.by] = u => Awaits(t.by, t)'
            BY <2>1, <3>3, <3>4 DEF Awaits
        <3>6. Bounded(s)'
            BY <1>1, <2>1, <2>2, <2>3 DEF Bounded, HasSeen, ToppingUp, At
        <3> QED BY <1>1, <1>6, <2>1, <2>3, <3>1, <3>5, <3>6
    <2>4. CASE KeyOf[s] # u
        <3>1. \A t \in mempool' : KeyOf[t.by] = u => t \in mempool
            BY <2>1, <2>4 DEF Transaction
        <3> QED BY <1>2, <1>3, <2>1, <2>4, <3>1
    <2> QED BY <2>3, <2>4
<1>10. ASSUME NEW s \in Sessions, Receipt(s) \/ RaiseReverted(s) \/ Cut(s)
       PROVE  Good'
    <2>1. /\ Only(s) /\ stakes' = stakes /\ topUp' = topUp /\ mempool' = mempool
          /\ Busy(s)
          /\ session'[s].pc = "idle" \/ Receipt(s)
        <3>1. CASE Receipt(s)
            BY <3>1, ReceiptStep DEF stakeVars, chainVars, At, Busy
        <3>2. CASE RaiseReverted(s)
            BY <3>2, RaiseRevertedStep DEF stakeVars, chainVars, At, Busy
        <3>3. CASE Cut(s)
            BY <3>3, CutStep DEF stakeVars, chainVars, Cut
        <3> QED BY <1>10, <3>1, <3>2, <3>3
    <2>2. CASE KeyOf[s] = u
        <3>1. \A r \in Sessions \ {s} : KeyOf[r] = u => ~Busy(r)
            BY <1>4, <2>1, <2>2
        <3>2. \A t \in mempool : KeyOf[t.by] # u
            <4>1. CASE Receipt(s)
                BY <1>5, <2>2, <3>1, <4>1, ReceiptStep DEF At
            <4>2. CASE RaiseReverted(s)
                <5>1. CASE At(s, "reverted")
                    BY <1>5, <2>2, <3>1, <5>1 DEF At
                <5>2. CASE Transaction(s) \notin mempool
                    BY <1>1, <3>1, <5>2 DEF Alone, Awaits, At, Busy, ToolsTypeOK,
                                            TransactionType
                <5> QED BY <4>2, <5>1, <5>2, RaiseRevertedStep
            <4>3. CASE Cut(s)
                <5>1. cut' = [cut EXCEPT ![u] = @ + 1]
                    BY <2>2, <4>3, CutStep
                <5>2. cut[u] \in Nat /\ cut'[u] = cut[u] + 1
                    BY <5>1 DEF ToolsTypeOK
                <5> QED BY <5>2 DEF Clean
            <4> QED BY <1>10, <4>1, <4>2, <4>3
        <3>3. Bounded(s)'
            <4>1. CASE session'[s].pc = "idle"
                BY <4>1 DEF Bounded, HasSeen, ToppingUp, At
            <4>2. CASE Receipt(s)
                <5>1. /\ At(s, "receipt")
                      /\ \/ session'[s].pc = "idle"
                         \/ /\ session'[s].pc = "nonce"
                            /\ \/ /\ session[s].fn = "approve"
                                  /\ session'[s].fn = "stake"
                                  /\ session'[s].amount = session[s].amount
                               \/ session'[s].fn = "deployProvider"
                    BY <4>2, ReceiptStep
                <5> QED BY <1>1, <2>1, <2>2, <5>1 DEF Bounded, HasSeen, ToppingUp, At
            <4> QED BY <2>1, <4>1, <4>2
        <3> QED BY <1>1, <1>6, <2>1, <2>2, <3>1, <3>2, <3>3
    <2> QED BY <1>2, <1>3, <2>1, <2>2
<1>11. ASSUME NEW t \in mempool, Mine(t)
       PROVE  Good'
    <2> DEFINE s == t.by
    <2>1. /\ s \in Sessions /\ Only(s) /\ mempool' = mempool \ {t}
          /\ stakes'[u].amount \in Nat
          /\ stakes'[u].amount > stakes[u].amount =>
                 /\ u = KeyOf[s] /\ t.fn = "stake"
                 /\ stakes'[u].amount = stakes[u].amount + t.amount
          /\ topUp' = topUp
        BY <1>11, MineStep DEF historyVars
    <2>2. CASE KeyOf[s] = u
        <3>1. Awaits(s, t) /\ At(s, "wait") /\ t = Transaction(s)
            BY <1>1, <2>2 DEF Alone, Awaits
        <3>2. \A r \in Sessions \ {s} : KeyOf[r] = u => ~Busy(r)
            BY <1>4, <2>1, <2>2, <3>1 DEF At, Busy
        <3>3. \A x \in mempool' : KeyOf[x.by] # u
            BY <1>1, <2>1, <3>1, <3>2 DEF Alone, Awaits, At, Busy, ToolsTypeOK, TransactionType
        <3>4. session'[s] = [session[s] EXCEPT
                                !.pc = IF Runs(t) THEN "receipt" ELSE "reverted"]
            BY <1>11, <3>1, MineStep
        <3>5. /\ session'[s].pc \in {"receipt", "reverted"}
              /\ session'[s].fn = session[s].fn /\ session'[s].amount = session[s].amount
              /\ session[s].amount \in Nat
              /\ t.fn = session[s].fn /\ t.amount = session[s].amount
            BY <2>1, <3>1, <3>4 DEF ToolsTypeOK, SessionType, Transaction
        <3>6. session[s].fn \in {"approve", "stake"} =>
                  stakes[u].amount + session[s].amount <= topUp[u]
            BY <1>1, <2>1, <2>2, <3>1 DEF Bounded, ToppingUp, At
        <3>7. stakes'[u].amount <= topUp'[u]
            BY <1>1, <1>2, <2>1, <3>5, <3>6
        <3>8. session[s].fn = "approve" => stakes'[u].amount + session[s].amount <= topUp'[u]
            BY <1>2, <2>1, <3>5, <3>6
        <3>9. Bounded(s)'
            BY <2>2, <3>5, <3>8 DEF Bounded, HasSeen, ToppingUp, At
        <3> QED BY <1>6, <2>1, <2>2, <3>2, <3>3, <3>7, <3>9
    <2>3. CASE KeyOf[s] # u
        <3>1. stakes'[u].amount \in 0 .. stakes[u].amount
            BY <1>2, <2>1, <2>3
        <3> QED BY <1>2, <1>3, <2>1, <2>3, <3>1
    <2> QED BY <2>2, <2>3
<1>12. CASE Outside
    <2>1. /\ UNCHANGED <<mempool, session, topUp>>
          /\ stakes'[u].amount \in Nat /\ stakes'[u].amount <= stakes[u].amount
        BY <1>12, OutsideStep DEF chainVars
    <2>2. Alone(u)'
        BY <1>1, <2>1 DEF Alone, Busy, Awaits, At, Transaction
    <2>3. ASSUME NEW s \in Sessions, KeyOf[s] = u
          PROVE  Bounded(s)'
        <3>1. session[s].amount \in Nat /\ session[s].seen \in Nat /\ Bounded(s)
            BY <1>1, <2>3 DEF ToolsTypeOK, SessionType
        <3> QED BY <1>2, <2>1, <2>3, <3>1 DEF Bounded, HasSeen, ToppingUp, At
    <2> QED BY <1>1, <1>2, <2>1, <2>2, <2>3
<1>13. CASE UNCHANGED toolsVars
    BY <1>1, <1>13 DEF toolsVars, stakeVars, chainVars, historyVars, Alone, Busy, Awaits, At,
                       Transaction, Bounded, HasSeen, ToppingUp
<1> QED BY <1>7, <1>8, <1>9, <1>10, <1>11, <1>12, <1>13, ToolsNextCases

-----------------------------------------------------------------------------
(***************************************************************************)
(* The three together, of every run.                                       *)
(***************************************************************************)
ToolsInv == ToolsTypeOK /\ ScanInv /\ ReportInv /\ TopUpInv

LEMMA ToolsInvHolds == ToolsSpec => []ToolsInv
<1>1. ToolsInit => ToolsInv
    BY ToolsTypeInit, ScanInit, ReportInit, TopUpInit DEF ToolsInv
<1>2. ToolsInv /\ [ToolsNext]_toolsVars => ToolsInv'
    BY ToolsTypeStep, ScanStep, ReportStep, TopUpStep DEF ToolsInv
<1> QED BY <1>1, <1>2, PTL DEF ToolsSpec

(***************************************************************************)
(* AutoDetectHasCause: `splitter' takes one splitter for the signer's only *)
(* one although the signer had deployed another by the block the search    *)
(* began with only if get_logs failed for some chunk of _my_deployments;   *)
(* whatever CHUNK is and whatever is deployed while the search goes on.    *)
(***************************************************************************)
THEOREM ToolsAutoDetectHasCause == ToolsSpec => []AutoDetectHasCause
<1>1. ToolsInv => AutoDetectHasCause
    BY DEF ToolsInv, ScanInv, AutoDetectHasCause
<1> QED BY <1>1, ToolsInvHolds, PTL

(***************************************************************************)
(* UnreportedHasCause: every deployProvider that was mined is reported, to *)
(* be reported, or answered for by one session cut off, however many       *)
(* sessions and keys send, replace and abandon transactions.               *)
(***************************************************************************)
THEOREM ToolsUnreportedHasCause == ToolsSpec => []UnreportedHasCause
<1>1. ToolsInv => UnreportedHasCause
    BY ReportInvImplies DEF ToolsInv
<1> QED BY <1>1, ToolsInvHolds, PTL

(***************************************************************************)
(* OverstakeHasCause: stake and deploy-provider never bond more than a     *)
(* minimum that some preflight read, unless a session of the key was cut   *)
(* off or two of them ran at once; whatever is slashed, withdrawn or set   *)
(* between the reads and the transactions.                                 *)
(***************************************************************************)
THEOREM ToolsOverstakeHasCause == ToolsSpec => []OverstakeHasCause
<1>1. ToolsInv => OverstakeHasCause
    <2> SUFFICES ASSUME ToolsInv, NEW u \in Users, cut[u] = 0 \/ ~(cut[u] > 0), u \notin overlapped
                 PROVE  stakes[u].amount <= topUp[u]
        BY DEF OverstakeHasCause
    <2>1. cut[u] = 0
        BY DEF ToolsInv, ToolsTypeOK
    <2> QED BY <2>1 DEF ToolsInv, TopUpInv, Clean
<1> QED BY <1>1, ToolsInvHolds, PTL
=============================================================================
