---------------------- MODULE ChallengerWatcher_proofs ----------------------
(***************************************************************************)
(* The challenger watcher for any number of endpoints, blocks, challenges  *)
(* and crashes: its scan forgets no endpoint, and it loses track of a      *)
(* challenge only by dying.                                                *)
(***************************************************************************)
EXTENDS ChallengerWatcher, SequenceTheorems, FiniteSetTheorems, TLAPS

ChallengeRecord == [endpoint : Endpoints, pending : BOOLEAN]

\* The constant states are well typed whatever the chain holds.
LEMMA ConstantStates ==
    ASSUME NEW n \in Nat, NEW k \in Nat
    PROVE  {NoState, Torn} \subseteq
               [scannedTo : -1 .. n, known : SUBSET Endpoints, recent : SUBSET Endpoints,
                pending : [Endpoints -> 0 .. k]]
<1> DEFINE p == [e \in Endpoints |-> 0]
<1>1. NoState = [scannedTo |-> 0, known |-> {}, recent |-> {}, pending |-> p]
    BY DEF NoState, NoChallenge
<1>2. Torn = [scannedTo |-> -1, known |-> {}, recent |-> {}, pending |-> p]
    BY <1>1 DEF Torn
<1>3. p \in [Endpoints -> 0 .. k] /\ 0 \in -1 .. n /\ -1 \in -1 .. n
    OBVIOUS
<1> HIDE DEF p
<1> QED BY <1>1, <1>2, <1>3

LEMMA ConstantStatesOK ==
    ASSUME head \in Nat, Len(challenges) \in Nat
    PROVE  StateOK(NoState) /\ StateOK(Torn)
    BY ConstantStates DEF StateOK

\* A settled challenge keeps its id and its endpoint.
LEMMA SettleEffect ==
    ASSUME ChallengerTypeOK, NEW cid \in 1 .. Len(challenges), NEW refund \in BOOLEAN,
           Settle(cid, refund)
    PROVE  /\ challenges' \in Seq(ChallengeRecord)
           /\ Len(challenges') = Len(challenges)
           /\ \A i \in 1 .. Len(challenges) :
                 /\ challenges'[i].endpoint = challenges[i].endpoint
                 /\ challenges'[i].pending => challenges[i].pending
<1> DEFINE settled == [challenges[cid] EXCEPT !.pending = FALSE]
<1>1. challenges \in Seq(ChallengeRecord) /\ Len(challenges) \in Nat
    BY DEF ChallengerTypeOK, ChallengeRecord
<1>2. challenges[cid] \in ChallengeRecord
    BY <1>1, ElementOfSeq
<1>3. settled \in ChallengeRecord /\ settled.endpoint = challenges[cid].endpoint /\ ~settled.pending
    BY <1>2 DEF ChallengeRecord
<1>4. challenges' = [challenges EXCEPT ![cid] = settled]
    BY DEF Settle
<1> HIDE DEF settled
<1>5. challenges' \in Seq(ChallengeRecord) /\ Len(challenges') = Len(challenges)
    BY <1>1, <1>3, <1>4, ExceptSeq
<1>6. \A i \in 1 .. Len(challenges) : challenges'[i] = IF i = cid THEN settled ELSE challenges[i]
    BY <1>1, <1>4
<1> QED BY <1>3, <1>5, <1>6

\* A new challenge is the last one.
LEMMA OpenEffect ==
    ASSUME ChallengerTypeOK, NEW e \in Endpoints, OpenChallenge(e)
    PROVE  /\ challenges' \in Seq(ChallengeRecord)
           /\ Len(challenges') = Len(challenges) + 1
           /\ \A i \in 1 .. Len(challenges) : challenges'[i] = challenges[i]
           /\ challenges'[Len(challenges) + 1] = [endpoint |-> e, pending |-> TRUE]
<1>1. challenges \in Seq(ChallengeRecord) /\ [endpoint |-> e, pending |-> TRUE] \in ChallengeRecord
    BY DEF ChallengerTypeOK, ChallengeRecord
<1>2. challenges' = Append(challenges, [endpoint |-> e, pending |-> TRUE])
    BY DEF OpenChallenge
<1> QED BY <1>1, <1>2, AppendProperties

\* resolve_pending drops the challenges that were settled, and nothing else.
LEMMA ResolveEffect ==
    ASSUME ChallengerTypeOK, ResolvePending
    PROVE  \E kept \in [Endpoints -> 0 .. Len(challenges)] :
               /\ state' = [state EXCEPT !.pending = kept]
               /\ \A e \in Endpoints :
                     \/ kept[e] = state.pending[e]
                     \/ /\ kept[e] = 0 /\ state.pending[e] \in 1 .. Len(challenges)
                        /\ ~challenges[state.pending[e]].pending
               /\ pc' # "saving" => file' = file /\ kept = state.pending
<1> DEFINE resolved == {e \in Endpoints : /\ state.pending[e] # NoChallenge
                                          /\ ~challenges[state.pending[e]].pending}
           kept == [e \in Endpoints |-> IF e \in resolved THEN NoChallenge ELSE state.pending[e]]
<1>1. /\ state.pending \in [Endpoints -> 0 .. Len(challenges)] /\ Len(challenges) \in Nat
    BY DEF ChallengerTypeOK, StateOK
<1>2. kept \in [Endpoints -> 0 .. Len(challenges)]
    BY <1>1 DEF NoChallenge
<1>3. state' = [state EXCEPT !.pending = kept]
    BY DEF ResolvePending, ChallengerTypeOK, StateOK
<1>4. resolved = {} => kept = state.pending
    BY <1>1
<1>5. \A e \in Endpoints : \/ kept[e] = state.pending[e]
                           \/ /\ kept[e] = 0 /\ state.pending[e] \in 1 .. Len(challenges)
                              /\ ~challenges[state.pending[e]].pending
    BY <1>1 DEF NoChallenge
<1>6. IF resolved # {} THEN pc' = "saving" ELSE file' = file
    BY DEF ResolvePending, SaveAndGo, Go
<1> HIDE DEF kept, resolved
<1> QED BY <1>2, <1>3, <1>4, <1>5, <1>6

LEMMA ChallengerTypeInit == ChallengerInit => ChallengerTypeOK
<1> SUFFICES ASSUME ChallengerInit PROVE ChallengerTypeOK
    OBVIOUS
<1>1. StateOK(NoState)
    BY ChallengerAssumption DEF StateOK, NoState, NoChallenge, ChallengerInit
<1>2. /\ head = 0 /\ MaxBlock \in Nat /\ MaxCrashes \in Nat /\ InitialFees \in Nat
      /\ registered \in [Endpoints -> {0}]
      /\ onChain \in [Endpoints -> Terms] /\ live = onChain
      /\ challenges = <<>>
    BY ChallengerAssumption DEF ChallengerInit
<1> QED BY <1>1, <1>2 DEF ChallengerInit, ChallengerTypeOK, RegistryHashes

LEMMA ChallengerTypeStep ==
    ChallengerTypeOK /\ [ChallengerNext]_challengerVars => ChallengerTypeOK'
<1> SUFFICES ASSUME ChallengerTypeOK, [ChallengerNext]_challengerVars PROVE ChallengerTypeOK'
    OBVIOUS
<1> USE ChallengerAssumption
<1>0. head \in Nat /\ Len(challenges) \in Nat
    BY DEF ChallengerTypeOK
<1>1. ASSUME NEW e \in Endpoints, NEW t \in Terms, RegisterEndpoint(e, t) PROVE ChallengerTypeOK'
    <2>1. /\ head' = head + 1 /\ head' \in 0 .. MaxBlock
          /\ registered' \in [Endpoints -> 0 .. head']
          /\ onChain' \in [Endpoints -> Terms]
        BY <1>1 DEF RegisterEndpoint, ChallengerTypeOK
    <2>2. StateOK(file)' /\ StateOK(state)'
        BY <1>1, <2>1 DEF RegisterEndpoint, ChallengerTypeOK, StateOK, accountVars
    <2>3. current_block' \in 0 .. head' /\ start' \in 0 .. head' + 1
        BY <1>1, <2>1 DEF RegisterEndpoint, ChallengerTypeOK, locals
    <2> QED BY <1>1, <2>1, <2>2, <2>3
            DEF RegisterEndpoint, ChallengerTypeOK, accountVars, locals, control, history
<1>2. ASSUME NEW e \in Endpoints, NEW t \in Terms, UpdateEndpoint(e, t) PROVE ChallengerTypeOK'
    BY <1>2 DEF UpdateEndpoint, ChallengerTypeOK, StateOK, accountVars, locals, control, history
<1>3. ASSUME NEW e \in Endpoints, NEW t \in Terms, Serve(e, t) PROVE ChallengerTypeOK'
    BY <1>3 DEF Serve, ChallengerTypeOK, StateOK, accountVars, locals, control, history
<1>4. CASE OtherBlock
    BY <1>4 DEF OtherBlock, ChallengerTypeOK, StateOK, accountVars, locals, control, history
<1>5. ASSUME NEW cid \in 1 .. Len(challenges), NEW refund \in BOOLEAN, Settle(cid, refund)
      PROVE  ChallengerTypeOK'
    <2>1. /\ challenges' \in Seq(ChallengeRecord) /\ Len(challenges') = Len(challenges)
        BY <1>5, SettleEffect
    <2>2. fees' \in Nat
        BY <1>5 DEF Settle, ChallengerTypeOK
    <2> QED BY <1>5, <2>1, <2>2
            DEF Settle, ChallengerTypeOK, ChallengeRecord, StateOK, registryVars, locals, control, history
<1>6. CASE OtherSpending
    BY <1>6 DEF OtherSpending, ChallengerTypeOK, StateOK, registryVars, locals, control, history
<1>7. ASSUME NEW e \in Endpoints, CooldownOver(e) PROVE ChallengerTypeOK'
    BY <1>7 DEF CooldownOver, ChallengerTypeOK, StateOK, registryVars, accountVars, locals, control, history
<1>8. CASE Start
    BY <1>8 DEF Start, ChallengerTypeOK, StateOK, registryVars, accountVars, locals, history
<1>9. CASE UNCHANGED challengerVars
    BY <1>9 DEF ChallengerTypeOK, StateOK, challengerVars, registryVars, accountVars, locals, control, history
<1>10. CASE FinishSave
    BY <1>10 DEF FinishSave, ChallengerTypeOK, StateOK, registryVars, accountVars, locals, history
<1>11. CASE ResolvePending
    <2>1. StateOK(state)'
        <3>1. PICK kept \in [Endpoints -> 0 .. Len(challenges)] :
                  state' = [state EXCEPT !.pending = kept]
            BY <1>11, ResolveEffect
        <3>2. UNCHANGED <<head, challenges>>
            BY <1>11 DEF ResolvePending, registryVars, accountVars
        <3> QED BY <3>1, <3>2 DEF ChallengerTypeOK, StateOK
    <2>2. file' \in {file, Torn} /\ UNCHANGED <<head, challenges>>
        BY <1>11 DEF ResolvePending, SaveAndGo, Go, registryVars, accountVars
    <2>3. StateOK(file)'
        BY <2>2, <1>0, ConstantStatesOK DEF ChallengerTypeOK, StateOK
    <2>4. pc' \in {"saving", "discovering"} /\ afterSave' \in {"discovering", afterSave}
          /\ (pc' = "saving" => afterSave' = "discovering")
        BY <1>11 DEF ResolvePending, SaveAndGo, Go
    <2> QED BY <1>11, <2>1, <2>3, <2>4
            DEF ResolvePending, ChallengerTypeOK, registryVars, accountVars, locals, history
<1>12. CASE StartSync
    BY <1>12 DEF StartSync, Go, ChallengerTypeOK, StateOK, registryVars, accountVars, history
<1>13. CASE ScanChunk
    BY <1>13 DEF ScanChunk, ChunkEnd, RegisteredIn, ChallengerTypeOK, StateOK, registryVars, accountVars, control
<1>14. CASE EndSync
    <2>1. StateOK(state)'
        <3>1. /\ state' = [state EXCEPT !.known = state.known \cup found, !.scannedTo = current_block]
              /\ UNCHANGED <<head, challenges>>
            BY <1>14 DEF EndSync, registryVars, accountVars
        <3>2. state.known \cup found \subseteq Endpoints /\ current_block \in -1 .. head
            BY <1>0 DEF ChallengerTypeOK, StateOK
        <3> QED BY <3>1, <3>2 DEF ChallengerTypeOK, StateOK
    <2>2. file' = Torn /\ pc' = "saving" /\ afterSave' = "checking"
          /\ UNCHANGED <<head, challenges>>
        BY <1>14 DEF EndSync, SaveAndGo, registryVars, accountVars
    <2>3. StateOK(file)'
        BY <1>0, <2>2, ConstantStatesOK DEF StateOK
    <2>4. queue' \subseteq Endpoints
        BY <1>14, <2>1 DEF EndSync, StateOK
    <2> QED BY <1>14, <2>1, <2>2, <2>3, <2>4
            DEF EndSync, ChallengerTypeOK, registryVars, accountVars, history
<1>15. ASSUME NEW e \in Endpoints, SkipEndpoint(e) PROVE ChallengerTypeOK'
    BY <1>15 DEF SkipEndpoint, ChallengerTypeOK, StateOK, registryVars, accountVars, control, history
<1>16. ASSUME NEW e \in Endpoints, ReadOnChain(e) PROVE ChallengerTypeOK'
    BY <1>16 DEF ReadOnChain, Go, ChallengerTypeOK, StateOK, RegistryHashes, registryVars, accountVars, history
<1>17. ASSUME NEW e \in Endpoints, NoChallengeDue(e) PROVE ChallengerTypeOK'
    <2>1. StateOK(state)'
        BY <1>17, <1>0 DEF NoChallengeDue, ChallengerTypeOK, StateOK, registryVars, accountVars
    <2>2. file' = Torn /\ pc' = "saving" /\ afterSave' = "checking"
          /\ UNCHANGED <<head, challenges>>
        BY <1>17 DEF NoChallengeDue, SaveAndGo, registryVars, accountVars
    <2>3. StateOK(file)'
        BY <1>0, <2>2, ConstantStatesOK DEF StateOK
    <2> QED BY <1>17, <2>1, <2>2, <2>3
            DEF NoChallengeDue, ChallengerTypeOK, registryVars, accountVars, history
<1>18. ASSUME NEW e \in Endpoints, FindMismatch(e) PROVE ChallengerTypeOK'
    BY <1>18 DEF FindMismatch, Go, ChallengerTypeOK, StateOK, registryVars, accountVars, locals, history
<1>19. ASSUME NEW e \in Endpoints, OpenChallenge(e) PROVE ChallengerTypeOK'
    <2>1. /\ challenges' \in Seq(ChallengeRecord) /\ Len(challenges') = Len(challenges) + 1
        BY <1>19, OpenEffect
    <2>2. head' = head /\ file' = file /\ state' = state
        BY <1>19 DEF OpenChallenge, Go, registryVars
    <2>3. StateOK(file)' /\ StateOK(state)'
        <3>1. 0 .. Len(challenges) \subseteq 0 .. Len(challenges')
            BY <1>0, <2>1
        <3>2. [Endpoints -> 0 .. Len(challenges)] \subseteq [Endpoints -> 0 .. Len(challenges')]
            BY <3>1
        <3> QED BY <2>2, <3>2 DEF ChallengerTypeOK, StateOK
    <2>4. fees' \in Nat
        BY <1>19 DEF OpenChallenge, ChallengerTypeOK
    <2> QED BY <1>19, <2>1, <2>3, <2>4
            DEF OpenChallenge, Go, ChallengerTypeOK, ChallengeRecord, registryVars, locals, history
<1>20. ASSUME NEW e \in Endpoints, RecordChallenge(e) PROVE ChallengerTypeOK'
    <2>1. StateOK(state)'
        <3>1. /\ state' = [state EXCEPT !.pending = [state.pending EXCEPT ![e] = Len(challenges)]]
              /\ UNCHANGED <<head, challenges>>
            BY <1>20 DEF RecordChallenge, ChallengerTypeOK, StateOK, registryVars, accountVars
        <3>2. [state.pending EXCEPT ![e] = Len(challenges)] \in [Endpoints -> 0 .. Len(challenges)]
            BY <1>0 DEF ChallengerTypeOK, StateOK
        <3> QED BY <3>1, <3>2 DEF ChallengerTypeOK, StateOK
    <2>2. file' = Torn /\ pc' = "saving" /\ afterSave' = "checking"
          /\ UNCHANGED <<head, challenges>>
        BY <1>20 DEF RecordChallenge, SaveAndGo, registryVars, accountVars
    <2>3. StateOK(file)'
        BY <1>0, <2>2, ConstantStatesOK DEF StateOK
    <2> QED BY <1>20, <2>1, <2>2, <2>3
            DEF RecordChallenge, ChallengerTypeOK, registryVars, accountVars, history
<1>21. CASE EndCycle
    BY <1>21 DEF EndCycle, Go, ChallengerTypeOK, StateOK, registryVars, accountVars, locals, history
<1>22. CASE Crash \/ OpenReverts
    <2>1. /\ file' = file /\ state' = NoState /\ pc' = "down" /\ afterSave' = afterSave
          /\ UNCHANGED <<registryVars, accountVars, seen, missed>>
          /\ current_block' = 0 /\ start' = 0 /\ found' = {} /\ queue' = {}
        BY <1>22 DEF Crash, OpenReverts, Die, Go
    <2>2. crashes' \in 0 .. MaxCrashes
        BY <1>22 DEF Crash, OpenReverts, ChallengerTypeOK
    <2>3. StateOK(file)' /\ StateOK(state)'
        BY <1>0, <2>1, ConstantStatesOK DEF ChallengerTypeOK, StateOK, registryVars, accountVars
    <2> QED BY <2>1, <2>2, <2>3 DEF ChallengerTypeOK, registryVars, accountVars
<1>23. CASE StartFails
    BY <1>9, <1>23 DEF StartFails
<1> QED BY <1>1, <1>2, <1>3, <1>4, <1>5, <1>6, <1>7, <1>8, <1>9, <1>10, <1>11, <1>12,
           <1>13, <1>14, <1>15, <1>16, <1>17, <1>18, <1>19, <1>20, <1>21, <1>22, <1>23
        DEF ChallengerNext, Surroundings, Work, CheckEndpoint

(***************************************************************************)
(* The state of the watcher, in memory and on disk, keeps its type, and so *)
(* does what it sees of the chain.                                         *)
(***************************************************************************)
THEOREM ChallengerTypeCorrect == ChallengerSpec => []ChallengerTypeOK
<1> QED BY ChallengerTypeInit, ChallengerTypeStep, PTL DEF ChallengerSpec

-----------------------------------------------------------------------------
(***************************************************************************)
(* Discovery.  Known endpoints are registered, each in a block of its own; *)
(* a scan has found, or failed on, all that was registered before the      *)
(* block it has come to.                                                   *)
(***************************************************************************)
Registered == {e \in Endpoints : registered[e] # 0}

DiscoveryInv ==
    /\ \A d, e \in Registered : registered[d] = registered[e] => d = e
    /\ state.known \cup file.known \cup found \cup queue \subseteq Registered
    /\ state.scannedTo >= 0 /\ (file # Torn => file.scannedTo >= 0)
    /\ Covered(state) /\ Covered(file)
    /\ pc = "scanning" =>
          /\ start >= 1
          /\ \A e \in Endpoints : registered[e] \in 1 .. start - 1
                                     => e \in state.known \cup found \cup missed

\* Actions that discover nothing.
Quiet ==
    /\ UNCHANGED <<registered, missed, found, start>>
    /\ queue' \subseteq queue
    /\ state'.known = state.known /\ state'.scannedTo = state.scannedTo
    /\ \/ file' = Torn
       \/ file # Torn /\ file'.known = file.known /\ file'.scannedTo = file.scannedTo
    /\ pc' = "scanning" => pc = "scanning"

QuietAction ==
    \/ \E e \in Endpoints, t \in Terms : UpdateEndpoint(e, t) \/ Serve(e, t)
    \/ OtherBlock
    \/ \E cid \in 1 .. Len(challenges), refund \in BOOLEAN : Settle(cid, refund)
    \/ OtherSpending
    \/ \E e \in Endpoints : CooldownOver(e)
    \/ ResolvePending
    \/ \E e \in Endpoints :
           \/ SkipEndpoint(e)
           \/ ReadOnChain(e)
           \/ NoChallengeDue(e)
           \/ FindMismatch(e)
           \/ OpenChallenge(e)
           \/ RecordChallenge(e)
    \/ EndCycle
    \/ StartFails
    \/ UNCHANGED challengerVars

LEMMA QuietActions == ChallengerTypeOK /\ QuietAction => Quiet
<1> SUFFICES ASSUME ChallengerTypeOK, QuietAction PROVE Quiet
    OBVIOUS
<1>0. StateOK(state) /\ StateOK(file)
    BY DEF ChallengerTypeOK
<1>1. CASE /\ UNCHANGED <<registered, missed, found, start, queue, state, file>>
           /\ pc' = "scanning" => pc = "scanning"
    BY <1>1 DEF Quiet
<1>2. ASSUME NEW e \in Endpoints, NEW t \in Terms, UpdateEndpoint(e, t) \/ Serve(e, t)
      PROVE  Quiet
    BY <1>1, <1>2 DEF UpdateEndpoint, Serve, locals, control, history
<1>3. CASE OtherBlock \/ OtherSpending \/ EndCycle \/ StartFails \/ UNCHANGED challengerVars
    BY <1>1, <1>3 DEF OtherBlock, OtherSpending, EndCycle, Go, StartFails, challengerVars,
       registryVars, locals, control, history
<1>4. ASSUME NEW cid \in 1 .. Len(challenges), NEW refund \in BOOLEAN, Settle(cid, refund)
      PROVE  Quiet
    BY <1>1, <1>4 DEF Settle, registryVars, locals, control, history
<1>5. ASSUME NEW e \in Endpoints, CooldownOver(e) PROVE Quiet
    <2>1. /\ state'.known = state.known /\ state'.scannedTo = state.scannedTo
          /\ file'.known = file.known /\ file'.scannedTo = file.scannedTo
        BY <1>0, <1>5 DEF CooldownOver, StateOK
    <2>2. file = Torn => file' = Torn
        BY <1>5 DEF CooldownOver, Torn, NoState
    <2> QED BY <1>5, <2>1, <2>2 DEF CooldownOver, Quiet, registryVars, locals, control, history
<1>6. CASE ResolvePending
    <2>1. state'.known = state.known /\ state'.scannedTo = state.scannedTo
        BY <1>0, <1>6, ResolveEffect DEF StateOK
    <2>2. file' = Torn \/ file' = file
        BY <1>6 DEF ResolvePending, SaveAndGo, Go
    <2> QED BY <1>6, <2>1, <2>2
            DEF ResolvePending, SaveAndGo, Go, Quiet, registryVars, locals, history
<1>7. ASSUME NEW e \in Endpoints,
             SkipEndpoint(e) \/ ReadOnChain(e) \/ FindMismatch(e) \/ OpenChallenge(e)
      PROVE  Quiet
    <2>1. state'.known = state.known /\ state'.scannedTo = state.scannedTo
        BY <1>0, <1>7 DEF SkipEndpoint, ReadOnChain, FindMismatch, OpenChallenge, StateOK
    <2> QED BY <1>7, <2>1 DEF SkipEndpoint, ReadOnChain, FindMismatch, OpenChallenge, Go, Quiet,
               registryVars, locals, control, history
<1>8. ASSUME NEW e \in Endpoints, NoChallengeDue(e) \/ RecordChallenge(e) PROVE Quiet
    <2>1. state'.known = state.known /\ state'.scannedTo = state.scannedTo
        BY <1>0, <1>8 DEF NoChallengeDue, RecordChallenge, StateOK
    <2> QED BY <1>8, <2>1 DEF NoChallengeDue, RecordChallenge, SaveAndGo, Quiet,
               registryVars, locals, history
<1> QED BY <1>2, <1>3, <1>4, <1>5, <1>6, <1>7, <1>8 DEF QuietAction

LEMMA TornKnowsNothing == Torn.known = {} /\ Torn.scannedTo = -1 /\ NoState.known = {} /\ NoState.scannedTo = 0
    BY DEF Torn, NoState

LEMMA DiscoveryStep ==
    ChallengerTypeOK /\ DiscoveryInv /\ [ChallengerNext]_challengerVars => DiscoveryInv'
<1> SUFFICES ASSUME ChallengerTypeOK, DiscoveryInv, [ChallengerNext]_challengerVars
             PROVE  DiscoveryInv'
    OBVIOUS
<1> USE ChallengerAssumption
<1>0. /\ head \in Nat /\ registered \in [Endpoints -> 0 .. head]
      /\ state.scannedTo \in -1 .. head /\ file.scannedTo \in -1 .. head
      /\ current_block \in 0 .. head /\ start \in 0 .. head + 1
      /\ found \subseteq Endpoints
    BY DEF ChallengerTypeOK, StateOK
<1>1. CASE QuietAction
    <2>1. Quiet
        BY <1>1, QuietActions
    <2>2. (Covered(state) /\ Covered(file))'
        BY <1>0, <2>1, TornKnowsNothing DEF Quiet, Covered, DiscoveryInv
    <2> QED BY <1>0, <2>1, <2>2, TornKnowsNothing DEF Quiet, DiscoveryInv, Registered
<1>2. ASSUME NEW e \in Endpoints, NEW t \in Terms, RegisterEndpoint(e, t) PROVE DiscoveryInv'
    <2>1. /\ registered[e] = 0 /\ registered' = [registered EXCEPT ![e] = head + 1]
          /\ UNCHANGED <<file, state, found, queue, missed, start, pc>>
        BY <1>2 DEF RegisterEndpoint, locals, control, history
    <2>2. Registered' = Registered \cup {e}
        BY <1>0, <2>1 DEF Registered
    <2>3. \A c, d \in Registered' : registered'[c] = registered'[d] => c = d
        BY <1>0, <2>1, <2>2 DEF DiscoveryInv, Registered
    <2>4. \A d \in Endpoints, n \in 0 .. head : registered'[d] \in 1 .. n => registered[d] \in 1 .. n
        BY <1>0, <2>1
    <2>5. (Covered(state) /\ Covered(file))'
        BY <1>0, <2>1, <2>4 DEF Covered, DiscoveryInv
    <2> QED BY <1>0, <2>1, <2>2, <2>3, <2>4, <2>5 DEF DiscoveryInv
<1>3. CASE Start
    BY <1>3 DEF Start, DiscoveryInv, Covered, Registered, registryVars, locals, history
<1>4. CASE FinishSave
    <2>1. pc' # "scanning"
        BY <1>4 DEF FinishSave, ChallengerTypeOK
    <2> QED BY <1>4, <2>1 DEF FinishSave, DiscoveryInv, Covered, Registered, registryVars, locals, history
<1>5. CASE StartSync
    BY <1>0, <1>5 DEF StartSync, Go, DiscoveryInv, Covered, Registered, registryVars, accountVars, history
<1>6. CASE ScanChunk
    <2>1. /\ pc = "scanning" /\ start <= current_block
          /\ ChunkEnd \in Nat /\ start' = ChunkEnd + 1
          /\ UNCHANGED <<registered, file, state, queue>>
          /\ found \subseteq found' /\ missed \subseteq missed'
          /\ RegisteredIn(start, ChunkEnd) \subseteq found' \cup missed'
          /\ found' \subseteq found \cup RegisteredIn(start, ChunkEnd)
        BY <1>0, <1>6 DEF ScanChunk, ChunkEnd, registryVars
    <2>2. start >= 1
        BY <2>1 DEF DiscoveryInv
    <2>3. RegisteredIn(start, ChunkEnd) \subseteq Registered
        BY <1>0, <2>1, <2>2 DEF RegisteredIn, Registered
    <2>4. \A e \in Endpoints : registered[e] \in 1 .. start' - 1 =>
              registered[e] \in 1 .. start - 1 \/ e \in RegisteredIn(start, ChunkEnd)
        BY <1>0, <2>1, <2>2 DEF RegisteredIn
    <2> QED BY <1>0, <2>1, <2>2, <2>3, <2>4 DEF DiscoveryInv, Covered, Registered
<1>7. CASE EndSync
    <2>1. /\ pc = "scanning" /\ start > current_block /\ pc' = "saving"
          /\ state'.known = state.known \cup found /\ state'.scannedTo = current_block
          /\ queue' = state'.known /\ file' = Torn
          /\ UNCHANGED <<registered, found, missed>>
        BY <1>7 DEF EndSync, SaveAndGo, registryVars, history, ChallengerTypeOK, StateOK
    <2>2. \A e \in Endpoints : registered[e] \in 1 .. current_block => registered[e] \in 1 .. start - 1
        BY <1>0, <2>1
    <2> QED BY <1>0, <2>1, <2>2, TornKnowsNothing DEF DiscoveryInv, Covered, Registered
<1>8. CASE Crash \/ OpenReverts
    BY <1>8, TornKnowsNothing DEF Crash, OpenReverts, Die, Go, DiscoveryInv, Covered, Registered, registryVars
<1> QED BY <1>1, <1>2, <1>3, <1>4, <1>5, <1>6, <1>7, <1>8
        DEF ChallengerNext, Surroundings, Work, CheckEndpoint, QuietAction

LEMMA DiscoveryHolds == ChallengerSpec => []DiscoveryInv
<1>1. ChallengerInit => DiscoveryInv
    BY DEF ChallengerInit, DiscoveryInv, Covered, Registered, NoState, Torn
<1> QED BY <1>1, ChallengerTypeCorrect, DiscoveryStep, PTL DEF ChallengerSpec

(***************************************************************************)
(* challenger_watcher.py:143: wherever the scan ends, is cut off or starts *)
(* again, an endpoint registered at or before the scanned block is known   *)
(* unless its get_logs failed.                                             *)
(***************************************************************************)
THEOREM NoEndpointForgotten == ChallengerSpec => []ScannedAreKnown
<1>1. DiscoveryInv => ScannedAreKnown
    BY DEF DiscoveryInv, ScannedAreKnown
<1> QED BY <1>1, DiscoveryHolds, PTL

-----------------------------------------------------------------------------
\* The endpoint being checked is one, and stays the same while others register.
LEMMA NextIsOne ==
    ASSUME ChallengerTypeOK, DiscoveryInv, NEW d \in Endpoints, NEW e \in Endpoints,
           IsNext(d), IsNext(e)
    PROVE  d = e
<1>1. registered[d] \in Int /\ registered[e] \in Int
    BY DEF ChallengerTypeOK
<1>2. d \in Registered /\ e \in Registered
    BY DEF IsNext, DiscoveryInv
<1>3. registered[d] = registered[e]
    BY <1>1 DEF IsNext
<1> QED BY <1>2, <1>3 DEF DiscoveryInv

LEMMA NextStays ==
    ASSUME ChallengerTypeOK, DiscoveryInv, NEW e \in Endpoints, NEW d \in Endpoints,
           NEW t \in Terms, RegisterEndpoint(d, t)
    PROVE  IsNext(e)' <=> IsNext(e)
<1>1. registered' = [registered EXCEPT ![d] = head + 1] /\ queue' = queue /\ registered[d] = 0
    BY DEF RegisterEndpoint, locals
<1>2. d \notin queue
    BY <1>1 DEF DiscoveryInv, Registered
<1> QED BY <1>1, <1>2 DEF IsNext, ChallengerTypeOK

(***************************************************************************)
(* Memory of pending challenges.  At most `crashes' pending challenges     *)
(* against an endpoint are unknown to the process: one becomes unknown     *)
(* when it dies between OpenChallenge and the save.  What the file says of *)
(* pending challenges is what the process knows, unless it is being saved. *)
(***************************************************************************)
Unknown(e, known) == Cardinality(PendingAgainst(e) \ {known})

Opened(e) == pc = "recording" /\ IsNext(e)

MemoryInv ==
    \A e \in Endpoints :
        /\ pc = "down" => Unknown(e, file.pending[e]) <= crashes
        /\ pc \notin {"down", "saving"} => file.pending[e] = state.pending[e]
        /\ pc # "down" => IF Opened(e) THEN Unknown(e, Len(challenges)) <= crashes
                                       ELSE Unknown(e, state.pending[e]) <= crashes
        /\ pc \in {"fetching", "opening", "recording"} /\ IsNext(e) => state.pending[e] = 0

LEMMA PendingFinite ==
    ASSUME ChallengerTypeOK, NEW e
    PROVE  /\ IsFiniteSet(PendingAgainst(e))
           /\ PendingAgainst(e) \subseteq 1 .. Len(challenges)
<1>1. Len(challenges) \in Nat /\ IsFiniteSet(1 .. Len(challenges))
    BY FS_Interval DEF ChallengerTypeOK
<1> QED BY <1>1, FS_Subset DEF PendingAgainst

\* One element more or less.
LEMMA WithoutOne ==
    ASSUME NEW S, IsFiniteSet(S), NEW x
    PROVE  /\ IsFiniteSet(S \ {x})
           /\ Cardinality(S \ {x}) \in Nat /\ Cardinality(S) \in Nat
           /\ Cardinality(S) <= Cardinality(S \ {x}) + 1
           /\ x \notin S => Cardinality(S \ {x}) = Cardinality(S)
<1>1. /\ IsFiniteSet(S \ {x})
      /\ Cardinality(S \ {x}) = IF x \in S THEN Cardinality(S) - 1 ELSE Cardinality(S)
    BY FS_RemoveElement
<1>2. Cardinality(S \ {x}) \in Nat /\ Cardinality(S) \in Nat
    BY <1>1, FS_CardinalityType
<1> QED BY <1>1, <1>2

LEMMA FewerPending ==
    ASSUME NEW S, NEW T, IsFiniteSet(T), S \subseteq T
    PROVE  Cardinality(S) \in Nat /\ Cardinality(S) <= Cardinality(T)
    BY FS_Subset, FS_CardinalityType

\* Counting everything: at most one pending challenge is known.
LEMMA MemoryBounds ==
    ASSUME ChallengerTypeOK, MemoryInv
    PROVE  PendingBounded
<1> SUFFICES ASSUME NEW e \in Endpoints PROVE Cardinality(PendingAgainst(e)) <= 1 + crashes
    BY DEF PendingBounded
<1>1. crashes \in Nat
    BY ChallengerAssumption DEF ChallengerTypeOK
<1>2. IsFiniteSet(PendingAgainst(e))
    BY PendingFinite
<1>3. PICK known : Unknown(e, known) <= crashes
    BY DEF MemoryInv
<1> QED BY <1>1, <1>2, <1>3, WithoutOne DEF Unknown

\* No challenge has the number 0: with nothing known, all are unknown.
LEMMA NothingKnown ==
    ASSUME ChallengerTypeOK, NEW e \in Endpoints
    PROVE  Unknown(e, 0) = Cardinality(PendingAgainst(e))
<1>1. 0 \notin PendingAgainst(e)
    BY PendingFinite
<1> QED BY <1>1, PendingFinite, WithoutOne DEF Unknown

LEMMA MemoryStep ==
    /\ ChallengerTypeOK /\ DiscoveryInv /\ MemoryInv /\ [ChallengerNext]_challengerVars
    /\ ChallengerTypeOK'
    => MemoryInv'
<1> SUFFICES ASSUME ChallengerTypeOK, DiscoveryInv, MemoryInv, [ChallengerNext]_challengerVars,
                    ChallengerTypeOK'
             PROVE  MemoryInv'
    OBVIOUS
<1>0. /\ crashes \in Nat /\ Len(challenges) \in Nat
      /\ state.pending \in [Endpoints -> 0 .. Len(challenges)]
      /\ StateOK(state) /\ StateOK(file)
    <2>1. StateOK(state) /\ StateOK(file)
        BY DEF ChallengerTypeOK
    <2>2. crashes \in Nat /\ Len(challenges) \in Nat
        BY ChallengerAssumption DEF ChallengerTypeOK
    <2> QED BY <2>1, <2>2 DEF StateOK
\* Nothing the invariant is about changes.
<1>1. ASSUME \A e \in Endpoints : IsNext(e)' <=> IsNext(e),
             UNCHANGED <<challenges, pc, crashes>>,
             state'.pending = state.pending, file'.pending = file.pending
      PROVE  MemoryInv'
    BY <1>1 DEF MemoryInv, Unknown, PendingAgainst, Opened
<1>2. ASSUME UNCHANGED <<registered, queue, challenges, pc, crashes, state, file>> PROVE MemoryInv'
    BY <1>1, <1>2 DEF IsNext
<1>3. ASSUME NEW d \in Endpoints, NEW t \in Terms, RegisterEndpoint(d, t) PROVE MemoryInv'
    BY <1>1, <1>3, NextStays DEF RegisterEndpoint, accountVars, control, history
<1>4. ASSUME NEW d \in Endpoints, NEW t \in Terms, UpdateEndpoint(d, t) \/ Serve(d, t)
      PROVE  MemoryInv'
    BY <1>2, <1>4 DEF UpdateEndpoint, Serve, accountVars, locals, control, history
<1>5. CASE OtherBlock \/ OtherSpending \/ StartFails \/ UNCHANGED challengerVars
    BY <1>2, <1>5 DEF OtherBlock, OtherSpending, StartFails, challengerVars,
       registryVars, accountVars, locals, control, history
<1>6. ASSUME NEW d \in Endpoints, CooldownOver(d) PROVE MemoryInv'
    <2>1. state'.pending = state.pending /\ file'.pending = file.pending
        BY <1>0, <1>6 DEF CooldownOver, StateOK
    <2> QED BY <1>1, <1>6, <2>1 DEF CooldownOver, IsNext, registryVars, accountVars, locals, control, history
\* A settled challenge is no longer pending.
<1>7. ASSUME NEW cid \in 1 .. Len(challenges), NEW refund \in BOOLEAN, Settle(cid, refund)
      PROVE  MemoryInv'
    <2>1. UNCHANGED <<registered, queue, pc, crashes, state, file>>
        BY <1>7 DEF Settle, registryVars, locals, control, history
    <2>2. Len(challenges') = Len(challenges)
        BY <1>7, SettleEffect
    <2>3. \A e \in Endpoints : PendingAgainst(e)' \subseteq PendingAgainst(e)
        BY <1>7, SettleEffect DEF PendingAgainst
    <2>4. ASSUME NEW e \in Endpoints, NEW known, Unknown(e, known) <= crashes
          PROVE  Cardinality(PendingAgainst(e)' \ {known}) <= crashes
        <3>1. IsFiniteSet(PendingAgainst(e) \ {known})
            BY PendingFinite, WithoutOne
        <3>2. PendingAgainst(e)' \ {known} \subseteq PendingAgainst(e) \ {known}
            BY <2>3
        <3>3. /\ Cardinality(PendingAgainst(e)' \ {known}) \in Nat
              /\ Cardinality(PendingAgainst(e)' \ {known}) <= Cardinality(PendingAgainst(e) \ {known})
            BY <3>1, <3>2, FewerPending
        <3>4. Cardinality(PendingAgainst(e) \ {known}) \in Nat
            BY PendingFinite, WithoutOne
        <3> QED BY <1>0, <2>4, <3>3, <3>4 DEF Unknown
    <2> QED BY <2>1, <2>2, <2>4 DEF MemoryInv, Unknown, Opened, IsNext
<1>8. CASE Start
    BY <1>8 DEF Start, MemoryInv, Unknown, PendingAgainst, Opened, accountVars, history
<1>9. CASE ResolvePending
    <2>1. PICK kept \in [Endpoints -> 0 .. Len(challenges)] :
              /\ state' = [state EXCEPT !.pending = kept]
              /\ \A e \in Endpoints :
                    \/ kept[e] = state.pending[e]
                    \/ /\ kept[e] = 0 /\ state.pending[e] \in 1 .. Len(challenges)
                       /\ ~challenges[state.pending[e]].pending
              /\ pc' # "saving" => file' = file /\ kept = state.pending
        BY <1>9, ResolveEffect
    <2>2. state'.pending = kept
        BY <1>0, <2>1 DEF StateOK
    <2>3. pc = "resolving" /\ pc' \in {"saving", "discovering"} /\ UNCHANGED <<challenges, crashes>>
        BY <1>9 DEF ResolvePending, SaveAndGo, Go, accountVars, history
    <2>4. ASSUME NEW e \in Endpoints PROVE Unknown(e, kept[e]) <= crashes
        <3>1. Unknown(e, state.pending[e]) <= crashes
            BY <2>3 DEF MemoryInv, Opened
        <3>2. ASSUME kept[e] = 0, ~challenges[state.pending[e]].pending
              PROVE  Unknown(e, 0) = Unknown(e, state.pending[e])
            <4>1. state.pending[e] \notin PendingAgainst(e)
                BY <3>2 DEF PendingAgainst
            <4> QED BY <4>1, NothingKnown, PendingFinite, WithoutOne DEF Unknown
        <3> QED BY <2>1, <3>1, <3>2
    <2> QED BY <2>1, <2>2, <2>3, <2>4 DEF MemoryInv, Unknown, PendingAgainst, Opened
\* What the file says does not change where nothing is saved.
<1>10. ASSUME UNCHANGED <<registered, challenges, crashes, state, file>>, queue' = queue,
              pc \notin {"down", "saving", "recording"}, pc' \notin {"down", "saving", "recording"},
              pc' \in {"fetching", "opening"} => pc \in {"fetching", "opening"}
       PROVE  MemoryInv'
    BY <1>10 DEF MemoryInv, Unknown, PendingAgainst, Opened, IsNext
<1>11. ASSUME UNCHANGED <<challenges, crashes, state, file>>, pc # "recording",
              pc \notin {"down", "saving"},
              pc' \in {"discovering", "scanning", "checking", "resolving"}
       PROVE  MemoryInv'
    BY <1>11 DEF MemoryInv, Unknown, PendingAgainst, Opened
<1>12. CASE StartSync \/ ScanChunk \/ EndCycle
    BY <1>11, <1>12 DEF StartSync, ScanChunk, EndCycle, Go, accountVars, control, history
<1>13. ASSUME NEW d \in Endpoints, SkipEndpoint(d) \/ FindMismatch(d) PROVE MemoryInv'
    BY <1>10, <1>11, <1>13 DEF SkipEndpoint, Checking, FindMismatch, Go, registryVars, accountVars,
       locals, control, history
<1>14. ASSUME UNCHANGED <<challenges, crashes>>, state'.pending = state.pending,
              pc \in {"scanning", "fetching"}, pc' = "saving"
       PROVE  MemoryInv'
    BY <1>14 DEF MemoryInv, Unknown, PendingAgainst, Opened
<1>15. CASE EndSync
    <2>1. state'.pending = state.pending
        BY <1>0, <1>15 DEF EndSync, StateOK
    <2> QED BY <1>14, <1>15, <2>1 DEF EndSync, SaveAndGo, accountVars, history
<1>16. ASSUME NEW d \in Endpoints, NoChallengeDue(d) PROVE MemoryInv'
    BY <1>14, <1>16 DEF NoChallengeDue, SaveAndGo, accountVars, history
<1>17. CASE FinishSave
    <2>1. pc = "saving" /\ pc' \in {"discovering", "checking"} /\ file' = state /\ state' = state
          /\ UNCHANGED <<challenges, crashes>>
        BY <1>17 DEF FinishSave, ChallengerTypeOK, accountVars, history
    <2> QED BY <2>1 DEF MemoryInv, Unknown, PendingAgainst, Opened
<1>18. ASSUME NEW d \in Endpoints, ReadOnChain(d) PROVE MemoryInv'
    <2>1. /\ pc = "checking" /\ pc' = "fetching" /\ IsNext(d) /\ state.pending[d] = 0
          /\ UNCHANGED <<registered, queue, challenges, crashes, file>>
        BY <1>18 DEF ReadOnChain, Checking, Checkable, NoChallenge, Go, registryVars, accountVars, history
    <2>2. state'.pending = state.pending
        BY <1>0, <1>18 DEF ReadOnChain, StateOK
    <2>3. \A e \in Endpoints : IsNext(e)' => e = d
        BY <2>1, NextIsOne DEF IsNext
    <2> QED BY <2>1, <2>2, <2>3 DEF MemoryInv, Unknown, PendingAgainst, Opened
\* The new challenge is the one that is not recorded yet.
<1>19. ASSUME NEW d \in Endpoints, OpenChallenge(d) PROVE MemoryInv'
    <2>1. /\ pc = "opening" /\ pc' = "recording" /\ IsNext(d) /\ state.pending[d] = 0
          /\ UNCHANGED <<registered, queue, crashes, state, file>>
        BY <1>19 DEF OpenChallenge, Go, MemoryInv, registryVars, locals, history
    <2>2. /\ Len(challenges') = Len(challenges) + 1
          /\ \A i \in 1 .. Len(challenges) : challenges'[i] = challenges[i]
          /\ challenges'[Len(challenges) + 1] = [endpoint |-> d, pending |-> TRUE]
        BY <1>19, OpenEffect
    <2>3. PendingAgainst(d)' = PendingAgainst(d) \cup {Len(challenges')}
        BY <1>0, <2>2 DEF PendingAgainst
    <2>4. \A e \in Endpoints : e # d => PendingAgainst(e)' = PendingAgainst(e)
        BY <1>0, <2>2 DEF PendingAgainst
    <2>5. \A e \in Endpoints : IsNext(e)' <=> e = d
        BY <2>1, NextIsOne DEF IsNext
    <2>6. PendingAgainst(d)' \ {Len(challenges')} = PendingAgainst(d) \ {0}
        BY <1>0, <2>2, <2>3, PendingFinite
    <2>7. Unknown(d, 0) <= crashes
        BY <2>1 DEF MemoryInv, Opened
    <2> QED BY <2>1, <2>4, <2>5, <2>6, <2>7 DEF MemoryInv, Unknown, Opened
<1>20. ASSUME NEW d \in Endpoints, RecordChallenge(d) PROVE MemoryInv'
    <2>1. /\ pc = "recording" /\ pc' = "saving" /\ IsNext(d)
          /\ UNCHANGED <<challenges, crashes>>
        BY <1>20 DEF RecordChallenge, SaveAndGo, accountVars, history
    <2>2. state'.pending = [state.pending EXCEPT ![d] = Len(challenges)]
        BY <1>0, <1>20 DEF RecordChallenge, StateOK
    <2>3. \A e \in Endpoints : IsNext(e) => e = d
        BY <2>1, NextIsOne
    <2>4. ASSUME NEW e \in Endpoints PROVE Unknown(e, state'.pending[e]) <= crashes
        <3>1. Opened(d) /\ Unknown(d, Len(challenges)) <= crashes /\ state'.pending[d] = Len(challenges)
            BY <1>0, <2>1, <2>2 DEF MemoryInv, Opened
        <3>2. CASE e # d
            <4>1. ~Opened(e) /\ state'.pending[e] = state.pending[e]
                BY <1>0, <2>2, <2>3, <3>2 DEF Opened
            <4> QED BY <2>1, <4>1 DEF MemoryInv
        <3> QED BY <3>1, <3>2
    <2> QED BY <2>1, <2>4 DEF MemoryInv, Unknown, PendingAgainst, Opened
\* Killed in between, the process knows one challenge less than before.
<1>21. CASE Crash
    <2>1. /\ pc # "down" /\ pc' = "down" /\ crashes' = crashes + 1
          /\ UNCHANGED <<challenges, file>>
        BY <1>21 DEF Crash, Die, Go, accountVars
    <2>2. ASSUME NEW e \in Endpoints, NEW known
          PROVE  Cardinality(PendingAgainst(e) \ {known}) <= crashes + 1
        <3>1. Cardinality(PendingAgainst(e)) <= 1 + crashes
            BY MemoryBounds DEF PendingBounded
        <3>2. /\ Cardinality(PendingAgainst(e) \ {known}) \in Nat
              /\ Cardinality(PendingAgainst(e) \ {known}) <= Cardinality(PendingAgainst(e))
            <4>1. PendingAgainst(e) \ {known} \subseteq PendingAgainst(e)
                OBVIOUS
            <4> QED BY <4>1, PendingFinite, FewerPending
        <3>3. Cardinality(PendingAgainst(e)) \in Nat
            BY PendingFinite, WithoutOne
        <3> QED BY <1>0, <3>1, <3>2, <3>3
    <2> QED BY <2>1, <2>2 DEF MemoryInv, Unknown, PendingAgainst
\* openChallenge reverted: nothing was opened, and the file is complete.
<1>22. CASE OpenReverts
    <2>1. /\ pc = "opening" /\ pc' = "down" /\ UNCHANGED <<challenges, file, crashes>>
        BY <1>22 DEF OpenReverts, Die, Go, accountVars
    <2> QED BY <2>1 DEF MemoryInv, Unknown, PendingAgainst, Opened
<1> QED BY <1>3, <1>4, <1>5, <1>6, <1>7, <1>8, <1>9, <1>12, <1>13, <1>15, <1>16, <1>17, <1>18,
           <1>19, <1>20, <1>21, <1>22
        DEF ChallengerNext, Surroundings, Work, CheckEndpoint

(***************************************************************************)
(* challenger_watcher.py:12 with its exception: pending challenges against *)
(* one endpoint are never more than one, and one more for every time the   *)
(* process died.                                                           *)
(***************************************************************************)
THEOREM OneChallengeAndOnePerCrash == ChallengerSpec => []PendingBounded
<1>1. ChallengerInit => MemoryInv
    <2> SUFFICES ASSUME ChallengerInit, NEW e \in Endpoints
                 PROVE  Unknown(e, file.pending[e]) <= crashes
        BY DEF MemoryInv, ChallengerInit
    <2>1. PendingAgainst(e) \ {file.pending[e]} = {} /\ crashes = 0
        BY DEF ChallengerInit, PendingAgainst
    <2> QED BY <2>1, FS_EmptySet DEF Unknown
<1>2. ChallengerTypeOK /\ MemoryInv => PendingBounded
    BY MemoryBounds
<1> QED BY <1>1, <1>2, ChallengerTypeCorrect, DiscoveryHolds, MemoryStep, PTL DEF ChallengerSpec
=============================================================================
