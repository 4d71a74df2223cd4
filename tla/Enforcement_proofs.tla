------------------------- MODULE Enforcement_proofs -------------------------
(***************************************************************************)
(* Layer 0 for any number of users, providers, endpoints and challenges.   *)
(*                                                                         *)
(* The bonds on their own: the stake manager's storage stays well typed    *)
(* and every bond stays backed.  The contracts and the workflow together:  *)
(* the types, backed bonds, owners in step with endpoints, final verdicts, *)
(* bonds lost only by a fault of their owner, honest servers not found at  *)
(* fault, fees in escrow, and the abstract escrow that all of it           *)
(* implements.  And the clients that register, update and challenge: what  *)
(* they register passes the check, an update keeps the splitter, a         *)
(* challenge costs no more than was read.  Last, the watcher that has the  *)
(* workflow judge the challenges.                                          *)
(***************************************************************************)
EXTENDS Enforcement, EndpointOnboarding, CREWatcher, USDC_proofs, SequenceTheorems

-----------------------------------------------------------------------------
(***************************************************************************)
(* The stake manager alone.                                                *)
(***************************************************************************)

(***************************************************************************)
(* A floor division of basis points stays within the amount: why the       *)
(* protocol's cut never exceeds the slash it is taken from.                *)
(***************************************************************************)
LEMMA BpOfBounds ==
    ASSUME NEW amount \in Nat, NEW bp \in Nat
    PROVE  /\ BpOf(amount, bp) \in Nat
           /\ bp <= BP_SCALE => BpOf(amount, bp) <= amount
<1> DEFINE q == (amount * bp) \div BP_SCALE
<1>1. BP_SCALE \in Nat /\ BP_SCALE > 0
    BY ParametersAssumption
<1>2. amount * bp \in Nat
    OBVIOUS
<1>3. q \in Nat
    BY <1>1, <1>2
<1>4. ASSUME bp <= BP_SCALE PROVE q <= amount
    <2>1. amount * bp <= amount * BP_SCALE
        BY <1>1, <1>4
    <2>2. BP_SCALE * q <= amount * bp
        BY <1>1, <1>2
    <2> SUFFICES ASSUME q >= amount + 1 PROVE FALSE
        BY <1>3
    <2>3. BP_SCALE * q >= BP_SCALE * (amount + 1)
        BY <1>1, <1>3
    <2>4. BP_SCALE * (amount + 1) = amount * BP_SCALE + BP_SCALE
        BY <1>1
    <2> QED BY <1>1, <1>2, <1>3, <2>1, <2>2, <2>3, <2>4
<1> QED BY <1>3, <1>4 DEF BpOf

(***************************************************************************)
(* The slash is at most the bond, and the protocol's cut at most the       *)
(* slash: neither of slash's subtractions underflows.                      *)
(***************************************************************************)
LEMMA SlashBounds ==
    ASSUME StakeTypeOK, NEW p \in Users, NEW bp \in Nat
    PROVE  /\ SlashAmount(p, bp) \in 0 .. stakes[p].amount
           /\ ProtocolCut(p, bp) \in 0 .. SlashAmount(p, bp)
<1>1. stakes[p].amount \in Nat /\ protocolSlashBp \in Nat /\ protocolSlashBp <= BP_SCALE
    BY ParametersAssumption DEF StakeTypeOK
<1>2. BpOf(stakes[p].amount, bp) \in Nat
    BY <1>1, BpOfBounds
<1>3. SlashAmount(p, bp) \in 0 .. stakes[p].amount
    BY <1>1, <1>2 DEF SlashAmount
<1>4. ProtocolCut(p, bp) \in Nat /\ ProtocolCut(p, bp) <= SlashAmount(p, bp)
    BY <1>1, <1>3, BpOfBounds DEF ProtocolCut
<1> QED BY <1>3, <1>4

(***************************************************************************)
(* The two transfers of a slash take no more than the slashed amount from  *)
(* the stake manager, whoever its treasury is.                             *)
(***************************************************************************)
LEMMA SlashPaidType ==
    ASSUME StakeTypeOK, NEW p \in Users, NEW bp \in Nat, NEW challenger \in Accounts,
           SlashCanPay(p, bp)
    PROVE  /\ SlashPaid(p, bp, challenger) \in [Accounts -> Nat]
           /\ SlashPaid(p, bp, challenger)[StakeManagerAddr]
                 >= usdc[StakeManagerAddr] - SlashAmount(p, bp)
<1> DEFINE amount == SlashAmount(p, bp)
           cut == ProtocolCut(p, bp)
           paid == IF cut > 0 THEN Moved(usdc, StakeManagerAddr, treasury, cut) ELSE usdc
<1>1. /\ amount \in Nat /\ cut \in Nat /\ cut <= amount
      /\ usdc \in [Accounts -> Nat] /\ StakeManagerAddr \in Accounts
      /\ usdc[StakeManagerAddr] >= amount
    <2>1. stakes[p].amount \in Nat
        BY DEF StakeTypeOK
    <2> QED BY <2>1, SlashBounds, AccountsAssumption DEF StakeTypeOK, SlashCanPay
<1>2. paid \in [Accounts -> Nat] /\ paid[StakeManagerAddr] >= usdc[StakeManagerAddr] - cut
    <2>1. CASE cut > 0
        <3>1. treasury \in Accounts
            BY <2>1 DEF StakeTypeOK, SlashCanPay
        <3>2. usdc[StakeManagerAddr] >= cut
            BY <1>1
        <3> HIDE DEF cut
        <3> QED BY <1>1, <2>1, <3>1, <3>2, MovedType
    <2>2. CASE cut = 0
        BY <1>1, <2>2
    <2> QED BY <1>1, <2>1, <2>2
<1>3. SlashPaid(p, bp, challenger) = Moved(paid, StakeManagerAddr, challenger, amount - cut)
    BY DEF SlashPaid
<1>4. paid[StakeManagerAddr] \in Nat /\ amount - cut \in Nat
    BY <1>1, <1>2
<1>5. paid[StakeManagerAddr] >= amount - cut
    BY <1>1, <1>2, <1>4
<1> HIDE DEF amount, cut, paid
<1>6. /\ Moved(paid, StakeManagerAddr, challenger, amount - cut) \in [Accounts -> Nat]
      /\ Moved(paid, StakeManagerAddr, challenger, amount - cut)[StakeManagerAddr]
            >= paid[StakeManagerAddr] - (amount - cut)
    BY <1>1, <1>2, <1>4, <1>5, MovedType
<1>7. Moved(paid, StakeManagerAddr, challenger, amount - cut)[StakeManagerAddr] \in Nat
    BY <1>1, <1>6
<1>8. usdc[StakeManagerAddr] \in Nat
    BY <1>1
<1>9. SlashPaid(p, bp, challenger)[StakeManagerAddr] >= usdc[StakeManagerAddr] - amount
    BY <1>1, <1>2, <1>3, <1>4, <1>6, <1>7, <1>8
<1> QED BY <1>3, <1>6, <1>9 DEF amount

-----------------------------------------------------------------------------
(***************************************************************************)
(* The storage is well typed in every reachable state.                     *)
(***************************************************************************)
LEMMA StakeTypeInit == StakeInit => StakeTypeOK
    BY AccountsAssumption, ParametersAssumption DEF StakeInit, StakeTypeOK, NoStake

LEMMA StakeTypeStep == StakeTypeOK /\ [StakeNext]_stakeVars => StakeTypeOK'
<1> SUFFICES ASSUME StakeTypeOK, [StakeNext]_stakeVars
             PROVE  StakeTypeOK'
    OBVIOUS
<1> USE AccountsAssumption, ParametersAssumption DEF StakeTypeOK
<1>1. ASSUME NEW u \in Users, NEW amount \in Amounts, Stake(u, amount)
      PROVE  StakeTypeOK'
    <2>1. usdc' \in [Accounts -> Nat]
        BY <1>1, MovedType DEF Stake, CanMove
    <2> QED BY <1>1, <2>1 DEF Stake, stakeParams
<1>2. ASSUME NEW u \in Users, NEW amount \in Amounts, RequestUnstake(u, amount)
      PROVE  StakeTypeOK'
    BY <1>2 DEF RequestUnstake, stakeParams
<1>3. ASSUME NEW u \in Users, NEW amount \in Amounts, Withdraw(u, amount)
      PROVE  StakeTypeOK'
    <2>1. usdc' \in [Accounts -> Nat]
        BY <1>3, MovedType DEF Withdraw, CanMove
    <2>2. stakes[u].amount - amount \in Nat
        BY <1>3 DEF Withdraw
    <2> QED BY <1>3, <2>1, <2>2 DEF Withdraw, stakeParams
<1>4. ASSUME NEW p \in Users, NEW bp \in SlashBps, NEW c \in Users, Slash(p, bp, c)
      PROVE  StakeTypeOK'
    <2>1. usdc' \in [Accounts -> Nat]
        BY <1>4, SlashPaidType DEF Slash, SlashEnabled
    <2>2. stakes[p].amount - SlashAmount(p, bp) \in Nat
        BY SlashBounds
    <2> QED BY <1>4, <2>1, <2>2 DEF Slash, StakesAfterSlash, stakeParams
<1>5. ASSUME NEW u \in Users, NEW amount \in Amounts, PlainTransfer(u, amount)
      PROVE  StakeTypeOK'
    <2>1. usdc' \in [Accounts -> Nat]
        BY <1>5, MovedType DEF PlainTransfer, CanMove
    <2> QED BY <1>5, <2>1 DEF PlainTransfer, stakeParams
<1>6. CASE StakeAdminStep
    BY <1>6 DEF StakeAdminStep, SetTreasury, SetProtocolSlashBp, SetWithdrawCooldown,
                SetMinimumStakeRequired
<1>7. CASE Tick
    BY <1>7 DEF Tick, stakeParams
<1>8. CASE UNCHANGED stakeVars
    BY <1>8 DEF stakeVars, stakeParams
<1> QED BY <1>1, <1>2, <1>3, <1>4, <1>5, <1>6, <1>7, <1>8 DEF StakeNext, UserStakeStep

THEOREM StakeManagerTypeCorrect == StakeSpec => []StakeTypeOK
    BY StakeTypeInit, StakeTypeStep, PTL DEF StakeSpec

-----------------------------------------------------------------------------
(***************************************************************************)
(* Changing one user's bond changes the sum of the bonds by as much.       *)
(***************************************************************************)
LEMMA BondedUpdate ==
    ASSUME StakeTypeOK, StakeTypeOK', NEW u \in Users,
           \A v \in Users \ {u} : stakes'[v].amount = stakes[v].amount
    PROVE  /\ Total(Bonded) \in Nat
           /\ Total(Bonded)' = Total(Bonded) - stakes[u].amount + stakes'[u].amount
<1>1. Bonded \in [Users -> Nat] /\ Bonded[u] = stakes[u].amount /\ stakes'[u].amount \in Nat
    BY DEF StakeTypeOK, Bonded
<1>2. Bonded' = [Bonded EXCEPT ![u] = stakes'[u].amount]
    BY DEF Bonded
<1>3. \A f \in [Users -> Nat], n \in Nat :
          /\ Total(f) \in Nat
          /\ Total([f EXCEPT ![u] = n]) = Total(f) - f[u] + n
    <2>1. IsFiniteSet(Users)
        BY AccountsAssumption
    <2> QED BY <2>1, TotalUpdate
<1>4. Total(Bonded)' = Total(Bonded')
    BY DEF Total, Coins
<1> QED BY <1>1, <1>2, <1>3, <1>4

(***************************************************************************)
(* BondsBacked is inductive together with the types: each step takes at    *)
(* most as much from the contract as from the bonds.                       *)
(***************************************************************************)
LEMMA BondsBackedInit == StakeInit => BondsBacked
<1> SUFFICES ASSUME StakeInit PROVE BondsBacked
    OBVIOUS
<1>1. Bonded = [u \in Users |-> 0]
    BY DEF StakeInit, Bonded, NoStake
<1>2. usdc[StakeManagerAddr] = 0
    BY AccountsAssumption DEF StakeInit
<1> QED BY <1>1, <1>2, TotalZero DEF BondsBacked

LEMMA BondsBackedStep ==
    StakeTypeOK /\ BondsBacked /\ [StakeNext]_stakeVars => BondsBacked'
<1> SUFFICES ASSUME StakeTypeOK, BondsBacked, [StakeNext]_stakeVars
             PROVE  BondsBacked'
    OBVIOUS
<1>1. StakeTypeOK'
    BY StakeTypeStep
<1>2. StakeManagerAddr \in Accounts \ Users /\ Users \subseteq Accounts
    BY AccountsAssumption
<1>3. /\ usdc \in [Accounts -> Nat] /\ usdc' \in [Accounts -> Nat]
      /\ \A u \in Users : stakes[u].amount \in Nat /\ stakes'[u].amount \in Nat
      /\ usdc[StakeManagerAddr] \in Nat /\ usdc'[StakeManagerAddr] \in Nat
    BY <1>1, <1>2 DEF StakeTypeOK
<1>4. usdc[StakeManagerAddr] >= Total(Bonded) /\ Total(Bonded)' = Total(Bonded')
    BY DEF BondsBacked, Total, Coins
\* What is left to show of a step that touches one bond only.
<1>5. ASSUME NEW u \in Users,
             \A v \in Users \ {u} : stakes'[v].amount = stakes[v].amount,
             usdc'[StakeManagerAddr] - usdc[StakeManagerAddr]
                >= stakes'[u].amount - stakes[u].amount
      PROVE  BondsBacked'
    <2>1. /\ Total(Bonded) \in Nat
          /\ Total(Bonded)' = Total(Bonded) - stakes[u].amount + stakes'[u].amount
        BY <1>1, <1>5, BondedUpdate
    <2>2. usdc'[StakeManagerAddr] >= Total(Bonded)'
        BY <1>3, <1>4, <1>5, <2>1
    <2> QED BY <2>2 DEF BondsBacked
<1>6. ASSUME UNCHANGED stakes, usdc'[StakeManagerAddr] >= usdc[StakeManagerAddr]
      PROVE  BondsBacked'
    <2>1. Bonded' = Bonded
        BY <1>6 DEF Bonded
    <2>2. CASE Users = {}
        <3>1. Bonded = [u \in Users |-> 0]
            BY <2>2 DEF Bonded
        <3>2. Total(Bonded)' = 0
            BY <1>4, <2>1, <3>1, TotalZero
        <3> QED BY <1>3, <3>2 DEF BondsBacked
    <2>3. CASE Users # {}
        <3>1. PICK u \in Users : TRUE
            BY <2>3
        <3> QED BY <1>3, <1>5, <1>6, <3>1
    <2> QED BY <2>2, <2>3
<1>7. ASSUME NEW u \in Users, NEW amount \in Amounts, Stake(u, amount)
      PROVE  BondsBacked'
    <2>1. stakes'[u].amount = stakes[u].amount + amount
        BY <1>7, StakeTypeOK DEF Stake, StakeTypeOK
    <2>2. usdc'[StakeManagerAddr] = usdc[StakeManagerAddr] + amount
        BY <1>2, <1>3, <1>7, ParametersAssumption, MovedType, SMTT(20) DEF Stake, CanMove
    <2>3. \A v \in Users \ {u} : stakes'[v].amount = stakes[v].amount
        BY <1>7 DEF Stake, StakeTypeOK
    <2> QED BY <1>3, <1>5, <2>1, <2>2, <2>3, ParametersAssumption
<1>8. ASSUME NEW u \in Users, NEW amount \in Amounts, RequestUnstake(u, amount)
      PROVE  BondsBacked'
    <2>1. \A v \in Users : stakes'[v].amount = stakes[v].amount
        BY <1>8 DEF RequestUnstake, StakeTypeOK
    <2>2. usdc' = usdc
        BY <1>8 DEF RequestUnstake
    <2> QED BY <1>3, <1>5, <2>1, <2>2
<1>9. ASSUME NEW u \in Users, NEW amount \in Amounts, Withdraw(u, amount)
      PROVE  BondsBacked'
    <2>1. stakes'[u].amount = stakes[u].amount - amount
        BY <1>9 DEF Withdraw, StakeTypeOK
    <2>2. usdc'[StakeManagerAddr] = usdc[StakeManagerAddr] - amount
        BY <1>2, <1>3, <1>9, ParametersAssumption, MovedType DEF Withdraw, CanMove
    <2>3. \A v \in Users \ {u} : stakes'[v].amount = stakes[v].amount
        BY <1>9 DEF Withdraw, StakeTypeOK
    <2> QED BY <1>3, <1>5, <2>1, <2>2, <2>3, ParametersAssumption
<1>10. ASSUME NEW p \in Users, NEW bp \in SlashBps, NEW c \in Users, Slash(p, bp, c)
       PROVE  BondsBacked'
    <2>1. bp \in Nat /\ c \in Accounts /\ SlashCanPay(p, bp)
        BY <1>2, <1>10, ParametersAssumption DEF Slash, SlashEnabled
    <2>2. usdc'[StakeManagerAddr] >= usdc[StakeManagerAddr] - SlashAmount(p, bp)
        BY <1>10, <2>1, SlashPaidType DEF Slash
    <2>3. stakes'[p].amount = stakes[p].amount - SlashAmount(p, bp)
        BY <1>10 DEF Slash, StakesAfterSlash, StakeTypeOK
    <2>4. \A v \in Users \ {p} : stakes'[v].amount = stakes[v].amount
        BY <1>10 DEF Slash, StakesAfterSlash, StakeTypeOK
    <2>5. SlashAmount(p, bp) \in Nat
        BY <1>3, <2>1, SlashBounds
    <2> QED BY <1>3, <1>5, <2>2, <2>3, <2>4, <2>5
<1>11. ASSUME NEW u \in Users, NEW amount \in Amounts, PlainTransfer(u, amount)
       PROVE  BondsBacked'
    <2>1. usdc'[StakeManagerAddr] = usdc[StakeManagerAddr] + amount
        BY <1>2, <1>3, <1>11, ParametersAssumption, MovedType, SMTT(20) DEF PlainTransfer, CanMove
    <2>2. usdc'[StakeManagerAddr] >= usdc[StakeManagerAddr]
        BY <1>3, <2>1, ParametersAssumption
    <2> QED BY <1>6, <1>11, <2>2 DEF PlainTransfer
<1>12. CASE StakeAdminStep \/ Tick \/ UNCHANGED stakeVars
    <2>1. UNCHANGED <<usdc, stakes>>
        BY <1>12 DEF StakeAdminStep, SetTreasury, SetProtocolSlashBp, SetWithdrawCooldown,
                     SetMinimumStakeRequired, Tick, stakeVars
    <2> QED BY <1>3, <1>6, <2>1
<1> QED BY <1>7, <1>8, <1>9, <1>10, <1>11, <1>12 DEF StakeNext, UserStakeStep

(***************************************************************************)
(* The contract can always pay out the sum of all bonds, whatever the      *)
(* number of users and the amounts, rates and rotations of the treasury.   *)
(***************************************************************************)
THEOREM StakesAreBacked == StakeSpec => []BondsBacked
<1>1. StakeInit => StakeTypeOK /\ BondsBacked
    BY StakeTypeInit, BondsBackedInit
<1>2. StakeTypeOK /\ BondsBacked /\ [StakeNext]_stakeVars => (StakeTypeOK /\ BondsBacked)'
    BY StakeTypeStep, BondsBackedStep
<1> QED BY <1>1, <1>2, PTL DEF StakeSpec

-----------------------------------------------------------------------------
(***************************************************************************)
(* The contracts and the workflow.                                         *)
(***************************************************************************)

(***************************************************************************)
(* Elements of a sequence after one more was appended.                     *)
(***************************************************************************)
LEMMA AppendKeeps ==
    ASSUME NEW S, NEW s \in Seq(S), NEW e \in S
    PROVE  /\ Append(s, e) \in Seq(S)
           /\ Len(Append(s, e)) = Len(s) + 1
           /\ Len(s) \in Nat
           /\ \A i \in 1 .. Len(s) : Append(s, e)[i] = s[i]
           /\ Append(s, e)[Len(s) + 1] = e
    BY AppendProperties

-----------------------------------------------------------------------------
(***************************************************************************)
(* What the settlement of a challenge does to the ledger and the bonds.    *)
(***************************************************************************)
LEMMA SettleType ==
    ASSUME EnforcementTypeOK, NEW id \in ChallengeIds,
           SettleValid(id) \/ SettleInvalid(id)
    PROVE  /\ Challenged(id) \in Users
           /\ usdc' \in [Accounts -> Nat]
           /\ stakes' \in [Users -> [amount : Nat, unlockTimestamp : Nat]]
           /\ usdc'[StakeManagerAddr] - usdc[StakeManagerAddr]
                 >= stakes'[Challenged(id)].amount - stakes[Challenged(id)].amount
           /\ \A v \in Users \ {Challenged(id)} : stakes'[v] = stakes[v]
<1> DEFINE p == Challenged(id)
           c == challenges[id].challenger
<1>1. challenges[id] \in [challenger : Users, endpointId : DOMAIN endpoints, status : Statuses]
    BY ElementOfSeq DEF EnforcementTypeOK, ChallengeTypeOK, ChallengeIds
<1>2. p \in Users /\ c \in Users
    BY <1>1 DEF EnforcementTypeOK, RegistryTypeOK, Challenged
<1>3. /\ Users \subseteq Accounts
      /\ StakeManagerAddr \in Accounts \ Users
      /\ ChallengeManagerAddr \in Accounts \ (Users \cup {StakeManagerAddr})
    BY AccountsAssumption, ChallengeAssumption
<1>4. StakeTypeOK /\ challengeFee \in Nat /\ slashBp \in Nat
    BY DEF EnforcementTypeOK, ChallengeTypeOK
<1>5. /\ usdc \in [Accounts -> Nat]
      /\ stakes \in [Users -> [amount : Nat, unlockTimestamp : Nat]]
      /\ usdc[StakeManagerAddr] \in Nat
    BY <1>3, <1>4 DEF StakeTypeOK
<1>6. CASE SettleValid(id)
    <2>1. /\ usdc[ChallengeManagerAddr] >= challengeFee
          /\ usdc' = Moved(usdc, ChallengeManagerAddr, p, challengeFee)
          /\ stakes' = stakes
        BY <1>6 DEF SettleValid, CanMove
    <2>2. usdc' \in [Accounts -> Nat]
        BY <1>2, <1>3, <1>4, <1>5, <2>1, MovedType
    <2>3. usdc'[StakeManagerAddr] = usdc[StakeManagerAddr]
        BY <1>2, <1>3, <1>5, <2>1 DEF Moved
    <2>4. stakes'[p].amount = stakes[p].amount /\ stakes[p].amount \in Nat
        BY <1>2, <1>5, <2>1
    <2> QED BY <1>2, <1>5, <2>1, <2>2, <2>3, <2>4
<1>7. CASE SettleInvalid(id)
    <2> DEFINE slashed == SlashPaid(p, slashBp, c)
    <2>1. /\ SlashEnabled(p, slashBp)
          /\ slashed[ChallengeManagerAddr] >= challengeFee
          /\ usdc' = Moved(slashed, ChallengeManagerAddr, c, challengeFee)
          /\ stakes' = StakesAfterSlash(p, slashBp)
        BY <1>7 DEF SettleInvalid, CanMove
    <2>2. /\ slashed \in [Accounts -> Nat]
          /\ slashed[StakeManagerAddr] >= usdc[StakeManagerAddr] - SlashAmount(p, slashBp)
        BY <1>2, <1>3, <1>4, <2>1, SlashPaidType DEF SlashEnabled
    <2> HIDE DEF slashed
    <2>3. usdc' \in [Accounts -> Nat]
        BY <1>2, <1>3, <1>4, <2>1, <2>2, MovedType
    <2>4. usdc'[StakeManagerAddr] = slashed[StakeManagerAddr]
        BY <1>2, <1>3, <2>1, <2>2 DEF Moved
    <2>5. SlashAmount(p, slashBp) \in 0 .. stakes[p].amount /\ stakes[p].amount \in Nat
        BY <1>2, <1>4, <1>5, SlashBounds
    <2>6. /\ stakes'[p].amount = stakes[p].amount - SlashAmount(p, slashBp)
          /\ \A v \in Users \ {p} : stakes'[v] = stakes[v]
          /\ stakes' \in [Users -> [amount : Nat, unlockTimestamp : Nat]]
        BY <1>2, <1>5, <2>1, <2>5 DEF StakesAfterSlash
    <2>7. usdc'[StakeManagerAddr] \in Nat
        BY <1>3, <2>3
    <2> QED BY <1>2, <1>5, <2>2, <2>3, <2>4, <2>5, <2>6, <2>7
<1> QED BY <1>6, <1>7

(***************************************************************************)
(* Registration and updates keep the registry typed, forget no endpoint    *)
(* and leave the owner of a provider what it was.                          *)
(***************************************************************************)
LEMMA RegistryStepType ==
    ASSUME RegistryTypeOK, StakeTypeOK, RegistryStep
    PROVE  /\ RegistryTypeOK'
           /\ DOMAIN endpoints \subseteq DOMAIN endpoints'
           /\ \A id \in ProviderIds : id \in ProviderIds' /\ providers'[id].owner = providers[id].owner
<1> DEFINE P == [owner : Users, revenueSplitter : Splitters]
           E == [provider : Users, integrityHash : Hashes,
                 version : Nat \ {0}, lastCheckedAt : Nat]
<1>1. /\ providers \in Seq(P) /\ Len(providers) \in Nat /\ Len(providers) <= MaxProviders
      /\ DOMAIN endpoints \subseteq ProviderIds \X Resources
      /\ \A eid \in DOMAIN endpoints : endpoints[eid] \in E
      /\ stakeManagerSet \in BOOLEAN /\ now \in Nat
    BY LenProperties DEF RegistryTypeOK, StakeTypeOK
<1>2. \A id \in ProviderIds : providers[id] \in P
    BY <1>1, ElementOfSeq DEF ProviderIds
<1>3. ASSUME NEW u \in Users, NEW s \in Splitters, RegisterProvider(u, s)
      PROVE  /\ RegistryTypeOK'
             /\ DOMAIN endpoints \subseteq DOMAIN endpoints'
             /\ \A id \in ProviderIds : /\ id \in ProviderIds'
                                        /\ providers'[id].owner = providers[id].owner
    <2> DEFINE e == [owner |-> u, revenueSplitter |-> s]
    <2>1. /\ Len(providers) < MaxProviders /\ providers' = Append(providers, e)
          /\ endpoints' = endpoints /\ stakeManagerSet' = stakeManagerSet
        BY <1>3 DEF RegisterProvider
    <2>2. /\ providers' \in Seq(P) /\ Len(providers') = Len(providers) + 1
          /\ \A i \in 1 .. Len(providers) : providers'[i] = providers[i]
        <3>1. e \in P
            OBVIOUS
        <3> HIDE DEF P, e
        <3> QED BY <1>1, <2>1, <3>1, AppendKeeps
    <2>3. MaxProviders \in Nat
        BY RegistryAssumption
    <2>4. ProviderIds \subseteq ProviderIds'
        BY <1>1, <2>2 DEF ProviderIds
    <2>5. RegistryTypeOK'
        BY <1>1, <2>1, <2>2, <2>3, <2>4 DEF RegistryTypeOK, Hashes
    <2> QED BY <2>1, <2>2, <2>4, <2>5 DEF ProviderIds
<1>4. ASSUME NEW u \in Users, NEW id \in ProviderIds, NEW s \in Splitters, UpdateProvider(u, id, s)
      PROVE  /\ RegistryTypeOK'
             /\ DOMAIN endpoints \subseteq DOMAIN endpoints'
             /\ \A i \in ProviderIds : /\ i \in ProviderIds'
                                       /\ providers'[i].owner = providers[i].owner
    <2> DEFINE e == [providers[id] EXCEPT !.revenueSplitter = s]
    <2>1. /\ providers' = [providers EXCEPT ![id] = e]
          /\ endpoints' = endpoints /\ stakeManagerSet' = stakeManagerSet
        BY <1>4 DEF UpdateProvider
    <2>2. e \in P /\ e.owner = providers[id].owner
        BY <1>2
    <2>3. /\ providers' \in Seq(P) /\ Len(providers') = Len(providers)
          /\ \A j \in 1 .. Len(providers) : providers'[j] = IF j = id THEN e ELSE providers[j]
        <3> HIDE DEF P, e
        <3> QED BY <1>1, <2>1, <2>2, ExceptSeq DEF ProviderIds
    <2>4. ProviderIds' = ProviderIds
        BY <2>3 DEF ProviderIds
    <2>5. RegistryTypeOK'
        BY <1>1, <2>1, <2>3, <2>4 DEF RegistryTypeOK, Hashes
    <2> QED BY <2>1, <2>2, <2>3, <2>4, <2>5 DEF ProviderIds
<1>5. ASSUME NEW u \in Users, NEW id \in ProviderIds, NEW r \in Resources, NEW payTo,
             NEW t \in Terms, RegisterEndpoint(u, id, r, payTo, t) \/ UpdateEndpoint(u, id, r, payTo, t)
      PROVE  /\ RegistryTypeOK'
             /\ DOMAIN endpoints \subseteq DOMAIN endpoints'
             /\ providers' = providers
    <2>1. providers[id].revenueSplitter \in Splitters
        BY <1>2
    <2>2. Hash(t, providers[id].revenueSplitter) \in Hashes
        BY <2>1 DEF Hash, Hashes
    <2>3. providers' = providers /\ stakeManagerSet' = stakeManagerSet /\ ProviderIds' = ProviderIds
        BY <1>5 DEF RegisterEndpoint, UpdateEndpoint, ProviderIds
    <2>4. CASE RegisterEndpoint(u, id, r, payTo, t)
        <3> DEFINE e == [provider |-> u,
                         integrityHash |-> Hash(t, providers[id].revenueSplitter),
                         version |-> 1, lastCheckedAt |-> now]
        <3>1. endpoints' = [x \in DOMAIN endpoints \cup {<<id, r>>} |->
                               IF x = <<id, r>> THEN e ELSE endpoints[x]]
            BY <2>4 DEF RegisterEndpoint
        <3>2. e \in E
            BY <1>1, <2>2
        <3>3. DOMAIN endpoints' = DOMAIN endpoints \cup {<<id, r>>}
            BY <3>1
        <3>4. DOMAIN endpoints' \subseteq ProviderIds \X Resources
            BY <1>1, <3>3
        <3> HIDE DEF e, E
        <3>5. \A x \in DOMAIN endpoints' : endpoints'[x] \in E
            BY <1>1, <3>1, <3>2, <3>3
        <3> USE DEF E
        <3> QED BY <1>1, <2>3, <3>3, <3>4, <3>5 DEF RegistryTypeOK, Hashes
    <2>5. CASE UpdateEndpoint(u, id, r, payTo, t)
        <3> DEFINE old == endpoints[<<id, r>>]
                   e == [old EXCEPT !.integrityHash = Hash(t, providers[id].revenueSplitter),
                                    !.version = @ + 1]
        <3>1. <<id, r>> \in DOMAIN endpoints /\ endpoints' = [endpoints EXCEPT ![<<id, r>>] = e]
            BY <2>5 DEF UpdateEndpoint
        <3>2. e \in E
            <4>1. old \in E
                BY <1>1, <3>1
            <4>2. \A o \in E, h \in Hashes :
                      [o EXCEPT !.integrityHash = h, !.version = @ + 1] \in E
                <5> TAKE o \in E, h \in Hashes
                <5>1. o.version + 1 \in Nat \ {0}
                    OBVIOUS
                <5>2. \A n \in Nat \ {0} : [o EXCEPT !.integrityHash = h, !.version = n] \in E
                    OBVIOUS
                <5> QED BY <5>1, <5>2
            <4> HIDE DEF E, old
            <4> QED BY <2>2, <4>1, <4>2
        <3> HIDE DEF e, E, old
        <3>3. DOMAIN endpoints' = DOMAIN endpoints
            BY <3>1
        <3>4. \A x \in DOMAIN endpoints' : endpoints'[x] \in E
            BY <1>1, <3>1, <3>2, <3>3
        <3> USE DEF E
        <3> QED BY <1>1, <2>3, <3>3, <3>4 DEF RegistryTypeOK, Hashes
    <2> QED BY <1>5, <2>3, <2>4, <2>5
<1>6. ASSUME NEW set \in StakeManagerWiring, SetStakeManager(set)
      PROVE  RegistryTypeOK' /\ endpoints' = endpoints /\ providers' = providers
    <2>1. providers' = providers /\ endpoints' = endpoints /\ stakeManagerSet' \in BOOLEAN
        BY <1>6, WiringAssumption DEF SetStakeManager
    <2>2. ProviderIds' = ProviderIds
        BY <2>1 DEF ProviderIds
    <2> QED BY <1>1, <2>1, <2>2 DEF RegistryTypeOK, Hashes
<1>7. providers' = providers => ProviderIds' = ProviderIds
    BY DEF ProviderIds
<1> QED BY <1>3, <1>4, <1>5, <1>6, <1>7 DEF RegistryStep

(***************************************************************************)
(* The challenge manager's part of the types in a step that leaves its     *)
(* challenges alone and forgets no endpoint.                               *)
(***************************************************************************)
LEMMA ChallengesKept ==
    ASSUME ChallengeTypeOK, UNCHANGED <<challenges, opened>>,
           challengeFee' \in Nat, slashBp' \in Nat,
           DOMAIN endpoints \subseteq DOMAIN endpoints'
    PROVE  ChallengeTypeOK'
<1> DEFINE C(D) == [challenger : Users, endpointId : D, status : Statuses]
           O(D) == [endpointId : D, revenueSplitter : Splitters, integrityHash : Hashes]
<1>1. /\ challenges \in Seq(C(DOMAIN endpoints)) /\ opened \in Seq(O(DOMAIN endpoints))
      /\ Len(opened) = Len(challenges)
    BY DEF ChallengeTypeOK
<1>2. /\ C(DOMAIN endpoints) \subseteq C(DOMAIN endpoints')
      /\ O(DOMAIN endpoints) \subseteq O(DOMAIN endpoints')
    OBVIOUS
<1>3. challenges' \in Seq(C(DOMAIN endpoints')) /\ opened' \in Seq(O(DOMAIN endpoints'))
    <2> HIDE DEF C, O
    <2> QED BY <1>1, <1>2, SeqMonotonic
<1> QED BY <1>1, <1>3 DEF ChallengeTypeOK, Hashes, Statuses

(***************************************************************************)
(* openChallenge adds one pending challenge and its event.                 *)
(***************************************************************************)
LEMMA OpenEffect ==
    ASSUME EnforcementTypeOK, NEW u \in Users, NEW eid, OpenStep(u, eid)
    PROVE  LET n == Len(challenges) + 1
           IN  /\ EnforcementTypeOK'
               /\ n \in Nat \ {0} /\ ChallengeIds' = 1 .. n /\ ChallengeIds = 1 .. n - 1
               /\ \A id \in ChallengeIds : /\ challenges'[id] = challenges[id]
                                           /\ opened'[id] = opened[id]
                                           /\ clean'[id] = clean[id]
               /\ challenges'[n].status = "Pending"
               /\ clean'[n] = Passes(opened'[n], served[opened'[n].endpointId[2]])
               /\ usdc'[StakeManagerAddr] = usdc[StakeManagerAddr]
<1> DEFINE n == Len(challenges) + 1
           c == [challenger |-> u, endpointId |-> eid, status |-> "Pending"]
           o == [endpointId |-> eid,
                 revenueSplitter |-> providers[eid[1]].revenueSplitter,
                 integrityHash |-> endpoints[eid].integrityHash]
           C == [challenger : Users, endpointId : DOMAIN endpoints, status : Statuses]
           O == [endpointId : DOMAIN endpoints, revenueSplitter : Splitters, integrityHash : Hashes]
<1>1. /\ StakeTypeOK /\ RegistryTypeOK /\ ChallengeTypeOK /\ WorkflowTypeOK
      /\ clean \in [ChallengeIds -> BOOLEAN]
    BY DEF EnforcementTypeOK
<1>2. /\ challenges \in Seq(C) /\ opened \in Seq(O) /\ Len(opened) = Len(challenges)
      /\ challengeFee \in Nat /\ slashBp \in Nat
    BY <1>1 DEF ChallengeTypeOK
<1>3. /\ eid \in DOMAIN endpoints
      /\ usdc[u] >= challengeFee
      /\ usdc' = Moved(usdc, u, ChallengeManagerAddr, challengeFee)
      /\ challenges' = Append(challenges, c)
      /\ opened' = Append(opened, o)
      /\ UNCHANGED <<now, stakes, stakeParams, registryVars, challengeParams, workflowVars>>
      /\ clean' = Append(clean, Passes(opened'[Len(opened')], served[eid[2]]))
    BY DEF OpenStep, OpenChallenge, CanMove
<1>4. eid[1] \in ProviderIds /\ endpoints[eid].integrityHash \in Hashes
    BY <1>1, <1>3 DEF RegistryTypeOK
<1>5. providers[eid[1]].revenueSplitter \in Splitters
    <2>1. providers[eid[1]] \in [owner : Users, revenueSplitter : Splitters]
        <3>1. providers \in Seq([owner : Users, revenueSplitter : Splitters])
            BY <1>1 DEF RegistryTypeOK
        <3> QED BY <1>4, <3>1, ElementOfSeq DEF ProviderIds
    <2> QED BY <2>1
<1>6. c \in C /\ o \in O /\ c.status = "Pending" /\ o.endpointId = eid
    BY <1>3, <1>4, <1>5 DEF Statuses
<1> HIDE DEF c, o, C, O
<1>7. /\ challenges' \in Seq(C) /\ Len(challenges') = n /\ n \in Nat \ {0}
      /\ \A id \in 1 .. n - 1 : challenges'[id] = challenges[id]
      /\ challenges'[n] = c
    BY <1>2, <1>3, <1>6, AppendKeeps
<1>8. /\ opened' \in Seq(O) /\ Len(opened') = n
      /\ \A id \in 1 .. n - 1 : opened'[id] = opened[id]
      /\ opened'[n] = o
    BY <1>2, <1>3, <1>6, AppendKeeps
<1>9. ChallengeIds = 1 .. n - 1 /\ ChallengeIds' = 1 .. n
    BY <1>2, <1>7, LenProperties DEF ChallengeIds
<1>10. /\ clean' \in [1 .. n -> BOOLEAN]
       /\ \A id \in 1 .. n - 1 : clean'[id] = clean[id]
       /\ clean'[n] = Passes(opened'[n], served[eid[2]])
    <2> DEFINE b == Passes(opened'[n], served[eid[2]])
    <2>1. b \in BOOLEAN
        BY DEF Passes
    <2>2. clean \in Seq(BOOLEAN) /\ Len(clean) = n - 1
        BY <1>1, <1>7, <1>9
    <2>3. clean' = Append(clean, b)
        BY <1>3, <1>8
    <2> HIDE DEF b
    <2>4. /\ clean' \in Seq(BOOLEAN) /\ Len(clean') = n
          /\ \A id \in 1 .. n - 1 : clean'[id] = clean[id]
          /\ clean'[n] = b
        BY <1>7, <2>1, <2>2, <2>3, AppendKeeps
    <2>5. clean' \in [1 .. n -> BOOLEAN]
        BY <2>4, LenProperties
    <2> QED BY <2>4, <2>5 DEF b
<1>11. /\ ChallengeManagerAddr \in Accounts \ {StakeManagerAddr}
       /\ StakeManagerAddr \in Accounts
       /\ u \in Accounts /\ u # StakeManagerAddr
    BY AccountsAssumption, ChallengeAssumption
<1>12. usdc \in [Accounts -> Nat]
    BY <1>1 DEF StakeTypeOK
<1>13. usdc' \in [Accounts -> Nat] /\ usdc'[StakeManagerAddr] = usdc[StakeManagerAddr]
    <2>1. usdc' \in [Accounts -> Nat]
        BY <1>2, <1>3, <1>11, <1>12, MovedType
    <2>2. usdc'[StakeManagerAddr] = usdc[StakeManagerAddr]
        BY <1>3, <1>11, <1>12 DEF Moved
    <2> QED BY <2>1, <2>2
<1>14. StakeTypeOK'
    BY <1>1, <1>3, <1>13 DEF StakeTypeOK, stakeParams
<1>15. RegistryTypeOK' /\ endpoints' = endpoints
    BY <1>1, <1>3 DEF RegistryTypeOK, registryVars, ProviderIds, Hashes
<1>16. ChallengeTypeOK'
    <2> USE DEF C, O
    <2> QED BY <1>2, <1>3, <1>7, <1>8, <1>15
            DEF ChallengeTypeOK, challengeParams, Hashes, Statuses
<1>17. WorkflowTypeOK'
    <2>1. /\ served' = served /\ reports' = reports
          /\ \A id \in 1 .. n - 1 : id \in 1 .. n
        BY <1>3, <1>7 DEF workflowVars
    <2> QED BY <1>1, <1>9, <2>1 DEF WorkflowTypeOK, Responses, Hashes
<1> QED BY <1>6, <1>7, <1>8, <1>9, <1>10, <1>13, <1>14, <1>15, <1>16, <1>17 DEF EnforcementTypeOK

(***************************************************************************)
(* onReport settles one pending challenge that a report speaks of; of the  *)
(* registry it touches no more than a timestamp.                           *)
(***************************************************************************)
LEMMA ReportEffect ==
    ASSUME EnforcementTypeOK, NEW rep \in reports,
           OnReport(CREForwarder, rep.id, rep.result), UNCHANGED <<workflowVars, clean>>
    PROVE  /\ EnforcementTypeOK'
           /\ rep.id \in ChallengeIds /\ Pending(rep.id) /\ rep.result \in {0, 1}
           /\ ChallengeIds' = ChallengeIds
           /\ challenges' = [challenges EXCEPT
                  ![rep.id].status = IF rep.result = 1 THEN "Valid" ELSE "Invalid"]
           /\ providers' = providers
           /\ DOMAIN endpoints' = DOMAIN endpoints
           /\ \A eid \in DOMAIN endpoints : endpoints'[eid].provider = endpoints[eid].provider
<1> DEFINE C == [challenger : Users, endpointId : DOMAIN endpoints, status : Statuses]
           E == [provider : Users, integrityHash : Hashes,
                 version : Nat \ {0}, lastCheckedAt : Nat]
           id == rep.id
           eid == challenges[id].endpointId
           c == [challenges[id] EXCEPT !.status = IF rep.result = 1 THEN "Valid" ELSE "Invalid"]
           e == [endpoints[eid] EXCEPT !.lastCheckedAt = now]
<1>1. /\ StakeTypeOK /\ RegistryTypeOK /\ ChallengeTypeOK /\ WorkflowTypeOK
      /\ clean \in [ChallengeIds -> BOOLEAN]
    BY DEF EnforcementTypeOK
<1>2. challenges \in Seq(C) /\ \A x \in DOMAIN endpoints : endpoints[x] \in E
    BY <1>1 DEF ChallengeTypeOK, RegistryTypeOK
<1>3. rep.id \in ChallengeIds /\ rep.result \in {0, 1}
    BY <1>1 DEF WorkflowTypeOK
<1>4. /\ Pending(id)
      /\ SettleValid(id) \/ SettleInvalid(id)
      /\ challenges' = [challenges EXCEPT ![id] = c]
      /\ endpoints' = [endpoints EXCEPT ![eid] = e]
      /\ UNCHANGED <<now, stakeParams, providers, stakeManagerSet, opened, challengeParams>>
      /\ UNCHANGED <<workflowVars, clean>>
    BY DEF OnReport, Checked
<1>5. challenges[id] \in C
    BY <1>2, <1>3, ElementOfSeq DEF ChallengeIds
<1>6. c \in C
    BY <1>5 DEF Statuses
<1>7. eid \in DOMAIN endpoints /\ now \in Nat
    BY <1>1, <1>5 DEF StakeTypeOK
<1>8. e \in E /\ e.provider = endpoints[eid].provider
    <2>1. endpoints[eid] \in E
        BY <1>2, <1>7
    <2> QED BY <1>7, <2>1
<1>9. challenges' \in Seq(C) /\ Len(challenges') = Len(challenges)
    <2> HIDE DEF C, c, id
    <2> QED BY <1>2, <1>3, <1>4, <1>6, ExceptSeq DEF ChallengeIds, id
<1>10. ChallengeIds' = ChallengeIds
    BY <1>9 DEF ChallengeIds
<1>11. /\ DOMAIN endpoints' = DOMAIN endpoints
       /\ \A x \in DOMAIN endpoints : endpoints'[x] \in E /\ endpoints'[x].provider = endpoints[x].provider
    <2> HIDE DEF E, e, eid
    <2> QED BY <1>2, <1>4, <1>7, <1>8
<1>12. StakeTypeOK'
    <2>1. /\ usdc' \in [Accounts -> Nat]
          /\ stakes' \in [Users -> [amount : Nat, unlockTimestamp : Nat]]
        BY <1>3, <1>4, SettleType
    <2> QED BY <1>1, <1>4, <2>1 DEF StakeTypeOK, stakeParams
<1>13. RegistryTypeOK'
    BY <1>1, <1>4, <1>11 DEF RegistryTypeOK, ProviderIds, Hashes
<1>14. ChallengeTypeOK'
    <2>1. /\ opened' = opened /\ challengeFee' = challengeFee /\ slashBp' = slashBp
        BY <1>4 DEF challengeParams
    <2> QED BY <1>1, <1>9, <1>11, <2>1 DEF ChallengeTypeOK, Hashes, Statuses
<1>15. WorkflowTypeOK'
    <2>1. served' = served /\ reports' = reports
        BY <1>4 DEF workflowVars
    <2> QED BY <1>1, <1>10, <2>1 DEF WorkflowTypeOK, Responses, Hashes
<1>16. clean' \in [ChallengeIds' -> BOOLEAN]
    BY <1>1, <1>4, <1>10
<1>17. EnforcementTypeOK'
    BY <1>12, <1>13, <1>14, <1>15, <1>16 DEF EnforcementTypeOK
<1> QED BY <1>3, <1>4, <1>10, <1>11, <1>17

-----------------------------------------------------------------------------
(***************************************************************************)
(* The state of Layer 0 is well typed in every reachable state.            *)
(***************************************************************************)
LEMMA EnforcementTypeInit == EnforcementInit => EnforcementTypeOK
<1> SUFFICES ASSUME EnforcementInit PROVE EnforcementTypeOK
    OBVIOUS
<1>1. StakeTypeOK
    BY StakeTypeInit DEF EnforcementInit
<1>2. RegistryTypeOK
    BY RegistryAssumption, EmptySeq DEF EnforcementInit, RegistryInit, RegistryTypeOK
<1>3. ChallengeTypeOK /\ ChallengeIds = {}
    <2>1. Len(<<>>) = 0 /\ \A S : <<>> \in Seq(S)
        BY EmptySeq
    <2>2. challenges = <<>> /\ opened = <<>> /\ challengeFee \in Nat /\ slashBp \in Nat
        BY ChallengeAssumption, ParametersAssumption DEF EnforcementInit, ChallengeInit
    <2> QED BY <2>1, <2>2 DEF ChallengeTypeOK, ChallengeIds
<1>4. WorkflowTypeOK
    BY DEF EnforcementInit, WorkflowInit, WorkflowTypeOK, Responses
<1>5. clean \in [ChallengeIds -> BOOLEAN]
    BY <1>3 DEF EnforcementInit
<1> QED BY <1>1, <1>2, <1>3, <1>4, <1>5 DEF EnforcementTypeOK

LEMMA EnforcementTypeStep ==
    ASSUME EnforcementTypeOK, [EnforcementNext]_enforcementVars
    PROVE  EnforcementTypeOK'
<1>1. /\ StakeTypeOK /\ RegistryTypeOK /\ ChallengeTypeOK /\ WorkflowTypeOK
      /\ clean \in [ChallengeIds -> BOOLEAN]
    BY DEF EnforcementTypeOK
<1>2. ASSUME UNCHANGED stakeVars
      PROVE  StakeTypeOK'
    BY <1>1, <1>2, StakeTypeStep
<1>3. ASSUME UNCHANGED registryVars
      PROVE  RegistryTypeOK' /\ endpoints' = endpoints
    BY <1>1, <1>3 DEF registryVars, RegistryTypeOK, ProviderIds, Hashes
<1>4. ASSUME UNCHANGED challengeVars, DOMAIN endpoints \subseteq DOMAIN endpoints'
      PROVE  ChallengeTypeOK' /\ ChallengeIds' = ChallengeIds
    <2>1. UNCHANGED <<challenges, opened>> /\ challengeFee' \in Nat /\ slashBp' \in Nat
        BY <1>1, <1>4 DEF challengeVars, challengeParams, ChallengeTypeOK
    <2> QED BY <1>1, <1>4, <2>1, ChallengesKept DEF ChallengeIds
<1>5. ASSUME UNCHANGED <<workflowVars, clean>>, ChallengeIds' = ChallengeIds
      PROVE  WorkflowTypeOK' /\ clean' \in [ChallengeIds' -> BOOLEAN]
    BY <1>1, <1>5 DEF workflowVars, WorkflowTypeOK, Responses, Hashes
<1>6. CASE StakingStep
    <2>1. StakeTypeOK'
        BY <1>1, <1>6, StakeTypeStep DEF StakingStep, StakeNext
    <2> QED BY <1>3, <1>4, <1>5, <1>6, <2>1 DEF StakingStep, EnforcementTypeOK
<1>7. CASE RegistryStep
    <2>1. RegistryTypeOK' /\ DOMAIN endpoints \subseteq DOMAIN endpoints'
        BY <1>1, <1>7, RegistryStepType
    <2> QED BY <1>2, <1>4, <1>5, <1>7, <2>1 DEF RegistryStep, EnforcementTypeOK
<1>8. CASE ChallengeAdminStep
    <2>1. /\ UNCHANGED <<stakeVars, registryVars, workflowVars, clean, challenges, opened>>
          /\ challengeFee' \in Nat /\ slashBp' \in Nat
        BY <1>1, <1>8, ChallengeAssumption, ParametersAssumption
           DEF ChallengeAdminStep, SetForwarder, SetChallengeFee, SetSlashBp, ChallengeTypeOK
    <2>2. endpoints' = endpoints
        BY <2>1 DEF registryVars
    <2>3. ChallengeTypeOK' /\ ChallengeIds' = ChallengeIds
        BY <1>1, <2>1, <2>2, ChallengesKept DEF ChallengeIds
    <2> QED BY <1>2, <1>3, <1>5, <2>1, <2>3 DEF EnforcementTypeOK
<1>9. ASSUME NEW u \in Users, NEW eid \in EndpointIds, OpenStep(u, eid)
      PROVE  EnforcementTypeOK'
    BY <1>9, OpenEffect
<1>10. ASSUME NEW r \in Resources, NEW response \in Responses, ServeStep(r, response)
       PROVE  EnforcementTypeOK'
    <2>1. UNCHANGED <<stakeVars, registryVars, challengeVars, reports>>
        BY <1>10 DEF ServeStep, Serve
    <2>2. ChallengeTypeOK' /\ ChallengeIds' = ChallengeIds
        BY <1>3, <1>4, <2>1
    <2>3. served' \in [Resources -> Responses]
        BY <1>1, <1>10 DEF ServeStep, Serve, WorkflowTypeOK
    <2>4. WorkflowTypeOK'
        BY <1>1, <2>1, <2>2, <2>3 DEF WorkflowTypeOK, Responses, Hashes
    <2>5. clean' \in [ChallengeIds -> BOOLEAN]
        <3>1. \A id \in ChallengeIds :
                  (clean[id] /\ (opened[id].endpointId[2] = r => Passes(opened[id], response))) \in BOOLEAN
            OBVIOUS
        <3> QED BY <1>10, <3>1, Zenon DEF ServeStep
    <2> QED BY <1>2, <1>3, <2>1, <2>2, <2>4, <2>5 DEF EnforcementTypeOK
<1>11. ASSUME NEW id \in ChallengeIds, VerifyStep(id)
       PROVE  EnforcementTypeOK'
    <2>1. UNCHANGED <<stakeVars, registryVars, challengeVars, clean, served>>
        BY <1>11 DEF VerifyStep, Verify
    <2>2. ChallengeTypeOK' /\ ChallengeIds' = ChallengeIds
        BY <1>3, <1>4, <2>1
    <2>3. reports' \subseteq [id : ChallengeIds, result : {0, 1}]
        BY <1>1, <1>11 DEF VerifyStep, Verify, Verdict, WorkflowTypeOK
    <2>4. WorkflowTypeOK'
        BY <1>1, <2>1, <2>2, <2>3 DEF WorkflowTypeOK, Responses, Hashes
    <2> QED BY <1>1, <1>2, <1>3, <2>1, <2>2, <2>4 DEF EnforcementTypeOK
<1>12. CASE DeliverStep
    BY <1>12, ReportEffect DEF DeliverStep
<1>13. CASE UNCHANGED enforcementVars
    <2>1. UNCHANGED <<stakeVars, registryVars, challengeVars, workflowVars, clean>>
        BY <1>13 DEF enforcementVars
    <2> QED BY <1>2, <1>3, <1>4, <1>5, <2>1 DEF EnforcementTypeOK
<1> QED BY <1>6, <1>7, <1>8, <1>9, <1>10, <1>11, <1>12, <1>13 DEF EnforcementNext

(***************************************************************************)
(* Bonds, ledger, registry, challenges, reports keep their types whatever  *)
(* is called in whatever order: no balance or bond goes below zero, and    *)
(* every challenge and report speaks of something that exists.             *)
(***************************************************************************)
THEOREM EnforcementTypeCorrect == EnforcementSpec => []EnforcementTypeOK
    BY EnforcementTypeInit, EnforcementTypeStep, PTL DEF EnforcementSpec

-----------------------------------------------------------------------------
(***************************************************************************)
(* The account an endpoint is paid and slashed on owns the provider        *)
(* record: an endpoint takes its provider from the caller, who is checked  *)
(* against the record, and no update changes either.                       *)
(***************************************************************************)
LEMMA EndpointsOwnedStep ==
    ASSUME EnforcementTypeOK, EndpointsOwned, [EnforcementNext]_enforcementVars
    PROVE  EndpointsOwned'
<1>1. /\ StakeTypeOK /\ RegistryTypeOK
      /\ DOMAIN endpoints \subseteq ProviderIds \X Resources
    BY DEF EnforcementTypeOK, RegistryTypeOK
<1>2. ASSUME UNCHANGED registryVars
      PROVE  EndpointsOwned'
    BY <1>2 DEF registryVars, EndpointsOwned
<1>3. CASE RegistryStep
    <2>1. \A id \in ProviderIds : providers'[id].owner = providers[id].owner
        BY <1>1, <1>3, RegistryStepType
    <2>2. ASSUME NEW u \in Users, NEW id \in ProviderIds, NEW r \in Resources, NEW payTo,
                 NEW t \in Terms, RegisterEndpoint(u, id, r, payTo, t)
          PROVE  EndpointsOwned'
        BY <1>1, <2>1, <2>2 DEF RegisterEndpoint, EndpointsOwned
    <2>3. ASSUME NEW u \in Users, NEW id \in ProviderIds, NEW r \in Resources, NEW payTo,
                 NEW t \in Terms, UpdateEndpoint(u, id, r, payTo, t)
          PROVE  EndpointsOwned'
        <3>1. /\ DOMAIN endpoints' = DOMAIN endpoints
              /\ \A eid \in DOMAIN endpoints : endpoints'[eid].provider = endpoints[eid].provider
            <4>1. <<id, r>> \in DOMAIN endpoints
                BY <2>3 DEF UpdateEndpoint
            <4>2. endpoints[<<id, r>>] \in [provider : Users, integrityHash : Hashes,
                                            version : Nat \ {0}, lastCheckedAt : Nat]
                BY <1>1, <4>1 DEF RegistryTypeOK
            <4> QED BY <2>3, <4>1, <4>2 DEF UpdateEndpoint
        <3> QED BY <1>1, <2>1, <3>1 DEF EndpointsOwned
    <2>4. ASSUME endpoints' = endpoints
          PROVE  EndpointsOwned'
        BY <1>1, <2>1, <2>4 DEF EndpointsOwned
    <2> QED BY <1>3, <2>2, <2>3, <2>4
            DEF RegistryStep, RegisterProvider, UpdateProvider, SetStakeManager
<1>4. ASSUME NEW rep \in reports, OnReport(CREForwarder, rep.id, rep.result),
             UNCHANGED <<workflowVars, clean>>
      PROVE  EndpointsOwned'
    <2>1. /\ providers' = providers /\ DOMAIN endpoints' = DOMAIN endpoints
          /\ \A eid \in DOMAIN endpoints : endpoints'[eid].provider = endpoints[eid].provider
        BY <1>4, ReportEffect
    <2> QED BY <2>1 DEF EndpointsOwned
<1> QED BY <1>2, <1>3, <1>4
        DEF EnforcementNext, StakingStep, ChallengeAdminStep, OpenStep, OpenChallenge, ServeStep,
            VerifyStep, DeliverStep, enforcementVars

(***************************************************************************)
(* Whoever registers, updates and rotates what, the provider recorded with *)
(* an endpoint is the owner of its provider record.                        *)
(***************************************************************************)
THEOREM OwnersStayInStep == EnforcementSpec => []EndpointsOwned
<1>1. EnforcementInit => EnforcementTypeOK /\ EndpointsOwned
    BY EnforcementTypeInit DEF EnforcementInit, RegistryInit, EndpointsOwned
<1>2. EnforcementTypeOK /\ EndpointsOwned /\ [EnforcementNext]_enforcementVars
         => (EnforcementTypeOK /\ EndpointsOwned)'
    BY EnforcementTypeStep, EndpointsOwnedStep
<1> QED BY <1>1, <1>2, PTL DEF EnforcementSpec

-----------------------------------------------------------------------------
(***************************************************************************)
(* The bonds of the composition.  Only the settlement of a challenge and   *)
(* the fee of a new one are not steps of the stake manager alone.          *)
(***************************************************************************)
LEMMA EnforcementBondsStep ==
    ASSUME EnforcementTypeOK, BondsBacked, [EnforcementNext]_enforcementVars
    PROVE  BondsBacked'
<1>1. EnforcementTypeOK' /\ StakeTypeOK /\ StakeTypeOK'
    BY EnforcementTypeStep DEF EnforcementTypeOK
<1>2. StakeManagerAddr \in Accounts
    BY AccountsAssumption
<1>3. CASE StakingStep \/ UNCHANGED stakeVars
    BY <1>1, <1>3, BondsBackedStep DEF StakingStep, StakeNext
<1>4. ASSUME NEW u \in Users, NEW eid \in EndpointIds, OpenStep(u, eid)
      PROVE  BondsBacked'
    <2>1. usdc'[StakeManagerAddr] = usdc[StakeManagerAddr] /\ stakes' = stakes
        BY <1>4, OpenEffect DEF OpenStep, OpenChallenge
    <2>2. Bonded' = Bonded
        BY <2>1 DEF Bonded
    <2> QED BY <2>1, <2>2 DEF BondsBacked, Total, Coins
<1>5. ASSUME NEW rep \in reports, OnReport(CREForwarder, rep.id, rep.result),
             UNCHANGED <<workflowVars, clean>>
      PROVE  BondsBacked'
    <2> DEFINE p == Challenged(rep.id)
    <2>1. rep.id \in ChallengeIds
        BY <1>5, ReportEffect
    <2>2. /\ p \in Users
          /\ usdc'[StakeManagerAddr] - usdc[StakeManagerAddr] >= stakes'[p].amount - stakes[p].amount
          /\ \A v \in Users \ {p} : stakes'[v] = stakes[v]
        BY <1>5, <2>1, SettleType DEF OnReport
    <2> HIDE DEF p
    <2>3. /\ Total(Bonded) \in Nat
          /\ Total(Bonded)' = Total(Bonded) - stakes[p].amount + stakes'[p].amount
        BY <1>1, <2>2, BondedUpdate
    <2>4. /\ usdc[StakeManagerAddr] \in Nat /\ usdc'[StakeManagerAddr] \in Nat
          /\ stakes[p].amount \in Nat /\ stakes'[p].amount \in Nat
        BY <1>1, <1>2, <2>2 DEF StakeTypeOK
    <2>5. usdc'[StakeManagerAddr] >= Total(Bonded)'
        BY <2>2, <2>3, <2>4 DEF BondsBacked
    <2> QED BY <2>5 DEF BondsBacked
<1> QED BY <1>3, <1>4, <1>5
        DEF EnforcementNext, RegistryStep, ChallengeAdminStep, ServeStep,
            VerifyStep, DeliverStep, enforcementVars

(***************************************************************************)
(* In the deployed composition too the stake manager can pay out every     *)
(* bond, whatever reports of fault were delivered in whatever order.       *)
(***************************************************************************)
THEOREM EnforcementBondsAreBacked == EnforcementSpec => []BondsBacked
<1>1. EnforcementInit => EnforcementTypeOK /\ BondsBacked
    BY EnforcementTypeInit, BondsBackedInit DEF EnforcementInit
<1>2. EnforcementTypeOK /\ BondsBacked /\ [EnforcementNext]_enforcementVars
         => (EnforcementTypeOK /\ BondsBacked)'
    BY EnforcementTypeStep, EnforcementBondsStep
<1> QED BY <1>1, <1>2, PTL DEF EnforcementSpec

-----------------------------------------------------------------------------
(***************************************************************************)
(* A settled challenge never changes again, however many reports of it are *)
(* signed, delivered late or delivered twice.                              *)
(***************************************************************************)
THEOREM VerdictsAreFinal == EnforcementSpec => VerdictFinal
<1>1. EnforcementTypeOK /\ [EnforcementNext]_enforcementVars
         => [\A id \in ChallengeIds : ~Pending(id) => challenges'[id] = challenges[id]]_enforcementVars
    <2> SUFFICES ASSUME EnforcementTypeOK, EnforcementNext
                 PROVE  \A id \in ChallengeIds : ~Pending(id) => challenges'[id] = challenges[id]
        OBVIOUS
    <2>1. ASSUME NEW u \in Users, NEW eid \in EndpointIds, OpenStep(u, eid)
          PROVE  \A id \in ChallengeIds : challenges'[id] = challenges[id]
        BY <2>1, OpenEffect
    <2>2. ASSUME NEW rep \in reports, OnReport(CREForwarder, rep.id, rep.result),
                 UNCHANGED <<workflowVars, clean>>
          PROVE  \A id \in ChallengeIds : ~Pending(id) => challenges'[id] = challenges[id]
        <3>1. Pending(rep.id)
            BY <2>2, ReportEffect
        <3>2. \A id \in ChallengeIds : id # rep.id => challenges'[id] = challenges[id]
            <4>1. DOMAIN challenges = ChallengeIds
                BY LenProperties DEF EnforcementTypeOK, ChallengeTypeOK, ChallengeIds
            <4> QED BY <2>2, <4>1, ReportEffect
        <3> QED BY <3>1, <3>2
    <2> QED BY <2>1, <2>2
            DEF EnforcementNext, StakingStep, RegistryStep, ChallengeAdminStep, SetForwarder,
                SetChallengeFee, SetSlashBp, ServeStep, VerifyStep, DeliverStep, challengeVars
<1> QED BY <1>1, EnforcementTypeCorrect, PTL DEF EnforcementSpec, VerdictFinal

-----------------------------------------------------------------------------
(***************************************************************************)
(* A bond shrinks only by its owner's withdrawal, which pays the owner as  *)
(* much, or by a signed report of fault on a pending challenge against an  *)
(* endpoint of that owner's provider record.                               *)
(***************************************************************************)
LEMMA BondLossStep ==
    ASSUME EnforcementTypeOK, EndpointsOwned, EnforcementNext,
           NEW u \in Users, stakes'[u].amount < stakes[u].amount
    PROVE  \/ \E id \in ChallengeIds : FaultReportedAgainst(u, id)
           \/ /\ usdc'[u] - usdc[u] = stakes[u].amount - stakes'[u].amount
              /\ UNCHANGED challenges
<1>1. /\ StakeTypeOK /\ stakes \in [Users -> [amount : Nat, unlockTimestamp : Nat]]
      /\ usdc \in [Accounts -> Nat] /\ stakes[u].amount \in Nat /\ usdc[u] \in Nat
      /\ Users \subseteq Accounts /\ StakeManagerAddr \in Accounts \ Users
    BY AccountsAssumption DEF EnforcementTypeOK, StakeTypeOK
<1>2. stakes' # stakes
    BY <1>1
<1>3. CASE StakingStep
    <2>1. UNCHANGED challenges
        BY <1>3 DEF StakingStep, challengeVars
    <2>2. PICK v \in Users, amount \in Amounts :
              Stake(v, amount) \/ RequestUnstake(v, amount) \/ Withdraw(v, amount)
        BY <1>2, <1>3 DEF StakingStep, UserStakeStep, StakeAdminStep, SetTreasury,
              SetProtocolSlashBp, SetWithdrawCooldown, SetMinimumStakeRequired, Tick
    <2>3. amount \in Nat
        BY ParametersAssumption
    <2>4. ~Stake(v, amount)
        BY <1>1, <2>3 DEF Stake
    <2>5. ~RequestUnstake(v, amount)
        BY <1>1 DEF RequestUnstake
    <2>6. /\ usdc' = Moved(usdc, StakeManagerAddr, v, amount)
          /\ usdc[StakeManagerAddr] >= amount
          /\ stakes' = [stakes EXCEPT ![v].amount = @ - amount]
        BY <2>2, <2>4, <2>5 DEF Withdraw, CanMove
    <2>7. v = u
        BY <1>1, <2>6
    <2>8. usdc'[u] = usdc[u] + amount
        <3>1. /\ u \in Accounts /\ StakeManagerAddr \in Accounts /\ u # StakeManagerAddr
              /\ usdc' = Moved(usdc, StakeManagerAddr, u, amount)
            BY <1>1, <2>6, <2>7
        <3> QED BY <1>1, <3>1 DEF Moved
    <2>9. stakes'[u].amount = stakes[u].amount - amount
        BY <1>1, <2>6, <2>7
    <2> QED BY <1>1, <2>1, <2>3, <2>8, <2>9
<1>4. ASSUME NEW rep \in reports, OnReport(CREForwarder, rep.id, rep.result),
             UNCHANGED <<workflowVars, clean>>
      PROVE  \E id \in ChallengeIds : FaultReportedAgainst(u, id)
    <2> DEFINE id == rep.id
    <2>1. /\ id \in ChallengeIds /\ Pending(id) /\ rep.result \in {0, 1}
          /\ challenges' = [challenges EXCEPT
                 ![id].status = IF rep.result = 1 THEN "Valid" ELSE "Invalid"]
        BY <1>4, ReportEffect
    <2>2. rep.result = 0
        BY <1>2, <1>4, <2>1 DEF OnReport, SettleValid
    <2>3. /\ challenges \in Seq([challenger : Users, endpointId : DOMAIN endpoints,
                                 status : Statuses])
          /\ reports \subseteq [id : ChallengeIds, result : {0, 1}]
        BY DEF EnforcementTypeOK, ChallengeTypeOK, WorkflowTypeOK
    <2>4. challenges[id] \in [challenger : Users, endpointId : DOMAIN endpoints,
                              status : Statuses]
        BY <2>1, <2>3, ElementOfSeq DEF ChallengeIds
    <2>5. DOMAIN challenges = ChallengeIds
        BY <2>3, LenProperties DEF ChallengeIds
    <2>6. challenges'[id].status = "Invalid"
        BY <2>1, <2>2, <2>4, <2>5
    <2>7. u = Challenged(id)
        BY <1>1, <1>4, <2>1, SettleType DEF OnReport
    <2>8. providers[challenges[id].endpointId[1]].owner = u
        BY <2>4, <2>7 DEF EndpointsOwned, Challenged
    <2>9. [id |-> id, result |-> 0] \in reports
        BY <2>2, <2>3
    <2> QED BY <2>1, <2>6, <2>8, <2>9 DEF FaultReportedAgainst
<1> QED BY <1>2, <1>3, <1>4
        DEF EnforcementNext, RegistryStep, ChallengeAdminStep, OpenStep, OpenChallenge, ServeStep,
            VerifyStep, DeliverStep, stakeVars

(***************************************************************************)
(* In every behaviour a bond is lost by withdrawal or by fault only.       *)
(***************************************************************************)
THEOREM BondsAreLostByFault == EnforcementSpec => BondLostOnlyByFault
<1>1. EnforcementTypeOK /\ EndpointsOwned /\ [EnforcementNext]_enforcementVars
         => [\A u \in Users : stakes'[u].amount < stakes[u].amount =>
                \/ \E id \in ChallengeIds : FaultReportedAgainst(u, id)
                \/ /\ usdc'[u] - usdc[u] = stakes[u].amount - stakes'[u].amount
                   /\ UNCHANGED challenges]_enforcementVars
    BY BondLossStep
<1> QED BY <1>1, EnforcementTypeCorrect, OwnersStayInStep, PTL
        DEF EnforcementSpec, BondLostOnlyByFault

-----------------------------------------------------------------------------
(***************************************************************************)
(* HonestNotFaulted is not inductive: a report of fault signed earlier     *)
(* would break it.  What is: as long as a challenge is clean, the server's *)
(* present answer passes it and no report of fault on it was ever signed.  *)
(***************************************************************************)
HonestInv ==
    \A id \in ChallengeIds : clean[id] =>
        /\ Passes(opened[id], served[opened[id].endpointId[2]])
        /\ [id |-> id, result |-> 0] \notin reports
        /\ challenges[id].status # "Invalid"

LEMMA HonestStep ==
    ASSUME EnforcementTypeOK, HonestInv, [EnforcementNext]_enforcementVars
    PROVE  HonestInv'
<1>1. /\ served \in [Resources -> Responses]
      /\ reports \subseteq [id : ChallengeIds, result : {0, 1}]
      /\ challenges \in Seq([challenger : Users, endpointId : DOMAIN endpoints,
                             status : Statuses])
      /\ DOMAIN challenges = ChallengeIds
    BY LenProperties
       DEF EnforcementTypeOK, WorkflowTypeOK, ChallengeTypeOK, ChallengeIds
<1>2. ASSUME UNCHANGED <<challenges, opened, workflowVars, clean>>
      PROVE  HonestInv'
    BY <1>2 DEF workflowVars, HonestInv, ChallengeIds, Passes, Verdict
<1>3. ASSUME NEW u \in Users, NEW eid \in EndpointIds, OpenStep(u, eid)
      PROVE  HonestInv'
    <2> DEFINE n == Len(challenges) + 1
    <2>1. /\ n \in Nat \ {0} /\ ChallengeIds' = 1 .. n /\ ChallengeIds = 1 .. n - 1
          /\ \A id \in ChallengeIds : /\ challenges'[id] = challenges[id]
                                      /\ opened'[id] = opened[id]
                                      /\ clean'[id] = clean[id]
          /\ challenges'[n].status = "Pending"
          /\ clean'[n] = Passes(opened'[n], served[opened'[n].endpointId[2]])
        BY <1>3, OpenEffect
    <2>2. served' = served /\ reports' = reports
        BY <1>3 DEF OpenStep, workflowVars
    <2> HIDE DEF n
    <2>3. [id |-> n, result |-> 0] \notin reports
        BY <1>1, <2>1
    <2>4. \A id \in 1 .. n : id = n \/ id \in ChallengeIds
        BY <2>1
    <2>5. ASSUME NEW id \in ChallengeIds, clean'[id]
          PROVE  /\ Passes(opened'[id], served'[opened'[id].endpointId[2]])
                 /\ [id |-> id, result |-> 0] \notin reports'
                 /\ challenges'[id].status # "Invalid"
        BY <2>1, <2>2, <2>5 DEF HonestInv
    <2>6. ASSUME clean'[n]
          PROVE  /\ Passes(opened'[n], served'[opened'[n].endpointId[2]])
                 /\ [id |-> n, result |-> 0] \notin reports'
                 /\ challenges'[n].status # "Invalid"
        BY <2>1, <2>2, <2>3, <2>6
    <2>7. \A id \in 1 .. n : clean'[id] =>
              /\ Passes(opened'[id], served'[opened'[id].endpointId[2]])
              /\ [id |-> id, result |-> 0] \notin reports'
              /\ challenges'[id].status # "Invalid"
        BY <2>4, <2>5, <2>6
    <2> QED BY <2>1, <2>7 DEF HonestInv, Passes, Verdict
<1>4. ASSUME NEW r \in Resources, NEW response \in Responses, ServeStep(r, response)
      PROVE  HonestInv'
    <2>1. /\ served' = [served EXCEPT ![r] = response]
          /\ clean' = [id \in ChallengeIds |->
                          clean[id] /\ (opened[id].endpointId[2] = r => Passes(opened[id], response))]
          /\ UNCHANGED <<challenges, opened, reports>>
        BY <1>4 DEF ServeStep, Serve, challengeVars
    <2>2. ASSUME NEW id \in ChallengeIds, clean'[id]
          PROVE  /\ Passes(opened[id], served'[opened[id].endpointId[2]])
                 /\ [id |-> id, result |-> 0] \notin reports
                 /\ challenges[id].status # "Invalid"
        <3>1. clean[id] /\ (opened[id].endpointId[2] = r => Passes(opened[id], response))
            BY <2>1, <2>2, Zenon
        <3>2. /\ Passes(opened[id], served[opened[id].endpointId[2]])
              /\ [id |-> id, result |-> 0] \notin reports
              /\ challenges[id].status # "Invalid"
            BY <3>1 DEF HonestInv
        <3>3. CASE opened[id].endpointId[2] = r
            BY <1>1, <2>1, <3>1, <3>2, <3>3
        <3>4. CASE opened[id].endpointId[2] # r
            <4>1. served'[opened[id].endpointId[2]] = served[opened[id].endpointId[2]]
                BY <1>1, <2>1, <3>4
            <4> QED BY <3>2, <4>1
        <3> QED BY <3>3, <3>4
    <2>3. ChallengeIds' = ChallengeIds
        BY <2>1 DEF ChallengeIds
    <2> QED BY <2>1, <2>2, <2>3 DEF HonestInv, Passes, Verdict
<1>5. ASSUME NEW i \in ChallengeIds, VerifyStep(i)
      PROVE  HonestInv'
    <2> DEFINE response == served[opened[i].endpointId[2]]
    <2>1. /\ response # Unreachable
          /\ reports' = reports \cup {[id |-> i, result |-> Verdict(opened[i], response)]}
          /\ UNCHANGED <<challenges, opened, served, clean>>
        BY <1>5 DEF VerifyStep, Verify, challengeVars
    <2>2. clean[i] => Verdict(opened[i], response) = 1
        BY <2>1 DEF HonestInv, Passes
    <2> HIDE DEF response
    <2>3. \A id \in ChallengeIds : clean[id] => [id |-> id, result |-> 0] \notin reports'
        BY <2>1, <2>2 DEF HonestInv
    <2>4. ChallengeIds' = ChallengeIds
        BY <2>1 DEF ChallengeIds
    <2> QED BY <2>1, <2>3, <2>4 DEF HonestInv, Passes, Verdict
<1>6. ASSUME NEW rep \in reports, OnReport(CREForwarder, rep.id, rep.result),
             UNCHANGED <<workflowVars, clean>>
      PROVE  HonestInv'
    <2>1. /\ rep.id \in ChallengeIds /\ rep.result \in {0, 1}
          /\ ChallengeIds' = ChallengeIds
          /\ challenges' = [challenges EXCEPT
                 ![rep.id].status = IF rep.result = 1 THEN "Valid" ELSE "Invalid"]
        BY <1>6, ReportEffect
    <2>2. UNCHANGED <<opened, served, reports, clean>>
        BY <1>6 DEF OnReport, workflowVars
    <2>3. ASSUME NEW id \in ChallengeIds, clean[id]
          PROVE  challenges'[id].status # "Invalid"
        <3>1. challenges[id].status # "Invalid" /\ [id |-> id, result |-> 0] \notin reports
            BY <2>3 DEF HonestInv
        <3>2. id = rep.id => rep.result = 1
            <4>1. rep = [id |-> rep.id, result |-> rep.result]
                BY <1>1
            <4> QED BY <2>1, <3>1, <4>1
        <3>3. challenges[id] \in [challenger : Users, endpointId : DOMAIN endpoints,
                                  status : Statuses]
            BY <1>1, ElementOfSeq DEF ChallengeIds
        <3> QED BY <1>1, <2>1, <3>1, <3>2, <3>3
    <2> QED BY <2>1, <2>2, <2>3 DEF HonestInv, Passes, Verdict
<1> QED BY <1>2, <1>3, <1>4, <1>5, <1>6
        DEF EnforcementNext, StakingStep, RegistryStep, ChallengeAdminStep, SetForwarder,
            SetChallengeFee, SetSlashBp, DeliverStep, challengeVars, enforcementVars

(***************************************************************************)
(* A server that gave no failing answer while a challenge was open is not  *)
(* found at fault, whatever is registered, signed and delivered meanwhile. *)
(***************************************************************************)
THEOREM HonestServersNotFaulted == EnforcementSpec => []HonestNotFaulted
<1>1. EnforcementInit => EnforcementTypeOK /\ HonestInv
    <2>1. EnforcementInit => ChallengeIds = {}
        BY EmptySeq DEF EnforcementInit, ChallengeInit, ChallengeIds
    <2> QED BY <2>1, EnforcementTypeInit DEF HonestInv
<1>2. EnforcementTypeOK /\ HonestInv /\ [EnforcementNext]_enforcementVars
         => (EnforcementTypeOK /\ HonestInv)'
    BY EnforcementTypeStep, HonestStep
<1>3. HonestInv => HonestNotFaulted
    BY DEF HonestInv, HonestNotFaulted
<1> QED BY <1>1, <1>2, <1>3, PTL DEF EnforcementSpec

-----------------------------------------------------------------------------
(***************************************************************************)
(* The fees.  A transfer takes from its payer only, and a settlement takes *)
(* no more than one fee from the challenge manager.                        *)
(***************************************************************************)
LEMMA MovedTakesFromPayer ==
    ASSUME NEW S, NEW ledger \in [S -> Nat], NEW from \in S, NEW to \in S,
           NEW amount \in Nat, NEW a \in S \ {from}
    PROVE  /\ Moved(ledger, from, to, amount)[a] >= ledger[a]
           /\ a # to => Moved(ledger, from, to, amount)[a] = ledger[a]
    BY DEF Moved

LEMMA SettleTakesOneFee ==
    ASSUME EnforcementTypeOK, NEW id \in ChallengeIds,
           SettleValid(id) \/ SettleInvalid(id)
    PROVE  usdc'[ChallengeManagerAddr] >= usdc[ChallengeManagerAddr] - challengeFee
<1> DEFINE p == Challenged(id)
           c == challenges[id].challenger
           CM == ChallengeManagerAddr
           SM == StakeManagerAddr
<1>1. challenges[id] \in [challenger : Users, endpointId : DOMAIN endpoints, status : Statuses]
    BY ElementOfSeq DEF EnforcementTypeOK, ChallengeTypeOK, ChallengeIds
<1>2. p \in Users /\ c \in Users
    BY <1>1 DEF EnforcementTypeOK, RegistryTypeOK, Challenged
<1>3. Users \subseteq Accounts /\ SM \in Accounts \ Users /\ CM \in Accounts \ (Users \cup {SM})
    BY AccountsAssumption, ChallengeAssumption
<1>4. StakeTypeOK /\ challengeFee \in Nat /\ slashBp \in Nat /\ usdc \in [Accounts -> Nat]
    BY DEF EnforcementTypeOK, ChallengeTypeOK, StakeTypeOK
<1>5. CASE SettleValid(id)
    BY <1>2, <1>3, <1>4, <1>5 DEF SettleValid, Moved
<1>6. CASE SettleInvalid(id)
    <2> DEFINE cut == ProtocolCut(p, slashBp)
               amount == SlashAmount(p, slashBp)
               paid == IF cut > 0 THEN Moved(usdc, SM, treasury, cut) ELSE usdc
               slashed == SlashPaid(p, slashBp, c)
    <2>1. /\ SlashCanPay(p, slashBp)
          /\ usdc' = Moved(slashed, CM, c, challengeFee)
          /\ slashed = Moved(paid, SM, c, amount - cut)
        BY <1>6 DEF SettleInvalid, SlashEnabled, SlashPaid
    <2>2. amount \in Nat /\ cut \in Nat /\ cut <= amount /\ usdc[SM] >= cut
        <3>1. stakes[p].amount \in Nat
            BY <1>2, <1>4 DEF StakeTypeOK
        <3>2. amount \in 0 .. stakes[p].amount /\ cut \in 0 .. amount
            BY <1>2, <1>4, SlashBounds
        <3>3. usdc[SM] >= amount /\ usdc[SM] \in Nat
            BY <1>3, <1>4, <2>1 DEF SlashCanPay
        <3> HIDE DEF amount, cut
        <3> QED BY <3>1, <3>2, <3>3
    <2>3. slashed \in [Accounts -> Nat]
        BY <1>2, <1>3, <1>4, <2>1, SlashPaidType
    <2>4. cut > 0 => treasury \in Accounts
        BY <1>4, <2>1 DEF SlashCanPay, StakeTypeOK
    <2> HIDE DEF slashed, amount, cut
    <2>5. paid \in [Accounts -> Nat] /\ paid[CM] >= usdc[CM]
        <3>1. CASE cut > 0
            <4>1. /\ Moved(usdc, SM, treasury, cut) \in [Accounts -> Nat]
                  /\ Moved(usdc, SM, treasury, cut)[CM] >= usdc[CM]
                BY <1>3, <1>4, <2>2, <2>4, <3>1, MovedType, MovedTakesFromPayer
            <4> QED BY <3>1, <4>1
        <3>2. CASE ~(cut > 0)
            BY <1>3, <1>4, <3>2
        <3> QED BY <3>1, <3>2
    <2> HIDE DEF paid
    <2>6. slashed[CM] = paid[CM]
        <3>1. c \in Accounts /\ c # CM /\ CM \in Accounts \ {SM} /\ SM \in Accounts
            BY <1>2, <1>3
        <3>2. amount - cut \in Nat
            BY <2>2
        <3> HIDE DEF c
        <3> QED BY <2>1, <2>5, <3>1, <3>2, MovedTakesFromPayer
    <2>7. usdc'[CM] = slashed[CM] - challengeFee
        BY <1>2, <1>3, <1>4, <2>1, <2>3 DEF Moved
    <2>8. usdc[CM] \in Nat /\ slashed[CM] \in Nat
        BY <1>3, <1>4, <2>3
    <2> QED BY <1>4, <2>5, <2>6, <2>7, <2>8
<1> QED BY <1>5, <1>6

PendingIds == {id \in ChallengeIds : Pending(id)}

LEMMA PendingIdsFinite ==
    ASSUME EnforcementTypeOK
    PROVE  IsFiniteSet(PendingIds) /\ Cardinality(PendingIds) \in Nat
<1>1. Len(challenges) \in Nat
    BY LenProperties DEF EnforcementTypeOK, ChallengeTypeOK
<1>2. IsFiniteSet(ChallengeIds)
    BY <1>1, FS_Interval DEF ChallengeIds
<1>3. PendingIds \subseteq ChallengeIds
    BY DEF PendingIds
<1> QED BY <1>2, <1>3, FS_Subset, FS_CardinalityType

(***************************************************************************)
(* A new challenge brings the fee it adds to the debt, and a settlement    *)
(* takes the fee of a challenge that is then no longer owed one.  A        *)
(* challengeFee that may change would break both.                          *)
(***************************************************************************)
LEMMA FeesStep ==
    ASSUME NEW fee \in Nat, ChallengeFees = {fee},
           EnforcementTypeOK, challengeFee = fee, FeesEscrowed,
           [EnforcementNext]_enforcementVars
    PROVE  challengeFee' = fee /\ FeesEscrowed'
<1> DEFINE CM == ChallengeManagerAddr
           SM == StakeManagerAddr
           k == Cardinality(PendingIds)
<1>1. Users \subseteq Accounts /\ SM \in Accounts \ Users /\ CM \in Accounts \ (Users \cup {SM})
    BY AccountsAssumption, ChallengeAssumption
<1>2. /\ usdc \in [Accounts -> Nat] /\ usdc' \in [Accounts -> Nat]
      /\ usdc[CM] \in Nat /\ usdc'[CM] \in Nat
    <2>1. EnforcementTypeOK'
        BY EnforcementTypeStep
    <2> QED BY <1>1, <2>1 DEF EnforcementTypeOK, StakeTypeOK
<1>3. /\ IsFiniteSet(PendingIds) /\ k \in Nat
      /\ usdc[CM] >= fee * k
    BY PendingIdsFinite DEF FeesEscrowed, PendingIds
<1>4. FeesEscrowed' <=> usdc'[CM] >= challengeFee' * Cardinality(PendingIds')
    BY DEF FeesEscrowed, PendingIds
<1>5. ASSUME UNCHANGED challenges, challengeFee' = fee, usdc'[CM] = usdc[CM]
      PROVE  challengeFee' = fee /\ FeesEscrowed'
    <2>1. PendingIds' = PendingIds
        BY <1>5 DEF PendingIds, ChallengeIds, Pending
    <2> QED BY <1>3, <1>4, <1>5, <2>1
<1>6. CASE StakingStep
    <2>1. UNCHANGED challenges /\ challengeFee' = fee
        BY <1>6 DEF StakingStep, challengeVars, challengeParams
    <2>2. ASSUME NEW u \in Users, NEW amount \in Amounts,
                 Stake(u, amount) \/ RequestUnstake(u, amount) \/ Withdraw(u, amount)
          PROVE  usdc'[CM] = usdc[CM]
        <3>1. amount \in Nat /\ u \in Accounts /\ u # CM /\ CM # SM /\ SM \in Accounts /\ CM \in Accounts
            BY <1>1, ParametersAssumption
        <3>2. \/ usdc' = Moved(usdc, u, SM, amount)
              \/ usdc' = usdc
              \/ usdc' = Moved(usdc, SM, u, amount)
            BY <2>2 DEF Stake, RequestUnstake, Withdraw
        <3> QED BY <1>2, <3>1, <3>2, MovedTakesFromPayer
    <2>3. CASE StakeAdminStep \/ Tick
        <3>1. usdc' = usdc
            BY <2>3 DEF StakeAdminStep, SetTreasury, SetProtocolSlashBp, SetWithdrawCooldown,
                        SetMinimumStakeRequired, Tick
        <3> QED BY <1>5, <2>1, <3>1
    <2> QED BY <1>5, <1>6, <2>1, <2>2, <2>3 DEF StakingStep, UserStakeStep
<1>7. CASE ChallengeAdminStep
    <2>1. UNCHANGED <<challenges, usdc>> /\ challengeFee' = fee
        BY <1>7 DEF ChallengeAdminStep, SetForwarder, SetChallengeFee, SetSlashBp, stakeVars
    <2> QED BY <1>5, <2>1
<1>8. ASSUME NEW u \in Users, NEW eid \in EndpointIds, OpenStep(u, eid)
      PROVE  challengeFee' = fee /\ FeesEscrowed'
    <2> DEFINE n == Len(challenges) + 1
    <2>1. /\ n \in Nat \ {0} /\ ChallengeIds' = 1 .. n /\ ChallengeIds = 1 .. n - 1
          /\ \A id \in ChallengeIds : challenges'[id] = challenges[id]
          /\ challenges'[n].status = "Pending"
        BY <1>8, OpenEffect
    <2> HIDE DEF n
    <2>2. PendingIds' = PendingIds \cup {n} /\ n \notin PendingIds
        BY <2>1 DEF PendingIds, Pending
    <2>3. Cardinality(PendingIds') = k + 1
        BY <1>3, <2>2, FS_AddElement
    <2>4. challengeFee' = fee /\ usdc' = Moved(usdc, u, CM, fee)
        BY <1>8 DEF OpenStep, OpenChallenge, challengeParams
    <2>5. usdc'[CM] = usdc[CM] + fee
        <3>1. u \in Accounts /\ CM \in Accounts /\ u # CM
            BY <1>1
        <3> QED BY <1>2, <2>4, <3>1 DEF Moved
    <2>6. fee * (k + 1) = fee * k + fee
        BY <1>3
    <2> HIDE DEF k
    <2> QED BY <1>2, <1>3, <1>4, <2>3, <2>4, <2>5, <2>6
<1>9. ASSUME NEW rep \in reports, OnReport(CREForwarder, rep.id, rep.result),
             UNCHANGED <<workflowVars, clean>>
      PROVE  challengeFee' = fee /\ FeesEscrowed'
    <2> DEFINE i == rep.id
    <2>1. /\ i \in ChallengeIds /\ Pending(i) /\ ChallengeIds' = ChallengeIds
          /\ challenges' = [challenges EXCEPT
                 ![i].status = IF rep.result = 1 THEN "Valid" ELSE "Invalid"]
        BY <1>9, ReportEffect
    <2>2. /\ challenges \in Seq([challenger : Users, endpointId : DOMAIN endpoints,
                                 status : Statuses])
          /\ DOMAIN challenges = ChallengeIds
        BY LenProperties DEF EnforcementTypeOK, ChallengeTypeOK, ChallengeIds
    <2>3. challenges[i] \in [challenger : Users, endpointId : DOMAIN endpoints, status : Statuses]
        BY <2>1, <2>2, ElementOfSeq DEF ChallengeIds
    <2>4. challenges'[i].status # "Pending"
        BY <2>1, <2>2, <2>3
    <2>5. \A id \in ChallengeIds : id # i => challenges'[id] = challenges[id]
        BY <2>1, <2>2
    <2>6. PendingIds' = PendingIds \ {i} /\ i \in PendingIds
        BY <2>1, <2>4, <2>5 DEF PendingIds, Pending
    <2>7. Cardinality(PendingIds') = k - 1
        BY <1>3, <2>6, FS_RemoveElement
    <2>8. challengeFee' = fee
        BY <1>9 DEF OnReport, challengeParams
    <2>9. usdc'[CM] >= usdc[CM] - fee
        BY <1>9, <2>1, SettleTakesOneFee DEF OnReport
    <2>10. fee * (k - 1) = fee * k - fee
        BY <1>3
    <2> HIDE DEF k
    <2> QED BY <1>2, <1>3, <1>4, <2>7, <2>8, <2>9, <2>10
<1> QED BY <1>5, <1>6, <1>7, <1>8, <1>9
        DEF EnforcementNext, RegistryStep, ServeStep, VerifyStep, DeliverStep,
            enforcementVars, challengeVars, challengeParams, stakeVars

(***************************************************************************)
(* As long as the owner keeps to one challengeFee, the challenge manager   *)
(* holds the fee of every pending challenge.                               *)
(***************************************************************************)
THEOREM FeesStayEscrowed ==
    ASSUME NEW fee \in Nat, ChallengeFees = {fee}
    PROVE  EnforcementSpec => []FeesEscrowed
<1> DEFINE Inv == EnforcementTypeOK /\ challengeFee = fee /\ FeesEscrowed
<1>1. EnforcementInit => Inv
    <2> SUFFICES ASSUME EnforcementInit PROVE FeesEscrowed /\ challengeFee = fee
        BY EnforcementTypeInit
    <2>1. challengeFee = fee /\ ChallengeIds = {}
        BY EmptySeq DEF EnforcementInit, ChallengeInit, ChallengeIds
    <2>2. usdc[ChallengeManagerAddr] = 0
        BY ChallengeAssumption DEF EnforcementInit, StakeInit
    <2>3. {id \in ChallengeIds : Pending(id)} = {}
        BY <2>1
    <2>4. Cardinality({id \in ChallengeIds : Pending(id)}) = 0
        BY <2>3, FS_EmptySet
    <2> QED BY <2>1, <2>2, <2>4 DEF FeesEscrowed
<1>2. Inv /\ [EnforcementNext]_enforcementVars => Inv'
    BY EnforcementTypeStep, FeesStep
<1>3. Inv => FeesEscrowed
    OBVIOUS
<1> QED BY <1>1, <1>2, <1>3, PTL DEF EnforcementSpec

-----------------------------------------------------------------------------
(***************************************************************************)
(* The escrow.  What the abstract cases and bonds are made of.             *)
(***************************************************************************)
LEMMA CasesTyped ==
    ASSUME EnforcementTypeOK
    PROVE  /\ Cases \in Seq([by : Users, against : Users, status : Statuses, suspect : BOOLEAN])
           /\ DOMAIN Cases = ChallengeIds
           /\ Len(Cases) = Len(challenges)
           /\ \A id \in ChallengeIds :
                 /\ challenges[id] \in [challenger : Users, endpointId : DOMAIN endpoints,
                                        status : Statuses]
                 /\ Challenged(id) \in Users
                 /\ Cases[id] = [by |-> challenges[id].challenger, against |-> Challenged(id),
                                 status |-> challenges[id].status, suspect |-> ~clean[id]]
<1> DEFINE K == [by : Users, against : Users, status : Statuses, suspect : BOOLEAN]
           c(id) == [by |-> challenges[id].challenger, against |-> Challenged(id),
                     status |-> challenges[id].status, suspect |-> ~clean[id]]
<1>1. Len(challenges) \in Nat
    BY LenProperties DEF EnforcementTypeOK, ChallengeTypeOK
<1>2. ASSUME NEW id \in ChallengeIds
      PROVE  /\ challenges[id] \in [challenger : Users, endpointId : DOMAIN endpoints,
                                    status : Statuses]
             /\ Challenged(id) \in Users
             /\ c(id) \in K
    <2>1. challenges[id] \in [challenger : Users, endpointId : DOMAIN endpoints,
                              status : Statuses]
        BY ElementOfSeq DEF EnforcementTypeOK, ChallengeTypeOK, ChallengeIds
    <2>2. Challenged(id) \in Users
        BY <2>1 DEF EnforcementTypeOK, RegistryTypeOK, Challenged
    <2>3. (~clean[id]) \in BOOLEAN
        BY Zenon DEF EnforcementTypeOK
    <2> QED BY <2>1, <2>2, <2>3
<1>3. Cases = [id \in 1 .. Len(challenges) |-> c(id)]
    BY DEF Cases, ChallengeIds
<1>4. \A id \in 1 .. Len(challenges) : c(id) \in K
    BY <1>2 DEF ChallengeIds
<1> HIDE DEF c, K
<1>5. Cases \in [1 .. Len(challenges) -> K]
    BY <1>3, <1>4, Zenon
<1>6. Cases \in Seq(K) /\ Len(Cases) = Len(challenges)
    <2>1. Cases \in Seq(K)
        BY <1>1, <1>5
    <2>2. DOMAIN Cases = 1 .. Len(Cases) /\ Len(Cases) \in Nat
        BY <2>1, LenProperties
    <2> QED BY <1>1, <1>5, <2>1, <2>2
<1>7. \A id \in ChallengeIds : Cases[id] = c(id)
    BY <1>3 DEF ChallengeIds
<1> QED BY <1>2, <1>3, <1>6, <1>7 DEF K, c, ChallengeIds

LEMMA BondedTyped ==
    ASSUME StakeTypeOK
    PROVE  /\ Bonded \in [Users -> Nat]
           /\ \A u \in Users : Bonded[u] = stakes[u].amount
    BY DEF StakeTypeOK, Bonded

(***************************************************************************)
(* The cases change with the challenges and with what was seen only: the   *)
(* provider an endpoint was registered for is never rewritten.             *)
(***************************************************************************)
LEMMA CasesKept ==
    ASSUME EnforcementTypeOK, UNCHANGED <<challenges, clean>>,
           \A eid \in DOMAIN endpoints : endpoints'[eid].provider = endpoints[eid].provider
    PROVE  Cases' = Cases
<1>1. ChallengeIds' = ChallengeIds
    BY DEF ChallengeIds
<1>2. ASSUME NEW id \in ChallengeIds PROVE Challenged(id)' = Challenged(id)
    <2>1. challenges[id].endpointId \in DOMAIN endpoints
        BY CasesTyped
    <2> QED BY <2>1 DEF Challenged
<1> QED BY <1>1, <1>2 DEF Cases

LEMMA RegistryKeepsProviders ==
    ASSUME RegistryTypeOK, RegistryStep
    PROVE  \A eid \in DOMAIN endpoints : endpoints'[eid].provider = endpoints[eid].provider
<1>1. ASSUME NEW u \in Users, NEW id \in ProviderIds, NEW r \in Resources, NEW payTo,
             NEW t \in Terms, RegisterEndpoint(u, id, r, payTo, t)
      PROVE  \A eid \in DOMAIN endpoints : endpoints'[eid].provider = endpoints[eid].provider
    BY <1>1 DEF RegisterEndpoint
<1>2. ASSUME NEW u \in Users, NEW id \in ProviderIds, NEW r \in Resources, NEW payTo,
             NEW t \in Terms, UpdateEndpoint(u, id, r, payTo, t)
      PROVE  \A eid \in DOMAIN endpoints : endpoints'[eid].provider = endpoints[eid].provider
    <2>1. <<id, r>> \in DOMAIN endpoints
        BY <1>2 DEF UpdateEndpoint
    <2>2. endpoints[<<id, r>>] \in [provider : Users, integrityHash : Hashes,
                                    version : Nat \ {0}, lastCheckedAt : Nat]
        BY <2>1 DEF RegistryTypeOK
    <2> QED BY <1>2, <2>1, <2>2 DEF UpdateEndpoint
<1> QED BY <1>1, <1>2 DEF RegistryStep, RegisterProvider, UpdateProvider, SetStakeManager

(***************************************************************************)
(* Users, admins and the clock: stake is a deposit, withdraw a withdrawal, *)
(* and a call with amount 0, like all the rest, is nothing to the escrow.  *)
(***************************************************************************)
LEMMA StakingIsEscrow ==
    ASSUME EnforcementTypeOK, StakingStep
    PROVE  [Escrow!EscrowNext]_<<usdc, Bonded, Cases>>
<1>1. /\ StakeTypeOK /\ usdc \in [Accounts -> Nat]
      /\ Bonded \in [Users -> Nat] /\ \A u \in Users : Bonded[u] = stakes[u].amount
      /\ Users \subseteq Accounts /\ StakeManagerAddr \in Accounts \ Users
    BY BondedTyped, AccountsAssumption DEF EnforcementTypeOK, StakeTypeOK
<1>2. Cases' = Cases
    BY CasesKept DEF StakingStep, registryVars, challengeVars
<1>3. ASSUME NEW u \in Users, NEW amount \in Amounts, Stake(u, amount)
      PROVE  Escrow!Deposit
    <2>1. amount \in 1 .. usdc[u]
        BY <1>1, <1>3, ParametersAssumption DEF Stake, CanMove
    <2>2. usdc' = Escrow!Moved(usdc, u, StakeManagerAddr, amount)
        BY <1>3 DEF Stake, Moved, Escrow!Moved
    <2>3. Bonded' = [Bonded EXCEPT ![u] = @ + amount]
        BY <1>1, <1>3 DEF Stake, Bonded, StakeTypeOK
    <2> QED BY <1>2, <2>1, <2>2, <2>3 DEF Escrow!Deposit
<1>4. ASSUME NEW u \in Users, NEW amount \in Amounts, RequestUnstake(u, amount)
      PROVE  UNCHANGED <<usdc, Bonded, Cases>>
    BY <1>1, <1>2, <1>4 DEF RequestUnstake, Bonded, StakeTypeOK
<1>5. ASSUME NEW u \in Users, NEW amount \in Amounts, Withdraw(u, amount)
      PROVE  Escrow!Withdrawal \/ UNCHANGED <<usdc, Bonded, Cases>>
    <2>1. amount \in 0 .. Bonded[u]
        BY <1>1, <1>5, ParametersAssumption DEF Withdraw
    <2>2. usdc' = Escrow!Moved(usdc, StakeManagerAddr, u, amount)
        BY <1>5 DEF Withdraw, Moved, Escrow!Moved
    <2>3. Bonded' = [Bonded EXCEPT ![u] = @ - amount]
        BY <1>1, <1>5 DEF Withdraw, Bonded, StakeTypeOK
    <2>4. CASE amount > 0
        <3>1. amount \in 1 .. Bonded[u]
            BY <1>1, <2>1, <2>4
        <3> QED BY <1>2, <2>2, <2>3, <3>1 DEF Escrow!Withdrawal
    <2>5. CASE amount = 0
        <3>1. usdc' = usdc
            BY <1>1, <2>2, <2>5 DEF Escrow!Moved
        <3>2. Bonded' = Bonded
            BY <1>1, <2>3, <2>5
        <3> QED BY <1>2, <3>1, <3>2
    <2> QED BY <1>1, <2>1, <2>4, <2>5
<1>6. ASSUME StakeAdminStep \/ Tick
      PROVE  UNCHANGED <<usdc, Bonded, Cases>>
    BY <1>2, <1>6 DEF StakeAdminStep, SetTreasury, SetProtocolSlashBp, SetWithdrawCooldown,
                      SetMinimumStakeRequired, Tick, Bonded
<1> QED BY <1>3, <1>4, <1>5, <1>6 DEF StakingStep, UserStakeStep, Escrow!EscrowNext

(***************************************************************************)
(* openChallenge files a case, suspect at once if the server's answer of   *)
(* that moment already fails.                                              *)
(***************************************************************************)
LEMMA OpeningIsFiling ==
    ASSUME EnforcementTypeOK, NEW u \in Users, NEW eid, OpenStep(u, eid)
    PROVE  Escrow!File
<1> DEFINE n == Len(challenges) + 1
           k == [by |-> u, against |-> endpoints[eid].provider, status |-> "Pending",
                 suspect |-> ~clean'[n]]
           K == [by : Users, against : Users, status : Statuses, suspect : BOOLEAN]
<1>1. /\ eid \in DOMAIN endpoints
      /\ challengeFee \in 0 .. usdc[u]
      /\ usdc' = Escrow!Moved(usdc, u, ChallengeManagerAddr, challengeFee)
      /\ challenges' = Append(challenges, [challenger |-> u, endpointId |-> eid,
                                           status |-> "Pending"])
      /\ stakes' = stakes /\ endpoints' = endpoints
    <2>1. usdc[u] \in Nat /\ challengeFee \in Nat
        BY AccountsAssumption DEF EnforcementTypeOK, StakeTypeOK, ChallengeTypeOK
    <2> QED BY <2>1 DEF OpenStep, OpenChallenge, CanMove, registryVars, Moved, Escrow!Moved
<1>2. endpoints[eid].provider \in Users
    BY <1>1 DEF EnforcementTypeOK, RegistryTypeOK
<1>3. /\ n \in Nat \ {0} /\ ChallengeIds' = 1 .. n /\ ChallengeIds = 1 .. n - 1
      /\ \A id \in ChallengeIds : challenges'[id] = challenges[id] /\ clean'[id] = clean[id]
      /\ EnforcementTypeOK'
    BY OpenEffect
<1>4. /\ Cases \in Seq(K) /\ Len(Cases) = n - 1
      /\ \A id \in ChallengeIds :
            /\ challenges[id].endpointId \in DOMAIN endpoints
            /\ Cases[id] = [by |-> challenges[id].challenger, against |-> Challenged(id),
                            status |-> challenges[id].status, suspect |-> ~clean[id]]
    <2>1. Len(challenges) \in Nat
        BY LenProperties DEF EnforcementTypeOK, ChallengeTypeOK
    <2> QED BY <2>1, CasesTyped
<1>5. challenges'[n] = [challenger |-> u, endpointId |-> eid, status |-> "Pending"]
    <2> DEFINE c == [challenger |-> u, endpointId |-> eid, status |-> "Pending"]
               C == [challenger : Users, endpointId : DOMAIN endpoints, status : Statuses]
    <2>1. challenges \in Seq(C) /\ c \in C
        BY <1>1 DEF EnforcementTypeOK, ChallengeTypeOK, Statuses
    <2>2. challenges' = Append(challenges, c)
        BY <1>1
    <2> HIDE DEF c, C
    <2>3. challenges'[n] = c
        BY <2>1, <2>2, AppendKeeps
    <2> QED BY <2>3 DEF c
<1>6. Cases' = [id \in 1 .. n |->
                   [by |-> challenges'[id].challenger,
                    against |-> endpoints'[challenges'[id].endpointId].provider,
                    status |-> challenges'[id].status, suspect |-> ~clean'[id]]]
    BY <1>3 DEF Cases, Challenged
<1>7. ASSUME NEW id \in 1 .. n - 1 PROVE Cases'[id] = Cases[id]
    <2>1. /\ challenges'[id] = challenges[id] /\ clean'[id] = clean[id]
          /\ id \in 1 .. n /\ id \in ChallengeIds
        BY <1>3
    <2>2. Cases[id] = [by |-> challenges[id].challenger,
                       against |-> endpoints[challenges[id].endpointId].provider,
                       status |-> challenges[id].status, suspect |-> ~clean[id]]
        BY <1>4, <2>1 DEF Challenged
    <2> QED BY <1>1, <1>6, <2>1, <2>2
<1>8. Cases'[n] = k
    <2>1. n \in 1 .. n
        BY <1>3
    <2> QED BY <1>1, <1>5, <1>6, <2>1
<1>9. k \in K
    BY <1>2 DEF Statuses
<1>10. Cases' = Append(Cases, k)
    <2> HIDE DEF k, K, n
    <2>1. /\ Append(Cases, k) \in Seq(K) /\ Len(Append(Cases, k)) = n
          /\ \A i \in 1 .. n - 1 : Append(Cases, k)[i] = Cases[i]
          /\ Append(Cases, k)[n] = k
        BY <1>3, <1>4, <1>9, AppendKeeps
    <2>2. \A i \in 1 .. n : i = n \/ i \in 1 .. n - 1
        BY <1>3
    <2>3. \A i \in 1 .. n : Cases'[i] = Append(Cases, k)[i]
        BY <1>7, <1>8, <2>1, <2>2
    <2>4. Append(Cases, k) \in [1 .. n -> K]
        BY <2>1, LenProperties
    <2> QED BY <1>6, <2>3, <2>4
<1>11. Bonded' = Bonded
    BY <1>1 DEF Bonded
<1> DEFINE suspect == ~clean'[n]
<1>12. /\ suspect \in BOOLEAN
       /\ Cases' = Append(Cases, [by |-> u, against |-> endpoints[eid].provider,
                                  status |-> "Pending", suspect |-> suspect])
    BY <1>10
<1> HIDE DEF suspect, n
<1> QED BY <1>1, <1>2, <1>11, <1>12 DEF Escrow!File

(***************************************************************************)
(* An answer of a server can only add to what is suspected.                *)
(***************************************************************************)
LEMMA ServingIsSeeing ==
    ASSUME EnforcementTypeOK, NEW r \in Resources, NEW response \in Responses,
           ServeStep(r, response)
    PROVE  Escrow!Suspect
<1>1. UNCHANGED <<usdc, stakes, challenges, opened, endpoints>>
    BY DEF ServeStep, stakeVars, registryVars, challengeVars
<1>2. /\ Cases \in Seq([by : Users, against : Users, status : Statuses, suspect : BOOLEAN])
      /\ DOMAIN Cases = ChallengeIds
      /\ \A id \in ChallengeIds :
            Cases[id] = [by |-> challenges[id].challenger, against |-> Challenged(id),
                         status |-> challenges[id].status, suspect |-> ~clean[id]]
      /\ clean \in [ChallengeIds -> BOOLEAN]
    BY CasesTyped DEF EnforcementTypeOK
<1>3. ChallengeIds' = ChallengeIds /\ \A id \in ChallengeIds : Challenged(id)' = Challenged(id)
    BY <1>1 DEF ChallengeIds, Challenged
<1> DEFINE seen == {id \in ChallengeIds : clean[id] /\ ~clean'[id]}
<1>4. ASSUME NEW id \in ChallengeIds
      PROVE  ~clean'[id] <=> (~clean[id] \/ id \in seen)
    <2>1. clean'[id] = (clean[id] /\ (opened[id].endpointId[2] = r => Passes(opened[id], response)))
        BY Zenon DEF ServeStep
    <2> QED BY <2>1
<1>5. Cases' = [id \in ChallengeIds |->
                   [by |-> challenges[id].challenger, against |-> Challenged(id),
                    status |-> challenges[id].status, suspect |-> ~clean'[id]]]
    BY <1>1, <1>3 DEF Cases
<1>6. ASSUME NEW id \in ChallengeIds
      PROVE  [by |-> challenges[id].challenger, against |-> Challenged(id),
              status |-> challenges[id].status, suspect |-> ~clean'[id]]
             = [Cases[id] EXCEPT !.suspect = @ \/ id \in seen]
    <2>1. (~clean'[id]) = (Cases[id].suspect \/ id \in seen)
        <3>1. Cases[id].suspect = ~clean[id]
            BY <1>2
        <3> QED BY <1>4, <3>1
    <2> HIDE DEF seen
    <2> QED BY <1>2, <2>1
<1> HIDE DEF seen
<1>7. Cases' = [id \in DOMAIN Cases |-> [Cases[id] EXCEPT !.suspect = @ \/ id \in seen]]
    BY <1>2, <1>5, <1>6
<1>8. seen \in SUBSET DOMAIN Cases
    BY <1>2 DEF seen
<1>9. Bonded' = Bonded
    BY <1>1 DEF Bonded
<1> QED BY <1>1, <1>7, <1>8, <1>9 DEF Escrow!Suspect

(***************************************************************************)
(* What a report does to the cases: one is closed, nothing else changes.   *)
(***************************************************************************)
LEMMA ReportCloses ==
    ASSUME EnforcementTypeOK, NEW rep \in reports,
           OnReport(CREForwarder, rep.id, rep.result), UNCHANGED <<workflowVars, clean>>
    PROVE  /\ rep.id \in DOMAIN Cases
           /\ Cases[rep.id].status = "Pending"
           /\ Cases' = [Cases EXCEPT
                  ![rep.id].status = IF rep.result = 1 THEN "Valid" ELSE "Invalid"]
<1> DEFINE id == rep.id
           verdict == IF rep.result = 1 THEN "Valid" ELSE "Invalid"
<1>1. /\ id \in ChallengeIds /\ Pending(id) /\ ChallengeIds' = ChallengeIds
      /\ challenges' = [challenges EXCEPT ![id].status = verdict]
      /\ \A eid \in DOMAIN endpoints : endpoints'[eid].provider = endpoints[eid].provider
      /\ clean' = clean
    BY ReportEffect
<1>2. /\ DOMAIN Cases = ChallengeIds
      /\ \A i \in ChallengeIds :
            /\ challenges[i] \in [challenger : Users, endpointId : DOMAIN endpoints,
                                  status : Statuses]
            /\ Cases[i] = [by |-> challenges[i].challenger, against |-> Challenged(i),
                           status |-> challenges[i].status, suspect |-> ~clean[i]]
    BY CasesTyped
<1>3. DOMAIN challenges = ChallengeIds
    BY LenProperties DEF EnforcementTypeOK, ChallengeTypeOK, ChallengeIds
<1> HIDE DEF id, verdict
<1>4. ASSUME NEW i \in ChallengeIds
      PROVE  /\ challenges'[i].challenger = challenges[i].challenger
             /\ challenges'[i].endpointId = challenges[i].endpointId
             /\ challenges'[i].status = IF i = id THEN verdict ELSE challenges[i].status
    BY <1>1, <1>2, <1>3
<1>5. Cases' = [i \in ChallengeIds |->
                   [by |-> challenges'[i].challenger,
                    against |-> endpoints'[challenges'[i].endpointId].provider,
                    status |-> challenges'[i].status, suspect |-> ~clean'[i]]]
    BY <1>1 DEF Cases, Challenged
<1>6. ASSUME NEW i \in ChallengeIds
      PROVE  Cases'[i] = IF i = id THEN [Cases[i] EXCEPT !.status = verdict] ELSE Cases[i]
    <2>1. endpoints'[challenges'[i].endpointId].provider = Challenged(i)
        BY <1>1, <1>2, <1>4 DEF Challenged
    <2>2. Cases'[i] = [by |-> challenges[i].challenger, against |-> Challenged(i),
                       status |-> challenges'[i].status, suspect |-> ~clean[i]]
        BY <1>1, <1>4, <1>5, <2>1
    <2>3. CASE i = id
        BY <1>2, <1>4, <2>2, <2>3
    <2>4. CASE i # id
        BY <1>2, <1>4, <2>2, <2>4
    <2> QED BY <2>3, <2>4
<1>7. Cases' = [Cases EXCEPT ![id].status = verdict]
    <2>1. Cases = [i \in ChallengeIds |-> Cases[i]] /\ Cases' = [i \in ChallengeIds |-> Cases'[i]]
        BY <1>5 DEF Cases
    <2> QED BY <1>1, <1>6, <2>1
<1> QED BY <1>1, <1>2, <1>7 DEF id, verdict, Pending

(***************************************************************************)
(* A delivered report is a judgement.  That nobody is convicted without a  *)
(* sight of something wrong is what HonestInv adds: a report of fault is   *)
(* signed only after one.                                                  *)
(***************************************************************************)
LEMMA ReportIsJudgement ==
    ASSUME EnforcementTypeOK, HonestInv, treasury \in Treasuries, NEW rep \in reports,
           OnReport(CREForwarder, rep.id, rep.result), UNCHANGED <<workflowVars, clean>>
    PROVE  Escrow!Judge
<1> DEFINE id == rep.id
           p == Cases[id].against
           c == Cases[id].by
           SM == StakeManagerAddr
           CM == ChallengeManagerAddr
<1>1. /\ id \in ChallengeIds /\ id \in DOMAIN Cases /\ Cases[id].status = "Pending"
      /\ rep.result \in {0, 1}
      /\ Cases' = [Cases EXCEPT ![id].status = IF rep.result = 1 THEN "Valid" ELSE "Invalid"]
    BY ReportCloses, ReportEffect
<1>2. p = Challenged(id) /\ p \in Users /\ c = challenges[id].challenger /\ c \in Users
    <2>1. /\ challenges[id].challenger \in Users /\ Challenged(id) \in Users
          /\ Cases[id] = [by |-> challenges[id].challenger, against |-> Challenged(id),
                          status |-> challenges[id].status, suspect |-> ~clean[id]]
        BY <1>1, CasesTyped
    <2> QED BY <2>1
<1>3. /\ StakeTypeOK /\ usdc \in [Accounts -> Nat]
      /\ Bonded \in [Users -> Nat] /\ \A u \in Users : Bonded[u] = stakes[u].amount
      /\ stakes \in [Users -> [amount : Nat, unlockTimestamp : Nat]]
      /\ challengeFee \in Nat /\ slashBp \in Nat
    BY BondedTyped DEF EnforcementTypeOK, StakeTypeOK, ChallengeTypeOK
<1>4. Users \subseteq Accounts /\ SM \in Accounts /\ CM \in Accounts
    BY AccountsAssumption, ChallengeAssumption
<1>5. \A ledger, from, to, n : Escrow!Moved(ledger, from, to, n) = Moved(ledger, from, to, n)
    BY DEF Moved, Escrow!Moved
<1>6. CASE rep.result = 1
    <2>1. /\ usdc[CM] >= challengeFee /\ stakes' = stakes
          /\ usdc' = Moved(usdc, CM, p, challengeFee)
        BY <1>2, <1>6 DEF OnReport, SettleValid, CanMove
    <2>2. challengeFee \in 0 .. usdc[CM]
        BY <1>3, <1>4, <2>1
    <2>3. Bonded' = Bonded
        BY <2>1 DEF Bonded
    <2>4. Cases' = [Cases EXCEPT ![id].status = "Valid"]
        BY <1>1, <1>6
    <2>5. Escrow!Acquit(id)
        BY <1>5, <2>1, <2>2, <2>3, <2>4 DEF Escrow!Acquit
    <2> QED BY <1>1, <2>5 DEF Escrow!Judge
<1>7. CASE rep.result = 0
    <2> DEFINE loss == SlashAmount(p, slashBp)
               cut == ProtocolCut(p, slashBp)
               rewarded == SlashPaid(p, slashBp, c)
    <2>1. /\ SlashEnabled(p, slashBp)
          /\ rewarded[CM] >= challengeFee
          /\ usdc' = Moved(rewarded, CM, c, challengeFee)
          /\ stakes' = StakesAfterSlash(p, slashBp)
        BY <1>2, <1>7 DEF OnReport, SettleInvalid, CanMove
    <2>2. Cases[id].suspect
        <3>1. [id |-> id, result |-> 0] \in reports
            <4>1. rep \in [id : ChallengeIds, result : {0, 1}]
                BY DEF EnforcementTypeOK, WorkflowTypeOK
            <4> QED BY <1>7, <4>1
        <3>2. ~clean[id]
            BY <1>1, <3>1 DEF HonestInv
        <3>3. Cases[id].suspect = ~clean[id]
            BY <1>1, CasesTyped
        <3> QED BY <3>2, <3>3
    <2>3. Bonded[p] > 0 /\ loss \in 0 .. Bonded[p] /\ cut \in 0 .. loss
        BY <1>2, <1>3, <2>1, SlashBounds DEF SlashEnabled
    <2>4. Bonded' = [Bonded EXCEPT ![p] = @ - loss]
        <3>1. \A u \in Users : stakes'[u].amount = IF u = p THEN stakes[p].amount - loss
                                                            ELSE stakes[u].amount
            BY <1>2, <1>3, <2>1 DEF StakesAfterSlash
        <3> HIDE DEF loss
        <3>2. Bonded' = [u \in Users |-> IF u = p THEN Bonded[p] - loss ELSE Bonded[u]]
            BY <1>2, <1>3, <3>1 DEF Bonded
        <3> QED BY <1>2, <1>3, <3>2
    <2>5. PICK payee \in Treasuries \ {NoAddress} :
              rewarded = Moved(Moved(usdc, SM, payee, cut), SM, c, loss - cut)
        <3>1. CASE cut > 0
            <4>1. treasury \in Treasuries \ {NoAddress}
                BY <2>1, <3>1 DEF SlashEnabled, SlashCanPay
            <4>2. rewarded = Moved(Moved(usdc, SM, treasury, cut), SM, c, loss - cut)
                BY <3>1 DEF SlashPaid
            <4> QED BY <4>1, <4>2
        <3>2. CASE cut = 0
            <4>1. PICK t \in Treasuries \ {NoAddress} : TRUE
                BY AccountsAssumption
            <4>2. t \in Accounts
                BY AccountsAssumption
            <4>3. Moved(usdc, SM, t, 0) = usdc
                BY <1>3, <1>4, <4>2 DEF Moved
            <4>4. rewarded = Moved(usdc, SM, c, loss - cut)
                BY <3>2 DEF SlashPaid
            <4> HIDE DEF rewarded, loss, cut
            <4> QED BY <3>2, <4>3, <4>4
        <3> HIDE DEF rewarded
        <3> QED BY <2>3, <3>1, <3>2
    <2>6. challengeFee \in 0 .. rewarded[CM]
        <3>1. rewarded \in [Accounts -> Nat]
            BY <1>2, <1>3, <1>4, <2>1, SlashPaidType DEF SlashEnabled
        <3> HIDE DEF rewarded
        <3> QED BY <1>3, <1>4, <2>1, <3>1
    <2>7. Cases' = [Cases EXCEPT ![id].status = "Invalid"]
        BY <1>1, <1>7
    <2> HIDE DEF loss, cut, rewarded
    <2>8. Escrow!Convict(id)
        BY <1>5, <2>1, <2>2, <2>3, <2>4, <2>5, <2>6, <2>7 DEF Escrow!Convict
    <2> QED BY <1>1, <2>8 DEF Escrow!Judge
<1> QED BY <1>1, <1>6, <1>7

(***************************************************************************)
(* The refinement needs one invariant more: the treasury is one of those   *)
(* the admin may name.                                                     *)
(***************************************************************************)
EscrowInv == EnforcementTypeOK /\ HonestInv /\ treasury \in Treasuries

LEMMA TreasuryStep ==
    ASSUME EnforcementTypeOK, treasury \in Treasuries, [EnforcementNext]_enforcementVars
    PROVE  treasury' \in Treasuries
<1>1. CASE UNCHANGED stakeParams
    BY <1>1 DEF stakeParams
<1>2. CASE StakingStep
    BY <1>2 DEF StakingStep, UserStakeStep, Stake, RequestUnstake, Withdraw, StakeAdminStep,
                SetTreasury, SetProtocolSlashBp, SetWithdrawCooldown, SetMinimumStakeRequired,
                Tick, stakeParams
<1> QED BY <1>1, <1>2
        DEF EnforcementNext, RegistryStep, ChallengeAdminStep, OpenStep, OpenChallenge, ServeStep,
            VerifyStep, DeliverStep, OnReport, enforcementVars, stakeVars

LEMMA EscrowInvHolds == EnforcementSpec => []EscrowInv
<1>1. EnforcementInit => EscrowInv
    <2>1. EnforcementInit => ChallengeIds = {}
        BY EmptySeq DEF EnforcementInit, ChallengeInit, ChallengeIds
    <2> QED BY <2>1, EnforcementTypeInit
            DEF EscrowInv, HonestInv, EnforcementInit, StakeInit
<1>2. EscrowInv /\ [EnforcementNext]_enforcementVars => EscrowInv'
    BY EnforcementTypeStep, HonestStep, TreasuryStep DEF EscrowInv
<1> QED BY <1>1, <1>2, PTL DEF EnforcementSpec

(***************************************************************************)
(* Layer 0 implements the escrow of ChallengeEscrow.tla: whatever is       *)
(* registered, signed, delivered late or twice and set by the admins, each *)
(* transaction is one step of the escrow or none.                          *)
(***************************************************************************)
THEOREM EnforcementImplementsEscrow == EnforcementSpec => ImplementsEscrow
<1> SUFFICES EnforcementSpec => Escrow!EscrowSpec
    BY DEF ImplementsEscrow
<1> DEFINE escrow == <<usdc, Bonded, Cases>>
<1>1. EnforcementInit => Escrow!EscrowInit
    <2> SUFFICES ASSUME EnforcementInit PROVE Escrow!EscrowInit
        OBVIOUS
    <2>1. usdc[StakeManagerAddr] = 0 /\ usdc[ChallengeManagerAddr] = 0
        BY AccountsAssumption, ChallengeAssumption DEF EnforcementInit, StakeInit
    <2>2. Bonded = [u \in Users |-> 0]
        BY DEF EnforcementInit, StakeInit, Bonded, NoStake
    <2>3. Cases = <<>>
        <3>1. Cases \in Seq([by : Users, against : Users, status : Statuses, suspect : BOOLEAN])
            BY EnforcementTypeInit, CasesTyped
        <3>2. Len(Cases) = 0
            BY EnforcementTypeInit, CasesTyped, EmptySeq DEF EnforcementInit, ChallengeInit
        <3> QED BY <3>1, <3>2, EmptySeq
    <2> QED BY <2>1, <2>2, <2>3 DEF Escrow!EscrowInit
<1>2. EscrowInv /\ [EnforcementNext]_enforcementVars => [Escrow!EscrowNext]_escrow
    <2> SUFFICES ASSUME EscrowInv, [EnforcementNext]_enforcementVars
                 PROVE  [Escrow!EscrowNext]_escrow
        OBVIOUS
    <2>1. EnforcementTypeOK /\ HonestInv /\ treasury \in Treasuries /\ RegistryTypeOK
        BY DEF EscrowInv, EnforcementTypeOK
    <2>2. ASSUME UNCHANGED <<usdc, stakes, challenges, clean>>,
                 \A eid \in DOMAIN endpoints : endpoints'[eid].provider = endpoints[eid].provider
          PROVE  UNCHANGED escrow
        BY <2>1, <2>2, CasesKept DEF Bonded
    <2>3. CASE StakingStep
        BY <2>1, <2>3, StakingIsEscrow
    <2>4. CASE RegistryStep
        <3>1. UNCHANGED <<usdc, stakes, challenges, clean>>
            BY <2>4 DEF RegistryStep, stakeVars, challengeVars
        <3> QED BY <2>1, <2>2, <2>4, <3>1, RegistryKeepsProviders
    <2>5. CASE ChallengeAdminStep
        <3>1. UNCHANGED <<usdc, stakes, challenges, clean, endpoints>>
            BY <2>5 DEF ChallengeAdminStep, SetForwarder, SetChallengeFee, SetSlashBp,
                        stakeVars, registryVars
        <3> QED BY <2>2, <3>1
    <2>6. ASSUME NEW u \in Users, NEW eid \in EndpointIds, OpenStep(u, eid)
          PROVE  Escrow!EscrowNext
        BY <2>1, <2>6, OpeningIsFiling DEF Escrow!EscrowNext
    <2>7. ASSUME NEW r \in Resources, NEW response \in Responses, ServeStep(r, response)
          PROVE  Escrow!EscrowNext
        BY <2>1, <2>7, ServingIsSeeing DEF Escrow!EscrowNext
    <2>8. ASSUME NEW id \in ChallengeIds, VerifyStep(id)
          PROVE  UNCHANGED escrow
        <3>1. UNCHANGED <<usdc, stakes, challenges, clean, endpoints>>
            BY <2>8 DEF VerifyStep, stakeVars, registryVars, challengeVars
        <3> QED BY <2>2, <3>1
    <2>9. CASE DeliverStep
        <3>1. PICK rep \in reports : OnReport(CREForwarder, rep.id, rep.result)
            BY <2>9 DEF DeliverStep
        <3>2. UNCHANGED <<workflowVars, clean>>
            BY <2>9 DEF DeliverStep
        <3> QED BY <2>1, <3>1, <3>2, ReportIsJudgement DEF Escrow!EscrowNext
    <2>10. CASE UNCHANGED enforcementVars
        <3>1. UNCHANGED <<usdc, stakes, challenges, clean, endpoints>>
            BY <2>10 DEF enforcementVars, stakeVars, registryVars, challengeVars
        <3> QED BY <2>2, <3>1
    <2> HIDE DEF escrow
    <2> QED BY <2>3, <2>4, <2>5, <2>6, <2>7, <2>8, <2>9, <2>10 DEF EnforcementNext, escrow
<1> QED BY <1>1, <1>2, EscrowInvHolds, PTL DEF EnforcementSpec, Escrow!EscrowSpec, Escrow!escrowVars

-----------------------------------------------------------------------------
(***************************************************************************)
(* Registering, updating and challenging with the tools.  The types.       *)
(***************************************************************************)

PCs == {"idle", "fetch", "send", "read", "write", "show", "balance", "readFee", "allow",
        "approving", "open", "wait"}

Cmds == {"none", "register", "update", "provider", "challenge"}

ProviderRead == [splitter : Splitters, uri : Metadata]

Locals == [pc : PCs, cmd : Cmds, endpoint : Resources, flags : Flags,
           read : {Keep} \cup Answers \cup ProviderRead,
           url : {URL, BarePath} \cup {a.resource : a \in Answers},
           splitter : Splitters \cup {Keep}, uri : Metadata \cup {Keep}, fee : Nat]

OneProvider == {<<[owner |-> Owner, revenueSplitter |-> spl]>> : spl \in Splitters}

EndpointFields == {"provider", "integrityHash", "version", "lastCheckedAt"}

OnboardingTypeOK ==
    /\ usdc \in [Accounts -> Nat]
    /\ challengeFee \in Nat /\ feeAllowance \in Nat /\ quoted \in Nat
    /\ answer \in Answers
    /\ metadata \in Metadata
    /\ providers \in OneProvider
    /\ named \in Splitters
    /\ raced \in BOOLEAN
    /\ session \in [Tools -> Locals]
    /\ pool \subseteq [by : Tools, what : Locals]
    /\ DOMAIN source = DOMAIN endpoints
    /\ DOMAIN endpoints \subseteq {1} \X Resources
    /\ \A eid \in DOMAIN endpoints : DOMAIN endpoints[eid] = EndpointFields

(***************************************************************************)
(* Every hash on record is that of flags and of an answer some tool has    *)
(* fetched, but for the URL, with the splitter of that moment put in for   *)
(* the payTo.                                                              *)
(***************************************************************************)
Noted(src, f) == IF src.flags[f] # Keep THEN src.flags[f] ELSE src.answer[f]

FromSource(e, src) ==
    /\ e.integrityHash.terms = [amount |-> Noted(src, "amount"), asset |-> Noted(src, "asset"),
                                url |-> e.integrityHash.terms.url]
    /\ e.integrityHash = Hash(e.integrityHash.terms, e.integrityHash.payTo)
    /\ Noted(src, "payTo") \in {NoAddress, e.integrityHash.payTo}

HashInv ==
    /\ served = Serving(answer)
    /\ \A eid \in DOMAIN endpoints : FromSource(endpoints[eid], source[eid])

(***************************************************************************)
(* While no two update-provider commands overlapped, at most one is under  *)
(* way, in a session or in the pool, and what it has read is still what    *)
(* the registry holds.                                                     *)
(***************************************************************************)
Fresh(local) ==
    \/ AllGiven(local.splitter, local.uri)
    \/ /\ local.read \in ProviderRead
       /\ raced \/ local.read.splitter = providers[1].revenueSplitter

Updating(s) == session[s].cmd = "provider" /\ session[s].pc # "wait"

IsUpdate(tx) == tx.what.cmd = "provider"

AllFresh ==
    /\ \A s \in Tools : At(s, "provider", "write") => Fresh(session[s])
    /\ \A tx \in pool : IsUpdate(tx) => Fresh(tx.what)

AtMostOne ==
    raced \/ /\ \A s \in Tools, t \in Tools : Updating(s) /\ Updating(t) => s = t
             /\ \A s \in Tools, tx \in pool : ~(Updating(s) /\ IsUpdate(tx))
             /\ \A tx \in pool, ux \in pool : IsUpdate(tx) /\ IsUpdate(ux) => tx = ux

ProviderInv == SplitterAsNamed /\ AllFresh /\ AtMostOne

(***************************************************************************)
(* What is approved, or about to be, was read as the fee before.           *)
(***************************************************************************)
ToApprove(local) == local.cmd = "challenge" /\ local.pc = "allow"

FeeInv ==
    /\ feeAllowance <= quoted
    /\ \A s \in Tools : ToApprove(session[s]) => session[s].fee <= quoted
    /\ \A tx \in pool : ToApprove(tx.what) => tx.what.fee <= quoted

OnboardingInv == OnboardingTypeOK /\ HashInv /\ ProviderInv /\ FeeInv

-----------------------------------------------------------------------------
(***************************************************************************)
(* A step of one session's locals that leaves chain and pool alone.        *)
(***************************************************************************)
Only(s) ==
    /\ session' \in [Tools -> Locals]
    /\ \A r \in Tools \ {s} : session'[r] = session[r]

LEMMA IdleIsLocal == Idle \in Locals
    BY OnboardingAssumption DEF Idle, Locals, PCs, Cmds

LEMMA BecomeLocal ==
    ASSUME session \in [Tools -> Locals], NEW s \in Tools, NEW local \in Locals, Become(s, local)
    PROVE  Only(s) /\ session'[s] = local
    BY DEF Become, Only

LEMMA GotoLocal ==
    ASSUME session \in [Tools -> Locals], NEW s \in Tools, NEW place \in PCs, Goto(s, place)
    PROVE  /\ Only(s) /\ session'[s] = [session[s] EXCEPT !.pc = place]
           /\ session'[s].pc = place /\ session'[s].cmd = session[s].cmd
    BY DEF Goto, Become, Only, Locals

LEMMA EndLocal ==
    ASSUME session \in [Tools -> Locals], NEW s \in Tools, End(s)
    PROVE  Only(s) /\ session'[s] = Idle /\ session'[s].cmd = "none"
    BY IdleIsLocal DEF End, Idle, Only

ContractsKept ==
    UNCHANGED <<usdc, challengeFee, feeAllowance, metadata, providers, endpoints, challenges>>

HistoryKept == UNCHANGED <<answer, served, source, named>>

LocalStep(s) ==
    /\ Only(s)
    /\ ContractsKept /\ HistoryKept /\ pool' = pool
    /\ quoted' \in Nat /\ quoted' >= quoted
    /\ raced' \in BOOLEAN /\ (raced => raced')
    /\ Updating(s)' => Updating(s) \/ raced' \/ ~UpdateUnderWay
    /\ At(s, "provider", "write")' =>
           \/ AllGiven(session'[s].splitter, session'[s].uri)
           \/ /\ session'[s].read \in ProviderRead
              /\ session'[s].read.splitter = providers[1].revenueSplitter
    /\ ToApprove(session'[s]) => session'[s].fee <= quoted'

LEMMA LocalStepInv ==
    ASSUME OnboardingInv, NEW s \in Tools, LocalStep(s)
    PROVE  OnboardingInv'
<1>1. OnboardingTypeOK'
    BY DEF OnboardingInv, OnboardingTypeOK, LocalStep, Only, ContractsKept, HistoryKept
<1>2. HashInv'
    BY DEF OnboardingInv, HashInv, FromSource, Noted, LocalStep, ContractsKept, HistoryKept
<1>3. ProviderInv'
    <2>1. SplitterAsNamed'
        BY DEF OnboardingInv, ProviderInv, SplitterAsNamed, LocalStep, ContractsKept, HistoryKept
    <2>2. AllFresh'
        <3>1. ASSUME NEW r \in Tools, At(r, "provider", "write")'
              PROVE  Fresh(session[r])'
            BY <3>1 DEF OnboardingInv, ProviderInv, AllFresh, Fresh, LocalStep, ContractsKept,
               Only, At
        <3>2. ASSUME NEW tx \in pool, IsUpdate(tx)
              PROVE  Fresh(tx.what)'
            BY <3>2 DEF OnboardingInv, ProviderInv, AllFresh, Fresh, LocalStep, ContractsKept
        <3> QED BY <3>1, <3>2 DEF AllFresh, LocalStep, IsUpdate
    <2>3. AtMostOne'
        <3> SUFFICES ASSUME ~raced' PROVE AtMostOne'
            BY DEF AtMostOne
        <3>1. /\ ~raced /\ pool' = pool
              /\ \A r \in Tools \ {s} : Updating(r)' = Updating(r)
              /\ Updating(s)' => \/ Updating(s)
                                 \/ /\ \A r \in Tools : ~Updating(r)
                                    /\ \A tx \in pool : ~IsUpdate(tx)
            BY DEF LocalStep, Only, Updating, UpdateUnderWay, IsUpdate
        <3> QED BY <3>1 DEF OnboardingInv, ProviderInv, AtMostOne, IsUpdate
    <2> QED BY <2>1, <2>2, <2>3 DEF ProviderInv
<1>4. FeeInv'
    <2>1. feeAllowance' <= quoted'
        BY DEF OnboardingInv, OnboardingTypeOK, FeeInv, LocalStep, ContractsKept
    <2>2. ASSUME NEW r \in Tools, ToApprove(session'[r])
          PROVE  session'[r].fee <= quoted'
        BY <2>2 DEF OnboardingInv, OnboardingTypeOK, FeeInv, LocalStep, Only, Locals
    <2>3. ASSUME NEW tx \in pool, ToApprove(tx.what)
          PROVE  tx.what.fee <= quoted'
        BY <2>3 DEF OnboardingInv, OnboardingTypeOK, FeeInv, LocalStep, Locals
    <2> QED BY <2>1, <2>2, <2>3 DEF FeeInv, LocalStep, ToApprove
<1> QED BY <1>1, <1>2, <1>3, <1>4 DEF OnboardingInv

LEMMA OnlySessionKeeps ==
    ASSUME OnlySession
    PROVE  /\ ContractsKept /\ HistoryKept
           /\ quoted' = quoted /\ raced' = raced /\ pool' = pool
    BY DEF OnlySession, ChainUnchanged, ContractsKept, HistoryKept, stakeVars, registryVars,
           challengeVars, challengeParams, toolVars, workflowVars, traceVars

(***************************************************************************)
(* The steps that are such.                                                *)
(***************************************************************************)
LEMMA BeginStep ==
    ASSUME OnboardingInv, NEW s \in Tools, NEW local \in Locals, Begin(s, local),
           raced' = raced \/ raced' = (raced \/ UpdateUnderWay),
           \/ local.cmd # "provider" /\ local.pc # "allow"
           \/ /\ local.cmd = "provider"
              /\ raced' = (raced \/ UpdateUnderWay)
              /\ local.pc = "write" => AllGiven(local.splitter, local.uri)
    PROVE  LocalStep(s)
<1>1. /\ Only(s) /\ session'[s] = local
    BY BecomeLocal DEF Begin, OnboardingInv, OnboardingTypeOK
<1>2. /\ ContractsKept /\ HistoryKept /\ quoted' = quoted /\ pool' = pool
    BY DEF Begin, ChainUnchanged, ContractsKept, HistoryKept, stakeVars, registryVars,
           challengeVars, challengeParams, toolVars, workflowVars
<1>3. quoted \in Nat /\ raced \in BOOLEAN /\ UpdateUnderWay \in BOOLEAN
    BY DEF OnboardingInv, OnboardingTypeOK, UpdateUnderWay
<1>4. raced' \in BOOLEAN /\ (raced => raced')
    BY <1>3
<1>5. local.cmd = "provider" => raced' \/ ~UpdateUnderWay
    BY <1>3
<1> QED BY <1>1, <1>2, <1>3, <1>4, <1>5 DEF LocalStep, At, Updating, ToApprove

LEMMA CommandSteps ==
    ASSUME OnboardingInv, NEW s \in Tools,
           \/ \E method \in Methods, flags \in Flags : RegisterCommand(s, method, flags)
           \/ \E endpoint \in Resources :
                  \/ \E flags \in Flags : UpdateCommand(s, endpoint, flags)
                  \/ ChallengeCommand(s, endpoint)
           \/ \E spl \in Splitters \cup {Keep}, uri \in Metadata \cup {Keep} :
                  UpdateProviderCommand(s, spl, uri)
    PROVE  LocalStep(s)
<1>1. ASSUME NEW method \in Methods, NEW flags \in Flags, RegisterCommand(s, method, flags)
      PROVE  LocalStep(s)
    <2> DEFINE local == [Idle EXCEPT !.cmd = "register", !.pc = "fetch", !.flags = flags,
                                     !.endpoint = <<PathRegistered(s), method>>]
    <2>1. local \in Locals /\ local.cmd = "register" /\ local.pc = "fetch"
        BY <1>1, IdleIsLocal DEF Idle, Locals, PCs, Cmds, RegisterCommand
    <2>2. Begin(s, local) /\ raced' = raced
        BY <1>1 DEF RegisterCommand
    <2> HIDE DEF local
    <2> QED BY <2>1, <2>2, BeginStep
<1>2. ASSUME NEW endpoint \in Resources, NEW flags \in Flags, UpdateCommand(s, endpoint, flags)
      PROVE  LocalStep(s)
    <2> DEFINE local == [Idle EXCEPT !.cmd = "update", !.pc = "fetch", !.flags = flags,
                                     !.endpoint = endpoint]
    <2>1. local \in Locals /\ local.cmd = "update" /\ local.pc = "fetch"
        BY IdleIsLocal, OnboardingAssumption DEF Idle, Locals, PCs, Cmds
    <2>2. Begin(s, local) /\ raced' = raced
        BY <1>2 DEF UpdateCommand
    <2> HIDE DEF local
    <2> QED BY <2>1, <2>2, BeginStep
<1>3. ASSUME NEW endpoint \in Resources, ChallengeCommand(s, endpoint)
      PROVE  LocalStep(s)
    <2> DEFINE place == IF s = "cli" THEN "show" ELSE "readFee"
               local == [Idle EXCEPT !.cmd = "challenge", !.pc = place, !.endpoint = endpoint]
    <2>1. place \in PCs /\ place # "allow"
        BY DEF PCs
    <2>2. Begin(s, local) /\ raced' = raced
        BY <1>3 DEF ChallengeCommand
    <2> HIDE DEF place
    <2>3. local \in Locals /\ local.cmd = "challenge" /\ local.pc = place
        BY <2>1, IdleIsLocal, OnboardingAssumption DEF Idle, Locals, Cmds
    <2> HIDE DEF local
    <2> QED BY <2>1, <2>2, <2>3, BeginStep
<1>4. ASSUME NEW spl \in Splitters \cup {Keep}, NEW uri \in Metadata \cup {Keep},
             UpdateProviderCommand(s, spl, uri)
      PROVE  LocalStep(s)
    <2> DEFINE place == IF s = "script" THEN "write" ELSE "read"
               local == [Idle EXCEPT !.cmd = "provider", !.pc = place,
                                     !.splitter = spl, !.uri = uri]
    <2>1. place \in PCs /\ (place = "write" => AllGiven(spl, uri))
        BY <1>4 DEF PCs, UpdateProviderCommand
    <2>2. Begin(s, local) /\ raced' = (raced \/ UpdateUnderWay)
        BY <1>4 DEF UpdateProviderCommand
    <2> HIDE DEF place
    <2>3. /\ local \in Locals /\ local.cmd = "provider" /\ local.pc = place
          /\ local.splitter = spl /\ local.uri = uri
        BY <2>1, IdleIsLocal DEF Idle, Locals, Cmds
    <2> HIDE DEF local
    <2> QED BY <2>1, <2>2, <2>3, BeginStep
<1> QED BY <1>1, <1>2, <1>3, <1>4

LEMMA EndStep ==
    ASSUME OnboardingInv, NEW s \in Tools, End(s), ContractsKept, HistoryKept,
           quoted' = quoted, raced' = raced, pool' = pool
    PROVE  LocalStep(s)
<1>1. Only(s) /\ session'[s].cmd = "none"
    BY EndLocal DEF OnboardingInv, OnboardingTypeOK
<1>2. quoted \in Nat /\ raced \in BOOLEAN
    BY DEF OnboardingInv, OnboardingTypeOK
<1> QED BY <1>1, <1>2 DEF LocalStep, At, Updating, ToApprove

LEMMA FetchStep ==
    ASSUME OnboardingInv, NEW s \in Tools, Fetch(s)
    PROVE  LocalStep(s)
<1>1. /\ session \in [Tools -> Locals] /\ session[s] \in Locals /\ answer \in Answers
      /\ quoted \in Nat /\ raced \in BOOLEAN
    BY DEF OnboardingInv, OnboardingTypeOK
<1>2. ContractsKept /\ HistoryKept /\ quoted' = quoted /\ raced' = raced /\ pool' = pool
    BY OnlySessionKeeps DEF Fetch
<1>3. CASE End(s)
    BY <1>2, <1>3, EndStep
<1>4. UrlHashed(s) \in {URL, BarePath} \cup {a.resource : a \in Answers}
    <2>1. session[s].endpoint \in Resources
        BY <1>1 DEF Locals
    <2>2. session[s].endpoint[1] \in {URL, BarePath}
        BY <2>1, OnboardingAssumption
    <2> QED BY <1>1, <2>2 DEF UrlHashed
<1>5. ASSUME NEW local \in Locals, local.cmd = session[s].cmd, local.pc = "send",
             Become(s, local)
      PROVE  LocalStep(s)
    <2>1. Only(s) /\ session'[s] = local
        BY <1>1, <1>5, BecomeLocal
    <2>2. local.cmd \in {"register", "update"}
        BY <1>5 DEF Fetch
    <2> QED BY <1>1, <1>2, <1>5, <2>1, <2>2 DEF LocalStep, At, Updating, ToApprove
<1>6. CASE Become(s, [session[s] EXCEPT !.pc = "send", !.url = UrlHashed(s)])
    <2> DEFINE local == [session[s] EXCEPT !.pc = "send", !.url = UrlHashed(s)]
    <2>1. local \in Locals /\ local.cmd = session[s].cmd /\ local.pc = "send"
        BY <1>1, <1>4 DEF Locals, PCs
    <2> HIDE DEF local
    <2> QED BY <1>5, <1>6, <2>1 DEF local
<1>7. CASE Become(s, [session[s] EXCEPT !.pc = "send", !.read = answer, !.url = UrlHashed(s)])
    <2> DEFINE local == [session[s] EXCEPT
                           !.pc = "send", !.read = answer, !.url = UrlHashed(s)]
    <2>1. local \in Locals /\ local.cmd = session[s].cmd /\ local.pc = "send"
        BY <1>1, <1>4 DEF Locals, PCs
    <2> HIDE DEF local
    <2> QED BY <1>5, <1>7, <2>1 DEF local
<1> QED BY <1>3, <1>6, <1>7 DEF Fetch

LEMMA ReadProviderStep ==
    ASSUME OnboardingInv, NEW s \in Tools, ReadProvider(s)
    PROVE  LocalStep(s)
<1> DEFINE read == [splitter |-> providers[1].revenueSplitter, uri |-> metadata]
           local == [session[s] EXCEPT !.pc = "write", !.read = read]
<1>1. /\ session[s] \in Locals /\ session \in [Tools -> Locals]
      /\ quoted \in Nat /\ raced \in BOOLEAN
    BY DEF OnboardingInv, OnboardingTypeOK
<1>2. ContractsKept /\ HistoryKept /\ quoted' = quoted /\ raced' = raced /\ pool' = pool
    BY OnlySessionKeeps DEF ReadProvider
<1>3. read \in ProviderRead /\ read.splitter = providers[1].revenueSplitter
    BY DEF OnboardingInv, OnboardingTypeOK, OneProvider, ProviderRead
<1>4. Become(s, local) /\ Updating(s)
    BY DEF ReadProvider, At, Updating
<1> HIDE DEF read
<1>5. local \in Locals /\ local.cmd = "provider" /\ local.read = read
    BY <1>1, <1>3, <1>4 DEF Locals, PCs, Updating
<1> HIDE DEF local
<1>6. Only(s) /\ session'[s] = local
    BY <1>1, <1>4, <1>5, BecomeLocal
<1> QED BY <1>1, <1>2, <1>3, <1>4, <1>5, <1>6 DEF LocalStep, At, ToApprove

LEMMA ChallengeReads ==
    ASSUME OnboardingInv, NEW s \in Tools,
           \/ ShowFee(s) \/ CheckBalance(s) \/ ReadFee(s)
           \/ EnoughAllowed(s) \/ SeeApproval(s)
    PROVE  LocalStep(s)
<1>1. /\ session \in [Tools -> Locals] /\ session[s] \in Locals /\ challengeFee \in Nat
      /\ quoted \in Nat /\ raced \in BOOLEAN
    BY DEF OnboardingInv, OnboardingTypeOK
<1>2. CASE ShowFee(s)
    <2> DEFINE local == [session[s] EXCEPT !.pc = "balance", !.fee = challengeFee]
    <2>1. ContractsKept /\ HistoryKept /\ quoted' = quoted /\ raced' = raced /\ pool' = pool
        BY <1>2, OnlySessionKeeps DEF ShowFee
    <2>2. Become(s, local) /\ session[s].cmd = "challenge"
        BY <1>2 DEF ShowFee, At
    <2>3. local \in Locals /\ local.cmd = "challenge" /\ local.pc = "balance"
        BY <1>1, <2>2 DEF Locals, PCs
    <2> HIDE DEF local
    <2>4. Only(s) /\ session'[s] = local
        BY <1>1, <2>2, <2>3, BecomeLocal
    <2> QED BY <1>1, <2>1, <2>3, <2>4 DEF LocalStep, At, Updating, ToApprove
<1>3. ASSUME NEW place \in {"readFee", "open"}, Goto(s, place), OnlySession,
             session[s].cmd = "challenge"
      PROVE  LocalStep(s)
    <2>1. ContractsKept /\ HistoryKept /\ quoted' = quoted /\ raced' = raced /\ pool' = pool
        BY <1>3, OnlySessionKeeps
    <2>2. /\ Only(s) /\ session'[s].pc = place /\ session'[s].cmd = "challenge"
        BY <1>1, <1>3, GotoLocal DEF PCs
    <2> QED BY <1>1, <2>1, <2>2 DEF LocalStep, At, Updating, ToApprove
<1>4. CASE CheckBalance(s)
    <2>1. CASE End(s)
        <3>1. ContractsKept /\ HistoryKept /\ quoted' = quoted /\ raced' = raced /\ pool' = pool
            BY <1>4, OnlySessionKeeps DEF CheckBalance
        <3> QED BY <2>1, <3>1, EndStep
    <2>2. CASE Goto(s, "readFee")
        BY <1>3, <1>4, <2>2 DEF CheckBalance, At
    <2> QED BY <1>4, <2>1, <2>2 DEF CheckBalance
<1>5. CASE ReadFee(s)
    <2> DEFINE local == [session[s] EXCEPT !.pc = "allow", !.fee = challengeFee]
    <2>1. ContractsKept /\ HistoryKept /\ raced' = raced /\ pool' = pool
        BY <1>5 DEF ReadFee, ChainUnchanged, ContractsKept, HistoryKept, stakeVars, registryVars,
               challengeVars, challengeParams, toolVars, workflowVars
    <2>2. quoted' \in Nat /\ quoted' >= quoted /\ quoted' >= challengeFee
        BY <1>1, <1>5 DEF ReadFee
    <2>3. Become(s, local) /\ session[s].cmd = "challenge"
        BY <1>5 DEF ReadFee, At
    <2>4. /\ local \in Locals /\ local.cmd = "challenge" /\ local.pc = "allow"
          /\ local.fee = challengeFee
        BY <1>1, <2>3 DEF Locals, PCs
    <2> HIDE DEF local
    <2>5. Only(s) /\ session'[s] = local
        BY <1>1, <2>3, <2>4, BecomeLocal
    <2> QED BY <1>1, <2>1, <2>2, <2>4, <2>5 DEF LocalStep, At, Updating, ToApprove
<1>6. CASE EnoughAllowed(s)
    BY <1>3, <1>6 DEF EnoughAllowed, At
<1>7. CASE SeeApproval(s)
    BY <1>3, <1>7 DEF SeeApproval, At
<1> QED BY <1>2, <1>4, <1>5, <1>6, <1>7

LEMMA EndingSteps ==
    ASSUME OnboardingInv, NEW s \in Tools, SeeReceipt(s) \/ CutOff(s)
    PROVE  LocalStep(s)
<1>1. End(s)
    BY DEF SeeReceipt, CutOff
<1>2. OnlySession \/ CutOff(s)
    BY DEF SeeReceipt
<1>3. ContractsKept /\ HistoryKept /\ quoted' = quoted /\ raced' = raced /\ pool' = pool
    BY <1>2, OnlySessionKeeps DEF CutOff, ChainUnchanged, ContractsKept, HistoryKept, stakeVars,
       registryVars, challengeVars, challengeParams, toolVars, workflowVars, traceVars
<1> QED BY <1>1, <1>3, EndStep

-----------------------------------------------------------------------------
(***************************************************************************)
(* Sending: what the session was about to do is in the pool.               *)
(***************************************************************************)
LEMMA SendInv ==
    ASSUME OnboardingInv, NEW s \in Tools,
           SendEndpoint(s) \/ SendProvider(s) \/ SendApproval(s) \/ SendChallenge(s)
    PROVE  OnboardingInv' /\ challenges' = challenges
<1> DEFINE sent == [by |-> s, what |-> session[s]]
<1>1. PICK next \in {"wait", "approving"} :
          /\ Send(s, next)
          /\ session[s].cmd = "provider" => session[s].pc = "write" /\ next = "wait"
    BY DEF SendEndpoint, SendProvider, SendApproval, SendChallenge, At
<1>2. /\ session \in [Tools -> Locals] /\ session[s] \in Locals
      /\ ContractsKept /\ HistoryKept /\ quoted' = quoted /\ raced' = raced
      /\ pool' = pool \cup {sent}
    BY <1>1 DEF Send, ChainUnchanged, ContractsKept, HistoryKept, stakeVars, registryVars,
       challengeVars, challengeParams, toolVars, workflowVars, traceVars, OnboardingInv,
       OnboardingTypeOK
<1>3. /\ Only(s) /\ session'[s].pc = next /\ session'[s].cmd = session[s].cmd
    BY <1>1, <1>2, GotoLocal DEF Send, PCs
<1>4. sent \in [by : Tools, what : Locals] /\ sent.what = session[s]
    BY <1>2
<1> HIDE DEF sent
<1>5. OnboardingTypeOK'
    BY <1>2, <1>3, <1>4 DEF OnboardingInv, OnboardingTypeOK, Only, ContractsKept, HistoryKept
<1>6. HashInv'
    BY <1>2 DEF OnboardingInv, HashInv, FromSource, Noted, ContractsKept, HistoryKept
<1>7. ProviderInv'
    <2>1. SplitterAsNamed'
        BY <1>2 DEF OnboardingInv, ProviderInv, SplitterAsNamed, ContractsKept, HistoryKept
    <2>2. IsUpdate(sent) => Updating(s) /\ At(s, "provider", "write") /\ ~Updating(s)'
        BY <1>1, <1>3, <1>4 DEF IsUpdate, Updating, At
    <2>3. AllFresh'
        <3>1. ASSUME NEW r \in Tools, At(r, "provider", "write")'
              PROVE  Fresh(session[r])'
            BY <1>2, <1>3, <3>1 DEF OnboardingInv, ProviderInv, AllFresh, Fresh, ContractsKept,
               Only, At
        <3>2. ASSUME NEW tx \in pool', IsUpdate(tx)
              PROVE  Fresh(tx.what)'
            <4>1. Fresh(tx.what)
                BY <1>2, <1>4, <2>2, <3>2 DEF OnboardingInv, ProviderInv, AllFresh
            <4> QED BY <1>2, <4>1 DEF Fresh, ContractsKept
        <3> QED BY <3>1, <3>2 DEF AllFresh, IsUpdate
    <2>4. AtMostOne'
        <3> SUFFICES ASSUME ~raced PROVE AtMostOne'
            BY <1>2 DEF AtMostOne
        <3>1. \A r \in Tools \ {s} : Updating(r)' = Updating(r)
            BY <1>3 DEF Only, Updating
        <3>2. Updating(s)' => Updating(s)
            BY <1>1, <1>3 DEF Updating
        <3>3. AtMostOne
            BY DEF OnboardingInv, ProviderInv
        <3> QED BY <1>2, <2>2, <3>1, <3>2, <3>3 DEF AtMostOne, IsUpdate
    <2> QED BY <2>1, <2>3, <2>4 DEF ProviderInv
<1>8. FeeInv'
    <2>1. ASSUME NEW r \in Tools, ToApprove(session'[r])
          PROVE  ToApprove(session[r]) /\ session'[r] = session[r]
        BY <1>3, <2>1 DEF Only, ToApprove
    <2> QED BY <1>2, <1>4, <2>1 DEF OnboardingInv, FeeInv, ToApprove, ContractsKept
<1> QED BY <1>2, <1>5, <1>6, <1>7, <1>8 DEF OnboardingInv, ContractsKept

-----------------------------------------------------------------------------
(***************************************************************************)
(* A transaction that leaves the pool, mined or not.                       *)
(***************************************************************************)
Taken(tx) ==
    /\ tx \in pool /\ pool' = pool \ {tx}
    /\ UNCHANGED <<session, raced, quoted, answer, served>>

LEMMA TakenKeepsUpdates ==
    ASSUME OnboardingInv, NEW tx, Taken(tx), UNCHANGED <<providers, named>>
    PROVE  ProviderInv'
<1>1. SplitterAsNamed' /\ AtMostOne'
    BY DEF OnboardingInv, ProviderInv, SplitterAsNamed, AtMostOne, Taken, Updating
<1>2. AllFresh'
    BY DEF OnboardingInv, ProviderInv, AllFresh, Fresh, Taken, At
<1> QED BY <1>1, <1>2 DEF ProviderInv

LEMMA TakenKeepsFees ==
    ASSUME OnboardingInv, NEW tx, Taken(tx), feeAllowance' <= quoted
    PROVE  FeeInv'
    BY DEF OnboardingInv, FeeInv, Taken

LEMMA TakenKeepsHashes ==
    ASSUME OnboardingInv, NEW tx, Taken(tx), UNCHANGED <<endpoints, source>>
    PROVE  HashInv'
    BY DEF OnboardingInv, HashInv, FromSource, Noted, Taken, Serving, CRERead

LEMMA EndpointMinedInv ==
    ASSUME OnboardingInv, NEW tx \in pool, EndpointMined(tx)
    PROVE  OnboardingInv' /\ challenges' = challenges
<1> DEFINE local == tx.what
           eid == <<1, local.endpoint>>
           spl == providers[1].revenueSplitter
           e == endpoints'[eid]
           src == source'[eid]
<1>1. /\ Taken(tx)
      /\ UNCHANGED <<usdc, challengeFee, challenges, metadata, feeAllowance, named>>
    BY DEF EndpointMined, Taken, stakeVars, challengeVars, challengeParams, workflowVars, toolVars
<1>2. /\ providers' = providers
      /\ PayTo(local) \in {NoAddress, spl}
      /\ DOMAIN endpoints' = DOMAIN endpoints \cup {eid}
      /\ DOMAIN e = EndpointFields
      /\ e.integrityHash = Hash(TermsSent(local), spl)
      /\ \A x \in DOMAIN endpoints : x # eid => endpoints'[x] = endpoints[x]
    <2>1. CASE RegisterEndpoint(Owner, 1, local.endpoint, PayTo(local), TermsSent(local))
        BY <2>1 DEF RegisterEndpoint, PayToAccepted, EndpointFields
    <2>2. CASE UpdateEndpoint(Owner, 1, local.endpoint, PayTo(local), TermsSent(local))
        <3>1. DOMAIN endpoints[eid] = EndpointFields
            BY <2>2 DEF UpdateEndpoint, OnboardingInv, OnboardingTypeOK
        <3> QED BY <2>2, <3>1 DEF UpdateEndpoint, PayToAccepted, EndpointFields
    <2> QED BY <2>1, <2>2 DEF EndpointMined, Accepted
<1>3. /\ DOMAIN source' = DOMAIN source \cup {eid}
      /\ src = [answer |-> local.read, flags |-> local.flags]
      /\ \A x \in DOMAIN source : x # eid => source'[x] = source[x]
    BY DEF EndpointMined, Traced
<1>4. OnboardingTypeOK'
    <2>1. eid \in {1} \X Resources
        BY DEF OnboardingInv, OnboardingTypeOK, Locals
    <2>2. DOMAIN endpoints' \subseteq {1} \X Resources /\ DOMAIN source' = DOMAIN endpoints'
        BY <1>2, <1>3, <2>1 DEF OnboardingInv, OnboardingTypeOK
    <2>3. \A x \in DOMAIN endpoints' : DOMAIN endpoints'[x] = EndpointFields
        BY <1>2 DEF OnboardingInv, OnboardingTypeOK
    <2> HIDE DEF e, eid, src
    <2> QED BY <1>1, <1>2, <2>2, <2>3 DEF OnboardingInv, OnboardingTypeOK, Taken
<1>5. HashInv'
    <2>1. \A f \in Fields : Noted(src, f) = Given(local, f)
        BY <1>3 DEF Noted, Given
    <2>2. FromSource(e, src)
        BY <1>2, <2>1 DEF FromSource, Hash, TermsSent, PayTo, Fields
    <2>3. ASSUME NEW x \in DOMAIN endpoints'
          PROVE  FromSource(endpoints'[x], source'[x])
        <3>1. CASE x = eid
            BY <2>2, <3>1
        <3>2. CASE x # eid
            <4>1. x \in DOMAIN endpoints /\ x \in DOMAIN source
                BY <1>2, <3>2 DEF OnboardingInv, OnboardingTypeOK
            <4>2. FromSource(endpoints[x], source[x])
                BY <4>1 DEF OnboardingInv, HashInv
            <4> QED BY <1>2, <1>3, <3>2, <4>1, <4>2
        <3> QED BY <3>1, <3>2
    <2>4. served' = Serving(answer)'
        BY <1>1 DEF OnboardingInv, HashInv, Serving, CRERead, Taken
    <2> HIDE DEF e, src
    <2> QED BY <2>3, <2>4 DEF HashInv, FromSource, Noted
<1>6. ProviderInv' /\ FeeInv'
    BY <1>1, <1>2, TakenKeepsUpdates, TakenKeepsFees DEF OnboardingInv, FeeInv
<1> QED BY <1>1, <1>4, <1>5, <1>6 DEF OnboardingInv

LEMMA ProviderMinedInv ==
    ASSUME OnboardingInv, NEW tx \in pool, ProviderMined(tx)
    PROVE  OnboardingInv' /\ challenges' = challenges
<1> DEFINE local == tx.what
<1>1. /\ Taken(tx)
      /\ UNCHANGED <<usdc, challengeFee, challenges, feeAllowance, source, endpoints>>
    BY DEF ProviderMined, UpdateProvider, Taken, stakeVars, challengeVars, challengeParams,
       workflowVars
<1>2. local \in Locals /\ IsUpdate(tx) /\ Fresh(local)
    BY DEF ProviderMined, IsUpdate, OnboardingInv, OnboardingTypeOK, ProviderInv, AllFresh
<1>3. Merged(local) \in Splitters /\ (raced \/ Merged(local) = named')
    <2>1. CASE local.splitter # Keep
        BY <1>2, <2>1 DEF Merged, Locals, ProviderMined
    <2>2. CASE local.splitter = Keep
        <3>1. /\ local.read \in ProviderRead
              /\ raced \/ local.read.splitter = providers[1].revenueSplitter
            BY <1>2, <2>2 DEF Fresh, AllGiven
        <3>2. named' = named /\ (raced \/ providers[1].revenueSplitter = named)
            BY <2>2 DEF ProviderMined, OnboardingInv, ProviderInv, SplitterAsNamed
        <3> QED BY <2>2, <3>1, <3>2 DEF Merged, ProviderRead
    <2> QED BY <2>1, <2>2
<1>4. named' \in Splitters
    BY <1>2 DEF ProviderMined, OnboardingInv, OnboardingTypeOK, Locals
<1>5. metadata' \in Metadata
    BY <1>2 DEF ProviderMined, Fresh, AllGiven, ProviderRead, Locals
<1>6. providers' = <<[owner |-> Owner, revenueSplitter |-> Merged(local)]>>
    <2>1. providers' = [providers EXCEPT ![1].revenueSplitter = Merged(local)]
        BY DEF ProviderMined, UpdateProvider
    <2>2. PICK spl \in Splitters : providers = <<[owner |-> Owner, revenueSplitter |-> spl]>>
        BY DEF OnboardingInv, OnboardingTypeOK, OneProvider
    <2> QED BY <2>1, <2>2
<1>7. OnboardingTypeOK'
    BY <1>1, <1>3, <1>4, <1>5, <1>6 DEF OnboardingInv, OnboardingTypeOK, OneProvider, Taken
<1>8. HashInv' /\ FeeInv'
    BY <1>1, TakenKeepsHashes, TakenKeepsFees DEF OnboardingInv, FeeInv
<1>9. ProviderInv'
    <2>1. SplitterAsNamed'
        BY <1>1, <1>3, <1>6 DEF SplitterAsNamed, Taken
    <2>2. AtMostOne /\ AllFresh
        BY DEF OnboardingInv, ProviderInv
    <2>3. ASSUME NEW s \in Tools, At(s, "provider", "write")'
          PROVE  Fresh(session[s])'
        <3>1. Fresh(session[s]) /\ Updating(s)
            BY <1>1, <2>2, <2>3 DEF AllFresh, Taken, At, Updating
        <3>2. raced
            BY <1>2, <2>2, <3>1 DEF AtMostOne
        <3> QED BY <1>1, <3>1, <3>2 DEF Fresh, Taken
    <2>4. ASSUME NEW ux \in pool', IsUpdate(ux)
          PROVE  Fresh(ux.what)'
        <3>1. Fresh(ux.what) /\ ux \in pool /\ ux # tx
            BY <1>1, <2>2, <2>4 DEF AllFresh, Taken
        <3>2. raced
            BY <1>2, <2>2, <2>4, <3>1 DEF AtMostOne
        <3> QED BY <1>1, <3>1, <3>2 DEF Fresh, Taken
    <2>5. AtMostOne'
        BY <1>1, <2>2 DEF AtMostOne, Taken, Updating
    <2> QED BY <2>1, <2>3, <2>4, <2>5 DEF ProviderInv, AllFresh, IsUpdate
<1> QED BY <1>1, <1>7, <1>8, <1>9 DEF OnboardingInv

LEMMA ApprovalMinedInv ==
    ASSUME OnboardingInv, NEW tx \in pool, ApprovalMined(tx)
    PROVE  OnboardingInv' /\ challenges' = challenges
<1>1. /\ Taken(tx)
      /\ UNCHANGED <<usdc, challengeFee, challenges, metadata, source, named, endpoints, providers>>
    BY DEF ApprovalMined, Taken, stakeVars, registryVars, challengeVars, challengeParams,
       workflowVars, traceVars
<1>2. feeAllowance' \in Nat /\ feeAllowance' <= quoted
    BY DEF ApprovalMined, Approval, OnboardingInv, OnboardingTypeOK, FeeInv, ToApprove, Locals
<1>3. OnboardingTypeOK'
    BY <1>1, <1>2 DEF OnboardingInv, OnboardingTypeOK, Taken
<1>4. HashInv' /\ ProviderInv' /\ FeeInv'
    BY <1>1, <1>2, TakenKeepsHashes, TakenKeepsUpdates, TakenKeepsFees
<1> QED BY <1>1, <1>3, <1>4 DEF OnboardingInv

\* Opening is the one step that charges, and it charges the fee allowed.
LEMMA ChallengeMinedInv ==
    ASSUME OnboardingInv, NEW tx \in pool, ChallengeMined(tx)
    PROVE  OnboardingInv' /\ usdc[Owner] - usdc'[Owner] <= quoted
<1>1. /\ Owner \in Accounts /\ ChallengeManagerAddr \in Accounts
      /\ Owner # ChallengeManagerAddr
    BY OnboardingAssumption, AccountsAssumption, ChallengeAssumption
<1>2. /\ Taken(tx)
      /\ UNCHANGED <<challengeFee, metadata, source, named, endpoints, providers>>
    BY DEF ChallengeMined, OpenChallenge, Taken, registryVars, challengeParams, workflowVars,
       traceVars
<1>3. /\ challengeFee \in Nat /\ feeAllowance \in Nat /\ quoted \in Nat
      /\ challengeFee <= feeAllowance /\ feeAllowance <= quoted
      /\ usdc \in [Accounts -> Nat] /\ usdc[Owner] >= challengeFee
      /\ usdc' = Moved(usdc, Owner, ChallengeManagerAddr, challengeFee)
      /\ feeAllowance' = feeAllowance - challengeFee
    BY DEF ChallengeMined, FeeAllowed, OpenChallenge, CanMove, OnboardingInv, OnboardingTypeOK,
       FeeInv
<1>4. usdc' \in [Accounts -> Nat]
    BY <1>1, <1>3, MovedType
<1>5. usdc'[Owner] = usdc[Owner] - challengeFee /\ usdc[Owner] \in Nat
    BY <1>1, <1>3 DEF Moved
<1>6. feeAllowance' \in Nat /\ feeAllowance' <= quoted
    BY <1>3
<1>7. OnboardingTypeOK'
    BY <1>2, <1>4, <1>6 DEF OnboardingInv, OnboardingTypeOK, Taken
<1>8. HashInv' /\ ProviderInv' /\ FeeInv'
    BY <1>2, <1>6, TakenKeepsHashes, TakenKeepsUpdates, TakenKeepsFees
<1>9. usdc[Owner] - usdc'[Owner] <= quoted
    BY <1>3, <1>5
<1> QED BY <1>7, <1>8, <1>9 DEF OnboardingInv

LEMMA NoEffectInv ==
    ASSUME OnboardingInv, NEW tx \in pool, NoEffect(tx)
    PROVE  OnboardingInv' /\ challenges' = challenges
<1>1. /\ Taken(tx)
      /\ UNCHANGED <<usdc, challengeFee, challenges, feeAllowance, metadata, source, named,
                     endpoints, providers>>
    BY DEF NoEffect, ChainUnchanged, Taken, stakeVars, registryVars, challengeVars,
       challengeParams, toolVars, workflowVars, traceVars
<1>2. OnboardingTypeOK'
    BY <1>1 DEF OnboardingInv, OnboardingTypeOK, Taken
<1>3. HashInv' /\ ProviderInv' /\ FeeInv'
    BY <1>1, TakenKeepsHashes, TakenKeepsUpdates, TakenKeepsFees DEF OnboardingInv, FeeInv
<1> QED BY <1>1, <1>2, <1>3 DEF OnboardingInv

LEMMA OutsideInv ==
    ASSUME OnboardingInv,
           \/ \E a \in Answers : ServeAnswer(a)
           \/ \E fee \in ChallengeFees : ChangeFee(fee)
    PROVE  OnboardingInv' /\ challenges' = challenges
<1>1. /\ UNCHANGED <<usdc, challenges, feeAllowance, metadata, source, named, quoted, raced,
                     session, pool, endpoints, providers>>
      /\ served' = Serving(answer') /\ answer' \in Answers
      /\ challengeFee' \in Nat
    <2>1. CASE \E a \in Answers : ServeAnswer(a)
        BY <2>1 DEF ServeAnswer, ChainUnchanged, OnboardingInv, OnboardingTypeOK, stakeVars,
           registryVars, challengeVars, challengeParams, toolVars, traceVars
    <2>2. CASE \E fee \in ChallengeFees : ChangeFee(fee)
        <3>1. challengeFee' \in Nat
            BY <2>2, ChallengeAssumption DEF ChangeFee, SetChallengeFee
        <3>2. served' = served /\ answer' = answer
            BY <2>2 DEF ChangeFee, workflowVars
        <3>3. UNCHANGED <<usdc, challenges, feeAllowance, metadata, source, named, quoted, raced,
                          session, pool, endpoints, providers>>
            BY <2>2 DEF ChangeFee, SetChallengeFee, stakeVars, registryVars, toolVars, traceVars
        <3> QED BY <3>1, <3>2, <3>3 DEF OnboardingInv, OnboardingTypeOK, HashInv
    <2> QED BY <2>1, <2>2
<1>2. OnboardingTypeOK'
    BY <1>1 DEF OnboardingInv, OnboardingTypeOK
<1>3. HashInv'
    BY <1>1 DEF OnboardingInv, HashInv, FromSource, Noted, Serving, CRERead
<1>4. ProviderInv'
    BY <1>1 DEF OnboardingInv, ProviderInv, SplitterAsNamed, AllFresh, AtMostOne, Fresh,
       Updating, At
<1>5. FeeInv'
    BY <1>1 DEF OnboardingInv, FeeInv
<1> QED BY <1>1, <1>2, <1>3, <1>4, <1>5 DEF OnboardingInv

-----------------------------------------------------------------------------
LEMMA OnboardingInvInit == OnboardingInit => OnboardingInv
<1> SUFFICES ASSUME OnboardingInit
             PROVE  OnboardingInv
    OBVIOUS
<1>1. /\ Users \subseteq Accounts /\ InitialUSDC \in Nat
      /\ ChallengeFees \subseteq Nat
    BY AccountsAssumption, ParametersAssumption, ChallengeAssumption
<1>2. usdc \in [Accounts -> Nat] /\ challengeFee \in Nat
    BY <1>1 DEF OnboardingInit, StakeInit, ChallengeInit
<1>3. /\ session \in [Tools -> Locals] /\ pool = {}
      /\ \A s \in Tools : session[s].cmd = "none"
    BY IdleIsLocal DEF OnboardingInit, Idle
<1>4. /\ providers \in OneProvider /\ named \in Splitters
      /\ providers[1].revenueSplitter = named
    BY DEF OnboardingInit, OneProvider
<1>5. feeAllowance \in Nat /\ quoted = feeAllowance
    BY <1>2 DEF OnboardingInit
<1>6. OnboardingTypeOK
    <2>1. DOMAIN source = DOMAIN endpoints /\ DOMAIN endpoints = {}
        BY DEF OnboardingInit
    <2> QED BY <1>2, <1>3, <1>4, <1>5, <2>1 DEF OnboardingInit, OnboardingTypeOK
<1>7. HashInv
    BY DEF OnboardingInit, HashInv
<1>8. ProviderInv
    BY <1>3, <1>4 DEF ProviderInv, SplitterAsNamed, AllFresh, AtMostOne, Updating, At
<1>9. FeeInv
    BY <1>3, <1>5 DEF FeeInv, ToApprove
<1> QED BY <1>6, <1>7, <1>8, <1>9 DEF OnboardingInv

\* Besides the invariant, what an opened challenge may cost.
LEMMA OnboardingStep ==
    ASSUME OnboardingInv, [OnboardingNext]_onboardingVars
    PROVE  /\ OnboardingInv'
           /\ Len(challenges') > Len(challenges) => usdc[Owner] - usdc'[Owner] <= quoted
<1> DEFINE Cheap == challenges' = challenges \/ usdc[Owner] - usdc'[Owner] <= quoted
<1>1. ASSUME NEW s \in Tools, ToolStep(s)
      PROVE  OnboardingInv' /\ Cheap
    <2>1. CASE LocalStep(s)
        BY <2>1, LocalStepInv DEF LocalStep, ContractsKept
    <2>2. CASE SendEndpoint(s) \/ SendProvider(s) \/ SendApproval(s) \/ SendChallenge(s)
        BY <2>2, SendInv
    <2>3. \/ LocalStep(s)
          \/ SendEndpoint(s) \/ SendProvider(s) \/ SendApproval(s) \/ SendChallenge(s)
        BY <1>1, CommandSteps, FetchStep, ReadProviderStep, ChallengeReads, EndingSteps
           DEF ToolStep
    <2> QED BY <2>1, <2>2, <2>3
<1>2. ASSUME NEW tx \in pool, PoolStep(tx)
      PROVE  OnboardingInv' /\ Cheap
    <2>1. CASE EndpointMined(tx)
        BY <2>1, EndpointMinedInv
    <2>2. CASE ProviderMined(tx)
        BY <2>2, ProviderMinedInv
    <2>3. CASE ApprovalMined(tx)
        BY <2>3, ApprovalMinedInv
    <2>4. CASE ChallengeMined(tx)
        BY <2>4, ChallengeMinedInv
    <2>5. CASE NoEffect(tx)
        BY <2>5, NoEffectInv
    <2> QED BY <1>2, <2>1, <2>2, <2>3, <2>4, <2>5 DEF PoolStep
<1>3. ASSUME \/ \E a \in Answers : ServeAnswer(a)
             \/ \E fee \in ChallengeFees : ChangeFee(fee)
      PROVE  OnboardingInv' /\ Cheap
    <2>1. OnboardingInv' /\ challenges' = challenges
        BY <1>3, OutsideInv
    <2> QED BY <2>1
<1>4. ASSUME UNCHANGED onboardingVars
      PROVE  OnboardingInv' /\ Cheap
    <2>1. UNCHANGED <<usdc, challengeFee, feeAllowance, quoted, answer, metadata, providers, named,
                      raced, session, pool, source, endpoints, served, challenges>>
        BY <1>4 DEF onboardingVars, stakeVars, registryVars, challengeVars, challengeParams,
           workflowVars, toolVars, traceVars
    <2>2. OnboardingTypeOK'
        BY <2>1 DEF OnboardingInv, OnboardingTypeOK
    <2>3. HashInv'
        BY <2>1 DEF OnboardingInv, HashInv, FromSource, Noted, Serving, CRERead
    <2>4. ProviderInv'
        BY <2>1 DEF OnboardingInv, ProviderInv, SplitterAsNamed, AllFresh, AtMostOne, Fresh,
           Updating, At
    <2>5. FeeInv'
        BY <2>1 DEF OnboardingInv, FeeInv
    <2> QED BY <2>1, <2>2, <2>3, <2>4, <2>5 DEF OnboardingInv
<1>5. OnboardingInv' /\ Cheap
    BY <1>1, <1>2, <1>3, <1>4 DEF OnboardingNext
<1>6. challenges' = challenges => ~(Len(challenges') > Len(challenges))
    <2>1. ASSUME challenges' = challenges
          PROVE  Len(challenges') = Len(challenges)
        BY <2>1
    <2> QED BY <2>1
<1> QED BY <1>5, <1>6

LEMMA OnboardingInvHolds == OnboardingSpec => []OnboardingInv
<1>1. OnboardingInv /\ [OnboardingNext]_onboardingVars => OnboardingInv'
    BY OnboardingStep
<1> QED BY OnboardingInvInit, <1>1, PTL DEF OnboardingSpec

(***************************************************************************)
(* An endpoint registered or updated from what its live server answers,    *)
(* with flags that say the same, passes the CRE check of that answer.      *)
(***************************************************************************)
THEOREM OnboardedEndpointsPass == OnboardingSpec => []RegisteredPasses
<1>1. OnboardingInv => RegisteredPasses
    <2> SUFFICES ASSUME OnboardingInv, NEW eid \in DOMAIN endpoints,
                        source[eid].answer = answer,
                        FlagsAgree(source[eid].flags, answer),
                        endpoints[eid].integrityHash.payTo = providers[1].revenueSplitter,
                        SeenAlike(eid)
                 PROVE  PassesCheck(eid)
        BY DEF RegisteredPasses
    <2> DEFINE h == endpoints[eid].integrityHash
    <2>1. /\ FromSource(endpoints[eid], source[eid]) /\ served = Serving(answer)
          /\ answer \in Answers /\ eid[2] \in Resources
        BY DEF OnboardingInv, HashInv, OnboardingTypeOK
    <2>2. served[eid[2]] = CRERead(answer)
        BY <2>1 DEF SeenAlike, Serving
    <2>3. \A f \in Fields : Noted(source[eid], f) = answer[f]
        BY DEF Noted, FlagsAgree
    <2>4. CRERead(answer) =
              Hash([amount |-> answer.amount, asset |-> answer.asset, url |-> answer.resource],
                   answer.payTo)
        BY DEF CRERead, CRESees, SeenAlike, Fields
    <2>5. h = CRERead(answer)
        BY <2>1, <2>3, <2>4 DEF FromSource, Hash, SeenAlike, Fields
    <2>6. CRERead(answer) # Malformed
        BY <2>1, AnswersAssumption DEF SeenAlike
    <2> QED BY <2>2, <2>5, <2>6 DEF PassesCheck, Verdict
<1> QED BY <1>1, OnboardingInvHolds, PTL

(***************************************************************************)
(* An update of another field never moves the splitter back.               *)
(***************************************************************************)
THEOREM SplitterStaysAsNamed == OnboardingSpec => []SplitterAsNamed
<1>1. OnboardingInv => SplitterAsNamed
    BY DEF OnboardingInv, ProviderInv
<1> QED BY <1>1, OnboardingInvHolds, PTL

(***************************************************************************)
(* No challenge costs more than a fee that was read to be approved.        *)
(***************************************************************************)
THEOREM ChallengesCostWhatWasRead == OnboardingSpec => ChargedAsRead
<1>1. OnboardingInv /\ [OnboardingNext]_onboardingVars =>
          [Len(challenges') > Len(challenges) => usdc[Owner] - usdc'[Owner] <= quoted]_onboardingVars
    BY OnboardingStep
<1> QED BY <1>1, OnboardingInvHolds, PTL DEF OnboardingSpec, ChargedAsRead

-----------------------------------------------------------------------------
(***************************************************************************)
(* The CRE watcher: what it records is settled, and what it leaves behind  *)
(* has failed, for chains of any length, chunks of any size and any number *)
(* of crashes.                                                             *)
(***************************************************************************)

(***************************************************************************)
(* A transaction that opens challenges appends them: what was opened       *)
(* before keeps its id, its block and its first log.                       *)
(***************************************************************************)
LEMMA OpenedGrows ==
    ASSUME WatcherTypeOK, NEW n \in BatchSizes, OpenChallenges(n)
    PROVE  /\ Ids \subseteq Ids'
           /\ \A id \in Ids : issued'[id] = issued[id]
           /\ \A id \in Ids' \ Ids : issued'[id].block = head + 1
           /\ issued' \in Seq([block : DeployBlock + 1 .. head + 1, first : Ids'])
<1> DEFINE total == Len(issued) + n
           batch == [i \in 1 .. n |-> [block |-> head + 1, first |-> Len(issued) + 1]]
           B == [block : DeployBlock + 1 .. head + 1, first : 1 .. total]
<1>1. n \in Nat \ {0} /\ head \in Nat /\ DeployBlock \in Nat /\ DeployBlock <= head
    BY CREWatcherAssumption DEF WatcherTypeOK
<1>2. issued \in Seq([block : DeployBlock + 1 .. head, first : Ids]) /\ Len(issued) \in Nat
    BY DEF WatcherTypeOK
<1>3. [block : DeployBlock + 1 .. head, first : Ids] \subseteq B
    BY <1>1, <1>2, SMTT(20) DEF Ids
<1>4. issued \in Seq(B)
    BY <1>2, <1>3, SeqMonotonic
<1>5. batch \in Seq(B) /\ Len(batch) = n
    <2>1. [block |-> head + 1, first |-> Len(issued) + 1] \in B
        BY <1>1, <1>2
    <2> QED BY <1>1, <2>1
<1>6. issued' = issued \o batch
    BY DEF OpenChallenges
<1>7. /\ issued' \in Seq(B)
      /\ Len(issued') = total
      /\ \A i \in 1 .. total : issued'[i] = IF i <= Len(issued) THEN issued[i]
                                                                ELSE batch[i - Len(issued)]
    <2> HIDE DEF batch, B
    <2> QED BY <1>1, <1>2, <1>4, <1>5, <1>6, ConcatProperties
<1>8. Ids' = 1 .. total
    BY <1>7 DEF Ids
<1>9. Ids = 1 .. Len(issued)
    BY DEF Ids
<1>10. \A id \in Ids' \ Ids : issued'[id] = [block |-> head + 1, first |-> Len(issued) + 1]
    <2> SUFFICES ASSUME NEW id \in Ids' \ Ids
                 PROVE  issued'[id] = [block |-> head + 1, first |-> Len(issued) + 1]
        OBVIOUS
    <2>1. id \in 1 .. total /\ ~(id <= Len(issued)) /\ id - Len(issued) \in 1 .. n
        BY <1>1, <1>2, <1>8, <1>9
    <2>2. batch[id - Len(issued)] = [block |-> head + 1, first |-> Len(issued) + 1]
        BY <2>1
    <2> HIDE DEF batch, B
    <2> QED BY <1>7, <2>1, <2>2
<1>11. Ids \subseteq Ids'
    BY <1>1, <1>2, <1>8, <1>9
<1>12. \A id \in Ids : issued'[id] = issued[id]
    <2> SUFFICES ASSUME NEW id \in Ids PROVE issued'[id] = issued[id]
        OBVIOUS
    <2>1. id \in 1 .. total /\ id <= Len(issued)
        BY <1>1, <1>2, <1>9
    <2> QED BY <1>7, <2>1
<1>13. issued' \in Seq([block : DeployBlock + 1 .. head + 1, first : Ids'])
    BY <1>7, <1>8
<1> QED BY <1>10, <1>11, <1>12, <1>13

-----------------------------------------------------------------------------
\* What the chain records of a challenge; the log a simulate is run for is one of them.
LEMMA OpenedType ==
    ASSUME WatcherTypeOK, NEW id \in Ids
    PROVE  issued[id] \in [block : DeployBlock + 1 .. head, first : Ids]
<1> DEFINE B == [block : DeployBlock + 1 .. head, first : Ids]
<1>1. issued \in Seq(B) /\ id \in 1 .. Len(issued)
    BY DEF WatcherTypeOK, Ids
<1> HIDE DEF B
<1>2. issued[id] \in B
    BY <1>1, ElementOfSeq
<1> QED BY <1>2 DEF B

LEMMA SimulatedId ==
    ASSUME WatcherTypeOK, NEW id \in Ids
    PROVE  Simulated(id) \in Ids
    BY OpenedType DEF Simulated

LEMMA WatcherTypeInit == WatcherInit => WatcherTypeOK
<1> SUFFICES ASSUME WatcherInit PROVE WatcherTypeOK
    OBVIOUS
<1>1. /\ DeployBlock \in Nat /\ head = DeployBlock /\ MaxCrashes \in Nat
      /\ issued = <<>>
    BY CREWatcherAssumption DEF WatcherInit
<1>2. file \in [last_block : Nat, processed : SUBSET Ids]
    BY DEF WatcherInit, NoFile
<1> QED BY <1>1, <1>2 DEF WatcherInit, WatcherTypeOK

LEMMA WatcherTypeStep == WatcherTypeOK /\ [WatcherNext]_watcherVars => WatcherTypeOK'
<1> SUFFICES ASSUME WatcherTypeOK, [WatcherNext]_watcherVars PROVE WatcherTypeOK'
    OBVIOUS
<1> USE CREWatcherAssumption
<1>1. ASSUME NEW n \in BatchSizes, OpenChallenges(n) PROVE WatcherTypeOK'
    <2>1. /\ Ids \subseteq Ids'
          /\ issued' \in Seq([block : DeployBlock + 1 .. head + 1, first : Ids'])
        BY <1>1, OpenedGrows
    <2>2. head' = head + 1
        BY <1>1 DEF OpenChallenges
    <2>3. file' = Torn \/ file' \in [last_block : Nat, processed : SUBSET Ids']
        BY <1>1, <2>1 DEF OpenChallenges, WatcherTypeOK
    <2> QED BY <1>1, <2>1, <2>2, <2>3 DEF OpenChallenges, WatcherTypeOK, memory, cycle
<1>2. CASE EmptyBlock
    <2>1. /\ head' = head + 1 /\ head \in Nat
          /\ issued' = issued /\ Ids' = Ids
          /\ issued \in Seq([block : DeployBlock + 1 .. head, first : Ids])
        BY <1>2 DEF EmptyBlock, WatcherTypeOK, Ids
    <2>2. [block : DeployBlock + 1 .. head, first : Ids]
             \subseteq [block : DeployBlock + 1 .. head + 1, first : Ids]
        BY <2>1
    <2>3. issued' \in Seq([block : DeployBlock + 1 .. head', first : Ids'])
        BY <2>1, <2>2, SeqMonotonic
    <2> QED BY <1>2, <2>1, <2>3 DEF EmptyBlock, WatcherTypeOK, memory, cycle
<1>3. ASSUME NEW id \in Ids, ResolvedElsewhere(id) PROVE WatcherTypeOK'
    BY <1>3 DEF ResolvedElsewhere, WatcherTypeOK, Ids, memory, cycle
<1>4. ASSUME NEW from \in Overrides, Start(from) PROVE WatcherTypeOK'
    <2>1. file \in [last_block : Nat, processed : SUBSET Ids]
        BY <1>4 DEF Start, WatcherTypeOK
    <2>2. last_block' \in Nat /\ processed' \in SUBSET Ids
        BY <1>4, <2>1 DEF Start
    <2> QED BY <1>4, <2>2 DEF Start, WatcherTypeOK, Ids, chainVars, cycle
<1>5. CASE UNCHANGED watcherVars
    BY <1>5 DEF WatcherTypeOK, Ids, watcherVars, chainVars, memory, cycle
<1>6. CASE Poll
    BY <1>6 DEF Poll, WatcherTypeOK, Ids, chainVars, memory
<1>7. CASE ScanChunk
    <2>1. /\ ChunkEnd \in Nat /\ ChunkEnd + 1 \in 0 .. head + 1
          /\ EventsIn(start, ChunkEnd) \subseteq Ids
        BY <1>7 DEF ScanChunk, ChunkEnd, EventsIn, WatcherTypeOK
    <2>2. events' \subseteq Ids /\ missed' \subseteq Ids
        BY <1>7, <2>1 DEF ScanChunk, WatcherTypeOK
    <2> QED BY <1>7, <2>1, <2>2 DEF ScanChunk, WatcherTypeOK, Ids, chainVars, memory
<1>8. ASSUME NEW id \in Ids, SkipProcessed(id) PROVE WatcherTypeOK'
    BY <1>8 DEF SkipProcessed, WatcherTypeOK, Ids, chainVars, memory
<1>9. ASSUME NEW id \in Ids, MarkResolved(id) PROVE WatcherTypeOK'
    BY <1>9 DEF MarkResolved, BeginSave, WatcherTypeOK, Ids, chainVars
<1>10. ASSUME NEW id \in Ids, StartSimulate(id) PROVE WatcherTypeOK'
    BY <1>10 DEF StartSimulate, WatcherTypeOK, Ids, chainVars, memory, cycle
<1>11. ASSUME NEW id \in Ids, SimulateSucceeds(id) PROVE WatcherTypeOK'
    <2>1. Simulated(id) \in Ids
        BY <1>11, SimulatedId
    <2> QED BY <1>11, <2>1 DEF SimulateSucceeds, BeginSave, WatcherTypeOK, Ids
<1>12. ASSUME NEW id \in Ids, SimulateExitsWithError(id) PROVE WatcherTypeOK'
    <2>1. Simulated(id) \in Ids
        BY <1>12, SimulatedId
    <2>2. resolved' \subseteq Ids /\ missed' \subseteq Ids /\ events' \subseteq Ids
        BY <1>12, <2>1 DEF SimulateExitsWithError, WatcherTypeOK
    <2> QED BY <1>12, <2>2 DEF SimulateExitsWithError, WatcherTypeOK, Ids, memory
<1>13. CASE EndCycle
    BY <1>13 DEF EndCycle, BeginSave, WatcherTypeOK, Ids, chainVars, cycle
<1>14. CASE FinishSave
    BY <1>14 DEF FinishSave, WatcherTypeOK, Ids, chainVars, memory, cycle
<1>15. CASE Crash
    <2>1. crashes' \in 0 .. MaxCrashes
        BY <1>15 DEF Crash, WatcherTypeOK
    <2> QED BY <1>15, <2>1, SMTT(20) DEF Crash, WatcherTypeOK, Ids, chainVars
<1>16. CASE UpToDate \/ StartFails
    BY <1>5, <1>16 DEF UpToDate, StartFails
<1> QED BY <1>1, <1>2, <1>3, <1>4, <1>5, <1>6, <1>7, <1>8, <1>9, <1>10, <1>11, <1>12,
           <1>13, <1>14, <1>15, <1>16 DEF WatcherNext, Work, ProcessEvent

(***************************************************************************)
(* The watcher and its file keep their types: no id it handles is one the  *)
(* chain has not issued, no scan runs past the next block.                 *)
(***************************************************************************)
THEOREM WatcherTypeCorrect == WatcherSpec => []WatcherTypeOK
<1> QED BY WatcherTypeInit, WatcherTypeStep, PTL DEF WatcherSpec

-----------------------------------------------------------------------------
LEMMA ProcessedSettledStep ==
    WatcherTypeOK /\ ProcessedSettled /\ [WatcherNext]_watcherVars => ProcessedSettled'
<1> SUFFICES ASSUME WatcherTypeOK, ProcessedSettled, [WatcherNext]_watcherVars
             PROVE  ProcessedSettled'
    OBVIOUS
<1>0. Recorded \subseteq Ids
    BY DEF Recorded, WatcherTypeOK
\* Nothing new is recorded, and what is settled stays settled.
<1>1. ASSUME \A id \in Ids : issued'[id] = issued[id],
             resolved \subseteq resolved', Recorded' \subseteq Recorded
      PROVE  ProcessedSettled'
    BY <1>0, <1>1 DEF ProcessedSettled, Indexed
<1>2. ASSUME NEW n \in BatchSizes, OpenChallenges(n) PROVE ProcessedSettled'
    <2>1. \A id \in Ids : issued'[id] = issued[id]
        BY <1>2, OpenedGrows
    <2> QED BY <1>1, <1>2, <2>1 DEF OpenChallenges, Recorded, memory
<1>3. ASSUME NEW id \in Ids, ResolvedElsewhere(id) PROVE ProcessedSettled'
    BY <1>1, <1>3 DEF ResolvedElsewhere, Recorded, memory
<1>4. ASSUME NEW from \in Overrides, Start(from) PROVE ProcessedSettled'
    BY <1>1, <1>4 DEF Start, Recorded, chainVars
<1>5. ASSUME NEW id \in Ids, MarkResolved(id) PROVE ProcessedSettled'
    BY <1>5 DEF MarkResolved, BeginSave, ProcessedSettled, Recorded, Indexed, chainVars
\* The simulate was run for the log of id itself, unless id is not Indexed.
<1>6. ASSUME NEW id \in Ids, SimulateSucceeds(id) PROVE ProcessedSettled'
    <2>1. Recorded' = processed \cup {id} /\ resolved' = resolved \cup {issued[id].first}
        BY <1>6 DEF SimulateSucceeds, BeginSave, Recorded, Simulated
    <2> QED BY <1>6, <2>1 DEF SimulateSucceeds, ProcessedSettled, Recorded, Indexed
<1>7. ASSUME NEW id \in Ids, SimulateExitsWithError(id) PROVE ProcessedSettled'
    BY <1>1, <1>7 DEF SimulateExitsWithError, Recorded, memory
<1>8. CASE FinishSave
    BY <1>1, <1>8 DEF FinishSave, Recorded, chainVars, memory
<1>9. CASE Crash
    BY <1>1, <1>9 DEF Crash, Recorded, chainVars
<1>10. CASE EndCycle
    BY <1>1, <1>10 DEF EndCycle, BeginSave, Recorded, chainVars
<1>11. ASSUME UNCHANGED <<issued, resolved, file, memory>> PROVE ProcessedSettled'
    BY <1>1, <1>11 DEF Recorded, memory
<1>12. CASE EmptyBlock \/ UpToDate \/ StartFails \/ Poll \/ ScanChunk
    BY <1>11, <1>12 DEF EmptyBlock, UpToDate, StartFails, Poll, ScanChunk, chainVars, watcherVars
<1>13. ASSUME NEW id \in Ids, SkipProcessed(id) \/ StartSimulate(id) PROVE ProcessedSettled'
    BY <1>11, <1>13 DEF SkipProcessed, StartSimulate, chainVars
<1>14. CASE UNCHANGED watcherVars
    BY <1>11, <1>14 DEF watcherVars, chainVars
<1> QED BY <1>2, <1>3, <1>4, <1>5, <1>6, <1>7, <1>8, <1>9, <1>10, <1>12, <1>13, <1>14
        DEF WatcherNext, Work, ProcessEvent

(***************************************************************************)
(* cre_watcher.py:176: what the watcher records as processed is settled on *)
(* chain, or was not the first challenge of its transaction, however often *)
(* it is killed and started again.                                         *)
(***************************************************************************)
THEOREM RecordedChallengesAreSettled == WatcherSpec => []ProcessedSettled
<1>1. WatcherInit => ProcessedSettled
    BY DEF WatcherInit, ProcessedSettled, Recorded, NoFile, Torn
<1> QED BY <1>1, WatcherTypeCorrect, ProcessedSettledStep, PTL DEF WatcherSpec

-----------------------------------------------------------------------------
(***************************************************************************)
(* Why nothing falls behind.  The challenges opened before block n that    *)
(* nobody settled, processed or failed on are none for the saved and the   *)
(* remembered last_block, and for the block the scan has come to they are  *)
(* waiting in events.                                                      *)
(***************************************************************************)
Before(n) == {id \in Ids : issued[id].block < n}

Behind(n, done) == Before(n) \ (resolved \cup done \cup missed)

ScanInv ==
    /\ file # Torn => /\ file.last_block <= head + 1
                      /\ Behind(file.last_block, file.processed) = {}
    /\ pc # "down" => /\ last_block <= head + 1
                      /\ Behind(last_block, processed) = {}
    /\ pc \in {"scanning", "simulating", "savingEvent"} => Behind(start, processed) \subseteq events
    /\ pc \in {"simulating", "savingEvent"} => start > current_block

LEMMA ScanInvStep ==
    ASSUME Overrides \subseteq 0 .. DeployBlock
    PROVE  WatcherTypeOK /\ ScanInv /\ [WatcherNext]_watcherVars => ScanInv'
<1> SUFFICES ASSUME WatcherTypeOK, ScanInv, [WatcherNext]_watcherVars PROVE ScanInv'
    OBVIOUS
<1> USE CREWatcherAssumption
<1>0. /\ head \in Nat /\ start \in Nat /\ current_block \in Nat /\ last_block \in Nat
      /\ current_block <= head /\ start <= head + 1 /\ DeployBlock <= head
      /\ \A id \in Ids : issued[id].block \in Nat /\ issued[id].block > DeployBlock
      /\ file # Torn => file.last_block \in Nat
    <2>1. \A id \in Ids : issued[id] \in [block : DeployBlock + 1 .. head, first : Ids]
        BY OpenedType
    <2> QED BY <2>1 DEF WatcherTypeOK
<1>1. ASSUME NEW n \in BatchSizes, OpenChallenges(n) PROVE ScanInv'
    <2>1. /\ Ids \subseteq Ids'
          /\ \A id \in Ids : issued'[id] = issued[id]
          /\ \A id \in Ids' \ Ids : issued'[id].block = head + 1
        BY <1>1, OpenedGrows
    <2>2. ASSUME NEW m \in Nat, m <= head + 1 PROVE Before(m)' = Before(m)
        BY <1>0, <2>1, <2>2 DEF Before
    <2>3. /\ UNCHANGED <<file, memory, pc, resolved, missed, events, start, current_block>>
          /\ head' = head + 1
        BY <1>1 DEF OpenChallenges, cycle
    <2>4. file # Torn => Before(file.last_block)' = Before(file.last_block)
        BY <1>0, <2>2, <2>3 DEF ScanInv
    <2>5. pc # "down" => Before(last_block)' = Before(last_block)
        BY <1>0, <2>2, <2>3 DEF ScanInv, memory
    <2>6. Before(start)' = Before(start)
        BY <1>0, <2>2, <2>3
    <2> QED BY <1>0, <2>3, <2>4, <2>5, <2>6 DEF ScanInv, Behind, memory
<1>2. CASE EmptyBlock
    BY <1>0, <1>2 DEF EmptyBlock, ScanInv, Behind, Before, Ids, memory, cycle
<1>3. ASSUME NEW id \in Ids, ResolvedElsewhere(id) PROVE ScanInv'
    BY <1>3 DEF ResolvedElsewhere, ScanInv, Behind, Before, Ids, memory, cycle
\* An override scans from the beginning: no challenge is older.
<1>4. ASSUME NEW from \in Overrides, Start(from) PROVE ScanInv'
    <2>1. /\ file # Torn /\ file' = file /\ pc' = "idle" /\ processed' = file.processed
          /\ UNCHANGED <<head, issued, resolved, missed>>
          /\ last_block' = CASE from > 0 -> from
                             [] from = 0 /\ file.last_block = 0 -> DeployBlock
                             [] OTHER -> file.last_block
        BY <1>4 DEF Start, chainVars
    <2>2. from \in 0 .. DeployBlock /\ DeployBlock \in Nat
        OBVIOUS
    <2>3. last_block' \in 0 .. DeployBlock \/ last_block' = file.last_block
        BY <2>1, <2>2
    <2>4. \A m \in 0 .. DeployBlock : Before(m) = {}
        BY <1>0 DEF Before
    <2>5. last_block' <= head + 1 /\ Behind(last_block', file.processed) = {}
        BY <1>0, <2>1, <2>2, <2>3, <2>4 DEF ScanInv, Behind
    <2> QED BY <2>1, <2>5 DEF ScanInv, Behind, Before, Ids
<1>5. CASE UNCHANGED watcherVars
    BY <1>5 DEF ScanInv, Behind, Before, Ids, watcherVars, chainVars, memory, cycle
<1>6. CASE Poll
    BY <1>0, <1>6 DEF Poll, ScanInv, Behind, Before, Ids, chainVars, memory
<1>7. CASE ScanChunk
    <2>1. /\ pc = "scanning" /\ pc' = pc /\ start <= current_block
          /\ UNCHANGED <<head, issued, resolved, file, last_block, processed>>
          /\ start' = ChunkEnd + 1 /\ ChunkEnd \in Nat
          /\ events \subseteq events' /\ missed \subseteq missed'
          /\ EventsIn(start, ChunkEnd) \subseteq events' \cup missed'
        BY <1>0, <1>7 DEF ScanChunk, chainVars, memory, ChunkEnd
    <2>2. Before(start') \subseteq Before(start) \cup EventsIn(start, ChunkEnd)
        BY <1>0, <2>1 DEF Before, EventsIn
    <2>3. (Behind(start, processed) \subseteq events)'
        BY <2>1, <2>2 DEF ScanInv, Behind, Before, Ids
    <2> QED BY <2>1, <2>3 DEF ScanInv, Behind, Before, Ids
<1>8. ASSUME NEW id \in Ids, SkipProcessed(id) PROVE ScanInv'
    BY <1>8 DEF SkipProcessed, ScanInv, Behind, Before, Ids, chainVars, memory
<1>9. ASSUME NEW id \in Ids, MarkResolved(id) PROVE ScanInv'
    BY <1>9 DEF MarkResolved, Processing, BeginSave, ScanInv, Behind, Before, Ids, chainVars
<1>10. ASSUME NEW id \in Ids, StartSimulate(id) PROVE ScanInv'
    BY <1>10 DEF StartSimulate, Processing, ScanInv, Behind, Before, Ids, chainVars, memory, cycle
<1>11. ASSUME NEW id \in Ids, SimulateSucceeds(id) PROVE ScanInv'
    BY <1>11 DEF SimulateSucceeds, BeginSave, ScanInv, Behind, Before, Ids
<1>12. ASSUME NEW id \in Ids, SimulateExitsWithError(id) PROVE ScanInv'
    BY <1>12 DEF SimulateExitsWithError, ScanInv, Behind, Before, Ids, memory
\* The scan is complete: last_block moves to a block nothing is behind.
<1>13. CASE EndCycle
    <2>1. Before(current_block + 1) \subseteq Before(start)
        BY <1>0, <1>13 DEF EndCycle, Before
    <2> QED BY <1>0, <1>13, <2>1 DEF EndCycle, BeginSave, ScanInv, Behind, Before, Ids, chainVars, cycle
<1>14. CASE FinishSave
    BY <1>14 DEF FinishSave, ScanInv, Behind, Before, Ids, chainVars, memory, cycle
<1>15. CASE Crash
    BY <1>15 DEF Crash, ScanInv, Behind, Before, Ids, chainVars
<1>16. CASE UpToDate \/ StartFails
    BY <1>5, <1>16 DEF UpToDate, StartFails
<1> QED BY <1>1, <1>2, <1>3, <1>4, <1>5, <1>6, <1>7, <1>8, <1>9, <1>10, <1>11, <1>12,
           <1>13, <1>14, <1>15, <1>16 DEF WatcherNext, Work, ProcessEvent

(***************************************************************************)
(* cre_watcher.py:251: unless the operator starts it beyond the deployment *)
(* block, the last_block the watcher saves leaves no challenge behind but  *)
(* settled or processed ones and those a call has failed for.              *)
(***************************************************************************)
THEOREM NothingElseIsSkipped ==
    ASSUME Overrides \subseteq 0 .. DeployBlock
    PROVE  WatcherSpec => []SkippedOnlyByFailure
<1>1. WatcherInit => ScanInv
    <2> SUFFICES ASSUME WatcherInit PROVE ScanInv
        OBVIOUS
    <2>1. Ids = {} /\ head \in Nat /\ file = NoFile /\ pc = "down"
        BY CREWatcherAssumption DEF WatcherInit, Ids
    <2> QED BY <2>1 DEF ScanInv, Behind, Before, NoFile
<1>2. WatcherTypeOK /\ ScanInv => SkippedOnlyByFailure
    BY DEF ScanInv, Behind, Before, SkippedOnlyByFailure
<1> QED BY <1>1, <1>2, WatcherTypeCorrect, ScanInvStep, PTL DEF WatcherSpec
=============================================================================
