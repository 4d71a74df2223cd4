------------------------- MODULE ShareMarket_proofs -------------------------
(***************************************************************************)
(* What is built around the revenue share: the splitter that feeds it, the *)
(* offering that sells it and the wrapper, for any basis points, prices,   *)
(* fees, holders and amounts.                                              *)
(*                                                                         *)
(* The splitter's cuts add up to the payment, and the share stays solvent  *)
(* when the splitter feeds it: the coins move before the share distributes, *)
(* and the notification may fail.                                          *)
(*                                                                         *)
(* Offering and wrapper hand out a rounded quotient of what they hold.     *)
(* That each rounding leaves the rest covered is arithmetic                *)
(* (PayoutKeepsRate); that nothing else takes shares or coins from them is *)
(* a matter of who may call what, and the coins they pay with are only     *)
(* there because the revenue share underneath stays solvent: its invariant *)
(* is part of theirs.                                                      *)
(***************************************************************************)
EXTENDS ShareMarket, ProviderRevenueSplitter, ProviderRevenueShare_proofs

-----------------------------------------------------------------------------
(***************************************************************************)
(* The splitter.                                                           *)
(***************************************************************************)

SplitterTypes ==
    /\ usdc \in [Accounts -> Nat]
    /\ protocolTreasury \in ProtocolTreasuries
    /\ providerTreasury \in ProviderTreasuries
    /\ protocolEarned \in Nat
    /\ splits \in Nat
    /\ splitTotal \in Nat

\* There may be no revenue share.
SharesSafe == RevenueShareAddr \in Accounts => ShareInv

SplitterInv == SplitterTypes /\ SharesSafe /\ ProtocolShareBounded

-----------------------------------------------------------------------------
(***************************************************************************)
(* The two treasuries' cuts leave the rest to the revenue share: the       *)
(* checked subtraction in distribute() does not underflow.                 *)
(***************************************************************************)
LEMMA CutsFit ==
    ASSUME SplitterTypes
    PROVE  /\ usdc[SplitterAddr] \in Nat
           /\ ProtocolAmount \in Nat /\ ProviderAmount \in Nat /\ RevenueShareAmount \in Nat
           /\ ProtocolAmount + ProviderAmount + RevenueShareAmount = usdc[SplitterAddr]
<1> DEFINE x == usdc[SplitterAddr]
           p == ProtocolTreasuryBp
           q == ProviderTreasuryBp
           cp == (x * p) \div BP_SCALE
           cq == (x * q) \div BP_SCALE
<1>1. x \in Nat /\ p \in Nat /\ q \in Nat /\ BP_SCALE \in Nat \ {0} /\ p + q <= BP_SCALE
    BY SplitterAssumption DEF SplitterTypes
<1>2. x * p \in Nat /\ x * q \in Nat
    BY <1>1
<1>3. /\ cp \in Nat /\ cp * BP_SCALE <= x * p
      /\ cq \in Nat /\ cq * BP_SCALE <= x * q
    BY <1>1, <1>2, FloorNear
<1>4. ProtocolAmount = cp /\ ProviderAmount = cq /\ RevenueShareAmount = x - cp - cq
    BY DEF ProtocolAmount, ProviderAmount, RevenueShareAmount, Cut
<1> HIDE DEF x, p, q, cp, cq
<1>5. cp + cq <= x
    <2>1. (cp + cq) * BP_SCALE = cp * BP_SCALE + cq * BP_SCALE /\ x * p + x * q = (p + q) * x
        BY <1>1, <1>3
    <2>2. (p + q) * x <= BP_SCALE * x /\ BP_SCALE * x = x * BP_SCALE
        BY <1>1, ProductOrder
    <2>3. /\ cp * BP_SCALE \in Nat /\ cq * BP_SCALE \in Nat /\ (cp + cq) * BP_SCALE \in Nat
          /\ (p + q) * x \in Nat /\ BP_SCALE * x \in Nat
        BY <1>1, <1>3
    <2>4. (cp + cq) * BP_SCALE <= x * BP_SCALE
        BY <1>2, <1>3, <2>1, <2>2, <2>3
    <2>5. ASSUME x + 1 <= cp + cq PROVE FALSE
        <3>1. (x + 1) * BP_SCALE <= (cp + cq) * BP_SCALE
            BY <1>1, <1>3, <2>5, ProductOrder
        <3>2. (x + 1) * BP_SCALE = x * BP_SCALE + BP_SCALE /\ x * BP_SCALE \in Nat
            BY <1>1
        <3> QED BY <1>1, <2>3, <2>4, <3>1, <3>2
    <2> QED BY <1>1, <1>3, <2>5
<1>6. x - cp - cq \in Nat /\ cp + cq + (x - cp - cq) = x
    BY <1>1, <1>3, <1>5
<1> QED BY <1>1, <1>3, <1>4, <1>6 DEF x

LEMMA SentType ==
    ASSUME NEW ledger \in [Accounts -> Nat], NEW to, NEW amount \in Nat,
           amount > 0 => to \in Accounts, ledger[SplitterAddr] >= amount
    PROVE  /\ Sent(ledger, to, amount) \in [Accounts -> Nat]
           /\ Sent(ledger, to, amount)[SplitterAddr] >= ledger[SplitterAddr] - amount
           /\ \A a \in Accounts \ {SplitterAddr} : Sent(ledger, to, amount)[a] >= ledger[a]
<1>1. SplitterAddr \in Accounts
    BY SplitterAssumption
<1>2. CASE amount > 0
    <2>1. Sent(ledger, to, amount) = Moved(ledger, SplitterAddr, to, amount)
        BY <1>2 DEF Sent
    <2> QED BY <1>1, <1>2, <2>1, MovedType
<1>3. CASE amount = 0
    <2>1. Sent(ledger, to, amount) = ledger
        BY <1>3 DEF Sent
    <2> QED BY <1>1, <1>3, <2>1
<1> QED BY <1>2, <1>3

(***************************************************************************)
(* A split moves coins between accounts that exist, and takes none from    *)
(* the revenue share.                                                      *)
(***************************************************************************)
LEMMA SplitType ==
    ASSUME SplitterTypes, SplitAccepted
    PROVE  /\ AfterSplit \in [Accounts -> Nat]
           /\ RevenueShareAddr \in Accounts => AfterSplit[RevenueShareAddr] >= usdc[RevenueShareAddr]
<1> DEFINE l1 == Sent(usdc, protocolTreasury, ProtocolAmount)
           l2 == Sent(l1, providerTreasury, ProviderAmount)
           l3 == Sent(l2, RevenueShareAddr, RevenueShareAmount)
<1>1. /\ usdc \in [Accounts -> Nat] /\ usdc[SplitterAddr] \in Nat
      /\ ProtocolAmount \in Nat /\ ProviderAmount \in Nat /\ RevenueShareAmount \in Nat
      /\ ProtocolAmount + ProviderAmount + RevenueShareAmount = usdc[SplitterAddr]
    BY CutsFit DEF SplitterTypes
<1>2. /\ protocolTreasury \in Accounts
      /\ ProviderAmount > 0 => providerTreasury \in Accounts
      /\ RevenueShareAmount > 0 => RevenueShareAddr \in Accounts
      /\ SplitterAddr \in Accounts /\ SplitterAddr # RevenueShareAddr
    BY SplitterAssumption, ShareAssumption DEF SplitterTypes, SplitAccepted
<1>3. AfterSplit = l3
    BY DEF AfterSplit
<1> DEFINE P == ProtocolAmount
           Q == ProviderAmount
           R == RevenueShareAmount
<1>4. /\ l1 \in [Accounts -> Nat] /\ l1[SplitterAddr] >= usdc[SplitterAddr] - ProtocolAmount
      /\ \A a \in Accounts \ {SplitterAddr} : l1[a] >= usdc[a]
    <2>1. usdc[SplitterAddr] >= ProtocolAmount
        BY <1>1
    <2> QED BY <1>1, <1>2, <2>1, SentType
<1> HIDE DEF l1
<1>5. /\ l2 \in [Accounts -> Nat] /\ l2[SplitterAddr] >= l1[SplitterAddr] - ProviderAmount
      /\ \A a \in Accounts \ {SplitterAddr} : l2[a] >= l1[a]
    <2>1. l1[SplitterAddr] \in Nat /\ l1[SplitterAddr] >= ProviderAmount
        BY <1>1, <1>2, <1>4
    <2> QED BY <1>1, <1>2, <1>4, <2>1, SentType
<1> HIDE DEF l2
<1>6. /\ l3 \in [Accounts -> Nat]
      /\ \A a \in Accounts \ {SplitterAddr} : l3[a] >= l2[a]
    <2>1. l1[SplitterAddr] \in Nat /\ l2[SplitterAddr] \in Nat
        BY <1>2, <1>4, <1>5
    <2>2. l2[SplitterAddr] >= RevenueShareAmount
        BY <1>1, <1>4, <1>5, <2>1
    <2> QED BY <1>1, <1>2, <1>5, <2>2, SentType
<1> HIDE DEF l3
<1>7. ASSUME RevenueShareAddr \in Accounts PROVE l3[RevenueShareAddr] >= usdc[RevenueShareAddr]
    <2> DEFINE r == RevenueShareAddr
    <2>1. /\ l1[r] >= usdc[r] /\ l2[r] >= l1[r] /\ l3[r] >= l2[r]
          /\ usdc[r] \in Nat /\ l1[r] \in Nat /\ l2[r] \in Nat /\ l3[r] \in Nat
        BY <1>1, <1>2, <1>4, <1>5, <1>6, <1>7
    <2> HIDE DEF r
    <2>2. l3[r] >= usdc[r]
        BY <2>1
    <2> QED BY <2>2 DEF r
<1> QED BY <1>3, <1>6, <1>7

-----------------------------------------------------------------------------
LEMMA PaymentStep ==
    ASSUME SplitterInv, NEW payer \in Payers, NEW amount \in Payments, PayForCall(payer, amount)
    PROVE  SplitterInv'
<1>1. /\ payer \in Accounts \ {RevenueShareAddr, SplitterAddr} /\ SplitterAddr \in Accounts
      /\ amount \in Nat /\ SplitterAddr # RevenueShareAddr
    BY ShareAssumption, SplitterAssumption
<1>2. /\ usdc \in [Accounts -> Nat] /\ usdc[payer] >= amount
      /\ usdc' = Moved(usdc, payer, SplitterAddr, amount)
      /\ UNCHANGED <<now, ownershipVars, accountVars, accumulatorVars>>
      /\ UNCHANGED <<protocolTreasury, providerTreasury, protocolEarned, splits, splitTotal>>
    BY DEF PayForCall, CanMove, SplitterInv, SplitterTypes, treasuryVars, historyVars
<1>3. usdc' \in [Accounts -> Nat] /\ \A a \in Accounts \ {payer} : usdc'[a] >= usdc[a]
    BY <1>1, <1>2, MovedType
<1>4. SplitterTypes' /\ ProtocolShareBounded'
    BY <1>2, <1>3 DEF SplitterInv, SplitterTypes, ProtocolShareBounded
<1>5. SharesSafe'
    <2>1. ASSUME RevenueShareAddr \in Accounts PROVE ShareInv'
        BY <1>1, <1>2, <1>3, <2>1, CoinsComeIn DEF SplitterInv, SharesSafe
    <2> QED BY <2>1 DEF SharesSafe
<1> QED BY <1>4, <1>5 DEF SplitterInv

(***************************************************************************)
(* The floors of the protocol's cuts add up to at most its share of the    *)
(* sum, and lose less than one coin each.                                  *)
(***************************************************************************)
LEMMA CutsAddUp ==
    ASSUME SplitterTypes, ProtocolShareBounded,
           protocolEarned' = protocolEarned + ProtocolAmount,
           splits' = splits + 1, splitTotal' = splitTotal + usdc[SplitterAddr]
    PROVE  ProtocolShareBounded'
<1> DEFINE x == usdc[SplitterAddr]
           p == ProtocolTreasuryBp
           c == (x * p) \div BP_SCALE
           e == protocolEarned
           n == splits
           t == splitTotal
           d == BP_SCALE
<1>1. /\ x \in Nat /\ p \in Nat /\ d \in Nat \ {0} /\ e \in Nat /\ n \in Nat /\ t \in Nat
    BY SplitterAssumption DEF SplitterTypes
<1>2. x * p \in Nat
    BY <1>1
<1>3. c \in Nat /\ c * d <= x * p /\ x * p < c * d + d
    BY <1>1, <1>2, FloorNear
<1>4. protocolEarned' = e + c /\ splits' = n + 1 /\ splitTotal' = t + x
    BY DEF ProtocolAmount, Cut
<1>5. e * d <= p * t /\ (e + n) * d >= p * t
    BY DEF ProtocolShareBounded
<1> HIDE DEF x, p, c, e, n, t, d
<1>6. /\ (e + c) * d = e * d + c * d /\ p * (t + x) = p * t + x * p
      /\ (e + c + (n + 1)) * d = (e + n) * d + (c * d + d)
      /\ e * d \in Nat /\ c * d \in Nat /\ p * t \in Nat /\ (e + n) * d \in Nat
    BY <1>1, <1>3
<1>7. (e + c) * d <= p * (t + x) /\ (e + c + (n + 1)) * d >= p * (t + x)
    BY <1>1, <1>2, <1>3, <1>5, <1>6
<1>8. (e + c) * BP_SCALE <= ProtocolTreasuryBp * (t + x)
      /\ ((e + c) + (n + 1)) * BP_SCALE >= ProtocolTreasuryBp * (t + x)
    BY <1>7 DEF d, p
<1> QED BY <1>4, <1>8 DEF ProtocolShareBounded

LEMMA SplitStep ==
    ASSUME SplitterInv, SplitterDistribute
    PROVE  SplitterInv'
<1>1. /\ SplitterTypes /\ SharesSafe /\ ProtocolShareBounded /\ SplitAccepted
      /\ usdc' = AfterSplit
      /\ protocolEarned' = protocolEarned + ProtocolAmount
      /\ splits' = splits + 1
      /\ splitTotal' = splitTotal + usdc[SplitterAddr]
      /\ UNCHANGED <<now, ownershipVars, accountVars>>
      /\ UNCHANGED <<protocolTreasury, providerTreasury>>
    BY DEF SplitterDistribute, SplitterInv, treasuryVars
<1>2. \/ InternalDistribute(AfterSplit)
      \/ UNCHANGED accumulatorVars
    BY DEF SplitterDistribute, NotifyRevenueShare
<1>3. /\ AfterSplit \in [Accounts -> Nat]
      /\ RevenueShareAddr \in Accounts => AfterSplit[RevenueShareAddr] >= usdc[RevenueShareAddr]
    BY <1>1, SplitType
<1>4. SplitterTypes'
    <2>1. /\ usdc[SplitterAddr] \in Nat /\ ProtocolAmount \in Nat
          /\ protocolEarned \in Nat /\ splits \in Nat /\ splitTotal \in Nat
        BY <1>1, CutsFit DEF SplitterTypes
    <2>2. protocolEarned' \in Nat /\ splits' \in Nat /\ splitTotal' \in Nat
        BY <1>1, <2>1
    <2> QED BY <1>1, <1>3, <2>2 DEF SplitterTypes
<1>5. ProtocolShareBounded'
    BY <1>1, CutsAddUp
<1>6. ASSUME RevenueShareAddr \in Accounts PROVE ShareInv'
    <2>1. ShareInv
        BY <1>1, <1>6 DEF SharesSafe
    <2>2. CASE InternalDistribute(AfterSplit)
        BY <1>1, <1>3, <1>6, <2>1, <2>2, DistributeOverStep
    <2>3. CASE UNCHANGED accumulatorVars
        BY <1>1, <1>3, <1>6, <2>1, <2>3, CoinsComeIn
    <2> QED BY <1>2, <2>2, <2>3
<1> QED BY <1>4, <1>5, <1>6 DEF SplitterInv, SharesSafe

LEMMA SplitterInvInit ==
    ASSUME SplitterInit
    PROVE  SplitterInv
<1>1. usdc \in [Accounts -> Nat]
    BY ShareAssumption DEF SplitterInit, ShareInit
<1>2. SplitterTypes
    BY <1>1 DEF SplitterInit, SplitterTypes
<1>3. SharesSafe
    BY ShareInvInit DEF SplitterInit, SharesSafe
<1>4. ProtocolShareBounded
    <2>1. /\ protocolEarned = 0 /\ splits = 0 /\ splitTotal = 0
          /\ BP_SCALE \in Nat /\ ProtocolTreasuryBp \in Nat
        BY SplitterAssumption DEF SplitterInit
    <2>2. 0 * BP_SCALE = 0 /\ (0 + 0) * BP_SCALE = 0 /\ ProtocolTreasuryBp * 0 = 0
        BY <2>1
    <2> QED BY <2>1, <2>2 DEF ProtocolShareBounded
<1> QED BY <1>2, <1>3, <1>4 DEF SplitterInv

LEMMA SplitterInvStep ==
    ASSUME SplitterInv, [SplitterNext]_splitterVars
    PROVE  SplitterInv'
<1>1. ASSUME RevenueShareAddr # NoAddress, ShareNext, UNCHANGED <<treasuryVars, historyVars>>
      PROVE  SplitterInv'
    <2>1. RevenueShareAddr \in Accounts /\ ShareInv
        BY <1>1, ShareAssumption DEF SplitterInv, SharesSafe
    <2>2. ShareInv'
        BY <1>1, <2>1, ShareInvStep
    <2>3. UNCHANGED <<protocolTreasury, providerTreasury, protocolEarned, splits, splitTotal>>
        BY <1>1 DEF treasuryVars, historyVars
    <2> QED BY <2>2, <2>3 DEF SplitterInv, SplitterTypes, SharesSafe, ProtocolShareBounded,
                              ShareInv, ShareTypeOK
<1>2. ASSUME NEW payer \in Payers, NEW amount \in Payments, PayForCall(payer, amount)
      PROVE  SplitterInv'
    BY <1>2, PaymentStep
<1>3. ASSUME SplitterDistribute PROVE SplitterInv'
    BY <1>3, SplitStep
<1>4. ASSUME TreasuryStep \/ UNCHANGED splitterVars PROVE SplitterInv'
    <2>1. UNCHANGED shareVars /\ UNCHANGED <<protocolEarned, splits, splitTotal>>
        BY <1>4 DEF TreasuryStep, SetProtocolTreasury, SetProviderTreasury, TransferProviderAdmin,
                    splitterVars, historyVars
    <2>2. protocolTreasury' \in ProtocolTreasuries /\ providerTreasury' \in ProviderTreasuries
        BY <1>4 DEF TreasuryStep, SetProtocolTreasury, SetProviderTreasury, TransferProviderAdmin,
                    splitterVars, treasuryVars, SplitterInv, SplitterTypes
    <2>3. SharesSafe'
        BY <2>1, QuietStep DEF SplitterInv, SharesSafe
    <2>4. usdc' = usdc
        BY <2>1 DEF shareVars
    <2> QED BY <2>1, <2>2, <2>3, <2>4 DEF SplitterInv, SplitterTypes, ProtocolShareBounded
<1> QED BY <1>1, <1>2, <1>3, <1>4 DEF SplitterNext

LEMMA SplitterInvHolds == SplitterSpec => []SplitterInv
<1>1. SplitterInit => SplitterInv
    BY SplitterInvInit
<1>2. SplitterInv /\ [SplitterNext]_splitterVars => SplitterInv'
    BY SplitterInvStep
<1> QED BY <1>1, <1>2, PTL DEF SplitterSpec

-----------------------------------------------------------------------------
(***************************************************************************)
(* For any basis points, payments and treasury rotation, the protocol      *)
(* earns its share of all revenue, less at most a coin per distribution.   *)
(***************************************************************************)
THEOREM ProtocolEarnsItsShare == SplitterSpec => []ProtocolShareBounded
<1>1. SplitterInv => ProtocolShareBounded
    BY DEF SplitterInv
<1> QED BY <1>1, SplitterInvHolds, PTL

(***************************************************************************)
(* The revenue share stays solvent when the splitter pays it and notifies  *)
(* it in one transaction, also when the notification is lost.              *)
(***************************************************************************)
THEOREM SplitterKeepsSharesSolvent ==
    RevenueShareAddr \in Accounts => (SplitterSpec => []Solvent)
<1> SUFFICES ASSUME RevenueShareAddr \in Accounts PROVE SplitterSpec => []Solvent
    OBVIOUS
<1>1. SplitterInv => Solvent
    BY InvImpliesSolvent DEF SplitterInv, SharesSafe
<1> QED BY <1>1, SplitterInvHolds, PTL

-----------------------------------------------------------------------------
(***************************************************************************)
(* What holds of the share by itself holds of the share the splitter       *)
(* feeds.  Only the splitter's distribute() touches both: its coins reach  *)
(* the share in the transaction that credits them, or are credited later.  *)
(***************************************************************************)
FedInv == SplitterInv /\ ShareInv /\ RingInv

LEMMA FedInvHolds == RevenueShareAddr \in Accounts => (SplitterSpec => []FedInv)
<1> SUFFICES ASSUME RevenueShareAddr \in Accounts PROVE SplitterSpec => []FedInv
    OBVIOUS
<1>1. SplitterInit => FedInv
    BY SplitterInvInit, RingInvInit DEF SplitterInit, FedInv, SplitterInv, SharesSafe
<1>2. FedInv /\ [SplitterNext]_splitterVars => FedInv'
    <2> SUFFICES ASSUME FedInv, [SplitterNext]_splitterVars PROVE FedInv'
        OBVIOUS
    <2>1. SplitterInv' /\ ShareInv'
        BY SplitterInvStep DEF FedInv, SplitterInv, SharesSafe
    <2>2. /\ SplitterInv /\ ShareInv /\ RingInv /\ ShareTypeOK /\ Earned /\ now > 0
          /\ usdc \in [Accounts -> Nat]
        BY DEF FedInv, ShareInv, ShareTypeOK, RingInv
    <2>3. ASSUME ShareNext \/ UNCHANGED shareVars PROVE RingInv'
        BY <2>2, <2>3, RingStep
    <2>4. ASSUME NEW payer \in Payers, NEW amount \in Payments, PayForCall(payer, amount)
          PROVE  RingInv'
        BY <2>2, <2>4, RingStaysAsItIs DEF PayForCall
    <2>5. ASSUME SplitterDistribute PROVE RingInv'
        <3>1. now' = now /\ (InternalDistribute(AfterSplit) \/ UNCHANGED accumulatorVars)
            BY <2>5 DEF SplitterDistribute, NotifyRevenueShare
        <3>2. AfterSplit \in [Accounts -> Nat]
            BY <2>2, <2>5, SplitType DEF SplitterDistribute, SplitterInv
        <3>3. CASE InternalDistribute(AfterSplit)
            BY <2>2, <3>1, <3>2, <3>3, RingOverDistribution
        <3>4. CASE UNCHANGED accumulatorVars
            BY <2>2, <3>1, <3>4, RingStaysAsItIs
        <3> QED BY <3>1, <3>3, <3>4
    <2>6. ASSUME TreasuryStep \/ UNCHANGED splitterVars PROVE UNCHANGED shareVars
        BY <2>6 DEF TreasuryStep, SetProtocolTreasury, SetProviderTreasury,
                    TransferProviderAdmin, splitterVars
    <2>7. RingInv'
        BY <2>3, <2>4, <2>5, <2>6 DEF SplitterNext
    <2> QED BY <2>1, <2>7 DEF FedInv
<1> QED BY <1>1, <1>2, PTL DEF SplitterSpec

LEMMA SplitterStepIsPoolStep ==
    ASSUME SplitterInv, RevenueShareAddr \in Accounts, [SplitterNext]_splitterVars
    PROVE  [Pool!PoolNext]_<<usdc[RevenueShareAddr], Claimable>>
<1> DEFINE poolVars == <<usdc[RevenueShareAddr], Claimable>>
<1>1. /\ ShareInv /\ SplitterTypes
      /\ usdc \in [Accounts -> Nat] /\ usdc[RevenueShareAddr] \in Nat
    BY DEF SplitterInv, SharesSafe, SplitterTypes
<1>2. ASSUME ShareNext \/ UNCHANGED shareVars PROVE [Pool!PoolNext]_poolVars
    BY <1>1, <1>2, ShareStepIsPoolStep
<1>3. ASSUME NEW payer \in Payers, NEW amount \in Payments, PayForCall(payer, amount)
      PROVE  UNCHANGED poolVars
    <2>1. /\ payer \in Accounts \ {RevenueShareAddr} /\ amount \in Nat
          /\ SplitterAddr \in Accounts \ {RevenueShareAddr}
        BY ShareAssumption, SplitterAssumption
    <2>2. /\ usdc' = Moved(usdc, payer, SplitterAddr, amount)
          /\ UNCHANGED <<shares, checkpoint, pendingClaims, revenuePerShare>>
        BY <1>3 DEF PayForCall, ownershipVars, accountVars, accumulatorVars
    <2>3. usdc'[RevenueShareAddr] = usdc[RevenueShareAddr]
        BY <1>1, <2>1, <2>2 DEF Moved
    <2> QED BY <2>2, <2>3 DEF Claimable, ClaimableAt, Accrued
<1>4. ASSUME SplitterDistribute PROVE [Pool!PoolNext]_poolVars
    <2>1. /\ AfterSplit \in [Accounts -> Nat] /\ AfterSplit[RevenueShareAddr] \in Nat
          /\ AfterSplit[RevenueShareAddr] >= usdc[RevenueShareAddr]
        BY <1>1, <1>4, SplitType DEF SplitterDistribute
    <2>2. /\ usdc' = AfterSplit
          /\ UNCHANGED <<shares, checkpoint, pendingClaims>>
          /\ InternalDistribute(AfterSplit) \/ UNCHANGED accumulatorVars
        BY <1>4 DEF SplitterDistribute, NotifyRevenueShare, ownershipVars, accountVars
    <2>3. CASE InternalDistribute(AfterSplit)
        BY <1>1, <2>1, <2>2, <2>3, DistributionIsCredit DEF Pool!PoolNext
    <2>4. CASE UNCHANGED accumulatorVars
        <3>1. Claimable' = Claimable
            BY <2>2, <2>4 DEF Claimable, ClaimableAt, Accrued, accumulatorVars
        <3>2. CASE usdc'[RevenueShareAddr] = usdc[RevenueShareAddr]
            BY <3>1, <3>2
        <3>3. CASE usdc'[RevenueShareAddr] > usdc[RevenueShareAddr]
            BY <3>1, <3>3 DEF Pool!PoolNext, Pool!Arrive
        <3>4. \A a, b \in Nat : a >= b => a = b \/ a > b
            OBVIOUS
        <3> QED BY <1>1, <2>1, <2>2, <3>2, <3>3, <3>4
    <2> QED BY <2>2, <2>3, <2>4
<1>5. ASSUME TreasuryStep \/ UNCHANGED splitterVars PROVE UNCHANGED shareVars
    BY <1>5 DEF TreasuryStep, SetProtocolTreasury, SetProviderTreasury,
                TransferProviderAdmin, splitterVars
<1> HIDE DEF poolVars
<1>6. [Pool!PoolNext]_poolVars
    BY <1>2, <1>3, <1>4, <1>5 DEF SplitterNext
<1> QED BY <1>6 DEF poolVars

(***************************************************************************)
(* A share fed by a splitter still implements the dividend pool of         *)
(* DividendPool.tla: when the splitter's call to distribute() fails the    *)
(* coins have only arrived, and when it goes through they cover what it    *)
(* credits, for any basis points and payments.                             *)
(***************************************************************************)
THEOREM FedSharesImplementPool ==
    RevenueShareAddr \in Accounts => (SplitterSpec => ImplementsPool)
<1> SUFFICES ASSUME RevenueShareAddr \in Accounts PROVE SplitterSpec => Pool!PoolSpec
    BY DEF ImplementsPool
<1>1. SplitterInit => Pool!PoolInit
    BY ShareInitIsPoolInit DEF SplitterInit
<1>2. SplitterInv /\ [SplitterNext]_splitterVars
         => [Pool!PoolNext]_<<usdc[RevenueShareAddr], Claimable>>
    BY SplitterStepIsPoolStep
<1> QED BY <1>1, <1>2, SplitterInvHolds, PTL DEF SplitterSpec, Pool!PoolSpec

(***************************************************************************)
(* A payment and a split move nobody's earnings either, unless the share   *)
(* hears of the split and distributes.                                     *)
(***************************************************************************)
THEOREM FedEarningsStayPut ==
    RevenueShareAddr \in Accounts => (SplitterSpec => TransferKeepsEarnings)
<1> SUFFICES ASSUME RevenueShareAddr \in Accounts PROVE SplitterSpec => TransferKeepsEarnings
    OBVIOUS
<1>1. SplitterInv /\ [SplitterNext]_splitterVars =>
          [UNCHANGED <<totalDistributed, totalClaimed>> => Claimable' = Claimable]_shareVars
    <2> SUFFICES ASSUME SplitterInv, SplitterNext PROVE KeepsEarnings
        BY DEF splitterVars, KeepsEarnings
    <2>1. ASSUME ShareNext PROVE KeepsEarnings
        BY <2>1, ShareStepKeepsEarnings DEF SplitterInv, SharesSafe
    <2>2. CASE SplitterDistribute
        <3>1. UNCHANGED <<shares, pendingClaims, checkpoint>>
            BY <2>2 DEF SplitterDistribute, ownershipVars, accountVars
        <3>2. totalDistributed' = totalDistributed => revenuePerShare' = revenuePerShare
            <4>1. ShareTypeOK /\ SplitterTypes /\ SplitAccepted
                BY <2>2 DEF SplitterInv, SharesSafe, ShareInv, SplitterDistribute
            <4>2. AfterSplit \in [Accounts -> Nat]
                BY <4>1, SplitType
            <4>3. Undistributed(AfterSplit) \in Int
                BY <4>1, <4>2 DEF Undistributed, ShareTypeOK
            <4>4. \/ InternalDistribute(AfterSplit)
                  \/ UNCHANGED accumulatorVars
                BY <2>2 DEF SplitterDistribute, NotifyRevenueShare
            <4> QED BY <4>1, <4>3, <4>4, NothingDistributed DEF accumulatorVars
        <3> QED BY <3>1, <3>2, SameEarnings DEF KeepsEarnings
    <2>3. ASSUME TreasuryStep \/ \E p \in Payers, amount \in Payments : PayForCall(p, amount)
          PROVE  KeepsEarnings
        <3>1. UNCHANGED <<shares, pendingClaims, checkpoint, revenuePerShare>>
            BY <2>3 DEF TreasuryStep, PayForCall, SetProtocolTreasury, SetProviderTreasury,
               TransferProviderAdmin, shareVars, ownershipVars, accountVars, accumulatorVars
        <3> QED BY <3>1, SameEarnings DEF KeepsEarnings
    <2> QED BY <2>1, <2>2, <2>3 DEF SplitterNext
<1> QED BY <1>1, SplitterInvHolds, PTL DEF SplitterSpec, TransferKeepsEarnings

(***************************************************************************)
(* _findSnapshotBefore returns the latest old enough snapshot also when    *)
(* snapshots are taken by the distributions a splitter triggers.           *)
(***************************************************************************)
THEOREM FedSearchFindsLatest ==
    RevenueShareAddr \in Accounts => (SplitterSpec => []FindsLatest)
<1> SUFFICES ASSUME RevenueShareAddr \in Accounts PROVE SplitterSpec => []FindsLatest
    OBVIOUS
<1>1. FedInv => FindsLatest
    BY SearchIsRight DEF FedInv, ShareInv
<1> QED BY <1>1, FedInvHolds, PTL

-----------------------------------------------------------------------------
(***************************************************************************)
(* The offering and the wrapper.                                           *)
(***************************************************************************)

OfferingTypes ==
    /\ phase \in {"Fundraising", "Active", "Cancelled"}
    /\ totalRaised \in Nat
    /\ tokens \in [Backers -> Nat]

WrapperTypes ==
    /\ wrapped \in [Wrappers -> Nat]
    /\ withdrawFeeBps \in 0 .. MaxWithdrawFee
    /\ wrapperTreasury \in Accounts

WithinGoal == phase = "Fundraising" => Total(tokens) <= MaxSupply

OfferingInv == OfferingTypes /\ WithinGoal /\ OfferingCovered

WrapperInv == WrapperTypes /\ WrapperBacked

MarketInv == ShareInv /\ OfferingInv /\ WrapperInv

\* What OnlyDepositsDilute says of a step.
NoDilution ==
    WrapSupply' \in 1 .. WrapSupply =>
        /\ usdc'[WrapperAddr] * WrapSupply >= usdc[WrapperAddr] * WrapSupply'
        /\ shares'[WrapperAddr] * WrapSupply >= shares[WrapperAddr] * WrapSupply'

-----------------------------------------------------------------------------
(***************************************************************************)
(* The constants.                                                          *)
(***************************************************************************)
LEMMA MarketFacts ==
    /\ IsFiniteSet(Holders) /\ IsFiniteSet(Backers) /\ IsFiniteSet(Wrappers)
    /\ OfferingAddr \in Holders \ (Claimants \cup Payers \cup {RevenueShareAddr, WrapperAddr})
    /\ WrapperAddr \in Holders \ (Claimants \cup Payers \cup {RevenueShareAddr, OfferingAddr})
    /\ Holders \subseteq Accounts
    /\ Backers \subseteq Holders \ {RevenueShareAddr, OfferingAddr, WrapperAddr}
    /\ Wrappers \subseteq Holders \ {RevenueShareAddr, OfferingAddr, WrapperAddr}
<1>1. IsFiniteSet(Holders) /\ Holders \subseteq Accounts
    BY ShareAssumption
<1>2. /\ Backers \subseteq Holders \ {RevenueShareAddr, OfferingAddr, WrapperAddr}
      /\ Wrappers \subseteq Holders \ {RevenueShareAddr, OfferingAddr, WrapperAddr}
      /\ OfferingAddr \in Holders \ (Claimants \cup Payers \cup {RevenueShareAddr, WrapperAddr})
      /\ WrapperAddr \in Holders \ (Claimants \cup Payers \cup {RevenueShareAddr, OfferingAddr})
    BY OfferingAssumption, WrapperAssumption, MarketAssumption
<1>3. Backers \subseteq Holders /\ Wrappers \subseteq Holders
    BY <1>2
<1>4. IsFiniteSet(Backers) /\ IsFiniteSet(Wrappers)
    BY <1>1, <1>3, FS_Subset
<1> QED BY <1>1, <1>2, <1>4

LEMMA Prices ==
    /\ TokenPrice \in Nat \ {0} /\ RSAllocated \in Nat \ {0}
    /\ MaxSupply \in Nat \ {0}
    /\ BPS_SCALE \in Nat \ {0} /\ MaxWithdrawFee \in 0 .. BPS_SCALE
<1>1. /\ TokenPrice \in Nat \ {0} /\ FundingGoal \in Nat \ {0} /\ FundingGoal % TokenPrice = 0
      /\ RSAllocated \in Nat \ {0}
    BY OfferingAssumption
<1>2. FundingGoal \div TokenPrice \in Nat
    BY <1>1
<1>3. FundingGoal = TokenPrice * (FundingGoal \div TokenPrice)
    BY <1>1
<1>4. FundingGoal \div TokenPrice # 0
    <2> SUFFICES ASSUME FundingGoal \div TokenPrice = 0 PROVE FALSE
        OBVIOUS
    <2>1. TokenPrice * (FundingGoal \div TokenPrice) = 0
        BY <1>1
    <2> QED BY <1>1, <1>3, <2>1
<1> QED BY <1>1, <1>2, <1>4, WrapperAssumption DEF MaxSupply

(***************************************************************************)
(* Paying the floor of a share n of s out of x leaves the rest at least    *)
(* its proportion.                                                         *)
(***************************************************************************)
LEMMA PayoutKeepsRate ==
    ASSUME NEW x \in Nat, NEW s \in Nat \ {0}, NEW n \in 0 .. s
    PROVE  /\ (n * x) \div s \in 0 .. x
           /\ (x - (n * x) \div s) * s >= x * (s - n)
<1> DEFINE r == (n * x) \div s
<1>1. n * x \in Nat /\ n \in Nat /\ n <= s
    OBVIOUS
<1>2. r \in Nat /\ s * r <= n * x
    BY <1>1, FloorDivision
<1> HIDE DEF r
<1>3. n * x <= s * x
    BY <1>1, ProductOrder
<1>4. r <= x
    <2> SUFFICES ASSUME r >= x + 1 PROVE FALSE
        BY <1>2
    <2>1. s * r >= s * (x + 1)
        BY <1>2
    <2>2. s * (x + 1) = s * x + s
        OBVIOUS
    <2> QED BY <1>1, <1>2, <1>3, <2>1, <2>2
<1>5. (x - r) * s = x * s - s * r /\ x * (s - n) = x * s - n * x
    BY <1>1, <1>2
<1>6. x * s \in Nat /\ s * r \in Nat
    BY <1>2
<1>7. (x - r) * s >= x * (s - n)
    BY <1>1, <1>2, <1>5, <1>6
<1> QED BY <1>2, <1>4, <1>7 DEF r

\* A rate at least 1 stays at least 1.
LEMMA StaysBacked ==
    ASSUME NEW x \in Nat, NEW y \in Nat, NEW s \in Nat \ {0}, NEW t \in 0 .. s,
           s <= x, y * s >= x * t
    PROVE  t <= y
<1>1. x * t >= s * t
    BY ProductOrder
<1>2. s * t \in Nat /\ x * t \in Nat /\ y * s \in Nat
    OBVIOUS
<1> SUFFICES ASSUME y + 1 <= t PROVE FALSE
    OBVIOUS
<1>3. (y + 1) * s <= t * s
    BY ProductOrder
<1>4. (y + 1) * s = y * s + s /\ t * s = s * t
    OBVIOUS
<1> QED BY <1>1, <1>2, <1>3, <1>4

-----------------------------------------------------------------------------
(***************************************************************************)
(* What takes nothing from the offering, or from the wrapper, leaves its   *)
(* invariant alone.                                                        *)
(***************************************************************************)
LEMMA OfferingUntouched ==
    ASSUME MarketInv, ShareInv', UNCHANGED offeringVars,
           usdc'[OfferingAddr] >= usdc[OfferingAddr], shares'[OfferingAddr] >= shares[OfferingAddr]
    PROVE  OfferingInv'
<1>1. /\ OfferingTypes' /\ WithinGoal' /\ phase' = phase /\ tokens' = tokens
    BY DEF MarketInv, OfferingInv, OfferingTypes, WithinGoal, offeringVars, MaxSupply
<1>2. /\ usdc[OfferingAddr] \in Nat /\ usdc'[OfferingAddr] \in Nat
      /\ shares[OfferingAddr] \in Nat /\ shares'[OfferingAddr] \in Nat
    BY MarketFacts DEF MarketInv, ShareInv, ShareTypeOK
<1>3. Total(tokens) \in Nat
    BY MarketFacts, CoinsFinite DEF MarketInv, OfferingInv, OfferingTypes
<1>4. /\ Total(tokens) * TokenPrice \in Nat /\ Total(tokens) * RSAllocated \in Nat
      /\ shares[OfferingAddr] * MaxSupply \in Nat /\ shares'[OfferingAddr] * MaxSupply \in Nat
      /\ shares[OfferingAddr] * MaxSupply <= shares'[OfferingAddr] * MaxSupply
    BY <1>2, <1>3, Prices, ProductOrder
<1>5. MaxSupply' = MaxSupply
    BY DEF MaxSupply
<1>6. OfferingCovered'
    BY <1>1, <1>2, <1>4, <1>5 DEF MarketInv, OfferingInv, OfferingCovered
<1> QED BY <1>1, <1>6 DEF OfferingInv

LEMMA WrapperUntouched ==
    ASSUME MarketInv, ShareInv', UNCHANGED <<wrapped, withdrawFeeBps, wrapperTreasury>>,
           usdc'[WrapperAddr] >= usdc[WrapperAddr], shares'[WrapperAddr] >= shares[WrapperAddr]
    PROVE  WrapperInv' /\ NoDilution
<1>1. WrapperTypes' /\ WrapSupply' = WrapSupply
    BY DEF MarketInv, WrapperInv, WrapperTypes, WrapSupply
<1>2. /\ usdc[WrapperAddr] \in Nat /\ usdc'[WrapperAddr] \in Nat
      /\ shares[WrapperAddr] \in Nat /\ shares'[WrapperAddr] \in Nat
    BY MarketFacts DEF MarketInv, ShareInv, ShareTypeOK
<1>3. WrapSupply \in Nat
    BY MarketFacts, CoinsFinite DEF MarketInv, WrapperInv, WrapperTypes, WrapSupply
<1>4. WrapperBacked'
    BY <1>1, <1>2, <1>3 DEF MarketInv, WrapperInv, WrapperBacked
<1>5. /\ usdc[WrapperAddr] * WrapSupply <= usdc'[WrapperAddr] * WrapSupply
      /\ shares[WrapperAddr] * WrapSupply <= shares'[WrapperAddr] * WrapSupply
    BY <1>2, <1>3, ProductOrder
<1>6. NoDilution
    <2>1. /\ usdc[WrapperAddr] * WrapSupply \in Nat /\ usdc'[WrapperAddr] * WrapSupply \in Nat
          /\ shares[WrapperAddr] * WrapSupply \in Nat /\ shares'[WrapperAddr] * WrapSupply \in Nat
        BY <1>2, <1>3
    <2> QED BY <1>1, <1>5, <2>1 DEF NoDilution
<1> QED BY <1>1, <1>4, <1>6 DEF WrapperInv
-----------------------------------------------------------------------------
(***************************************************************************)
(* The functions of the offering.                                          *)
(***************************************************************************)
LEMMA ContributeStep ==
    ASSUME MarketInv, RevenueShareAddr \in Accounts,
           NEW b \in Backers, NEW amount \in Nat, Contribute(b, amount), UNCHANGED wrapperVars
    PROVE  MarketInv' /\ NoDilution
<1> USE DEF MarketInv, OfferingInv
<1> DEFINE k == amount \div TokenPrice
<1>1. /\ usdc[b] >= amount /\ phase = "Fundraising" /\ phase' = phase
      /\ amount % TokenPrice = 0
      /\ Total(tokens) + k <= MaxSupply
      /\ usdc' = Moved(usdc, b, OfferingAddr, amount)
      /\ totalRaised' = totalRaised + amount
      /\ tokens' = [tokens EXCEPT ![b] = tokens[b] + k]
      /\ UNCHANGED <<now, ownershipVars, accountVars, accumulatorVars>>
    BY DEF Contribute, CanMove
<1>2. /\ usdc \in [Accounts -> Nat] /\ shares \in [Holders -> Nat]
      /\ tokens \in [Backers -> Nat] /\ totalRaised \in Nat /\ IsFiniteSet(Backers)
      /\ b \in Accounts /\ OfferingAddr \in Accounts /\ WrapperAddr \in Accounts
      /\ b \notin {RevenueShareAddr, OfferingAddr, WrapperAddr}
    BY MarketFacts DEF ShareInv, ShareTypeOK, OfferingTypes
<1>3. /\ usdc' \in [Accounts -> Nat]
      /\ usdc'[OfferingAddr] = usdc[OfferingAddr] + amount
      /\ usdc'[WrapperAddr] >= usdc[WrapperAddr]
      /\ usdc'[RevenueShareAddr] >= usdc[RevenueShareAddr]
    <2>1. /\ Moved(usdc, b, OfferingAddr, amount) \in [Accounts -> Nat]
          /\ Moved(usdc, b, OfferingAddr, amount)[OfferingAddr] = usdc[OfferingAddr] + amount
          /\ \A a \in Accounts \ {b} : Moved(usdc, b, OfferingAddr, amount)[a] >= usdc[a]
        BY <1>1, <1>2, MovedType
    <2> QED BY <1>1, <1>2, <2>1
<1>4. shares' = shares
    BY <1>1 DEF ownershipVars
<1>5. ShareInv'
    BY <1>1, <1>3, CoinsComeIn
<1>6. WrapperInv' /\ NoDilution
    BY <1>2, <1>3, <1>4, <1>5, MarketFacts, WrapperUntouched DEF wrapperVars, feeVars
<1>7. k \in Nat /\ k * TokenPrice = amount
    BY <1>1, Prices
<1> HIDE DEF k
<1>8. Total(tokens) \in Nat /\ Total(tokens') = Total(tokens) + k
    <2>1. tokens[b] + k \in Nat /\ tokens[b] \in Nat
        BY <1>2, <1>7
    <2>2. ASSUME NEW n \in Nat
          PROVE  Total(tokens) \in Nat /\ Total([tokens EXCEPT ![b] = n]) = Total(tokens) - tokens[b] + n
        BY <1>2, TotalUpdate, ZenonT(30)
    <2>3. /\ Total(tokens) \in Nat
          /\ Total([tokens EXCEPT ![b] = tokens[b] + k]) = Total(tokens) - tokens[b] + (tokens[b] + k)
        BY <2>1, <2>2
    <2> QED BY <1>1, <1>7, <2>1, <2>3
<1>9. OfferingTypes'
    BY <1>1, <1>2, <1>7 DEF OfferingTypes
<1>10. WithinGoal'
    BY <1>1, <1>8 DEF WithinGoal, k, MaxSupply
<1>11. OfferingCovered'
    <2>1. Total(tokens') * TokenPrice = Total(tokens) * TokenPrice + amount
        BY <1>7, <1>8, Prices
    <2>2. Total(tokens) * TokenPrice \in Nat /\ usdc[OfferingAddr] \in Nat
        BY <1>2, <1>8, Prices
    <2>3. usdc[OfferingAddr] >= Total(tokens) * TokenPrice
        BY <1>1 DEF OfferingCovered
    <2>4. usdc'[OfferingAddr] >= Total(tokens') * TokenPrice
        BY <1>3, <2>1, <2>2, <2>3
    <2> QED BY <1>1, <2>4 DEF OfferingCovered
<1> QED BY <1>5, <1>6, <1>9, <1>10, <1>11

LEMMA FinalizeStep ==
    ASSUME MarketInv, RevenueShareAddr \in Accounts, Finalize, UNCHANGED wrapperVars
    PROVE  MarketInv' /\ NoDilution
<1> USE DEF MarketInv, OfferingInv
<1> DEFINE amount == usdc[OfferingAddr]
<1>1. /\ phase = "Fundraising" /\ phase' = "Active"
      /\ shares[OfferingAddr] >= RSAllocated
      /\ usdc' = Moved(usdc, OfferingAddr, Provider, amount)
      /\ UNCHANGED <<totalRaised, tokens, now, ownershipVars, accountVars, accumulatorVars>>
    BY DEF Finalize
<1>2. /\ usdc \in [Accounts -> Nat] /\ shares \in [Holders -> Nat]
      /\ tokens \in [Backers -> Nat] /\ IsFiniteSet(Backers)
      /\ Provider \in Accounts /\ OfferingAddr \in Accounts /\ WrapperAddr \in Accounts
      /\ OfferingAddr \notin {RevenueShareAddr, WrapperAddr}
      /\ amount \in Nat /\ shares[OfferingAddr] \in Nat
    BY MarketFacts, OfferingAssumption DEF ShareInv, ShareTypeOK, OfferingTypes
<1>3. /\ usdc' \in [Accounts -> Nat]
      /\ usdc'[WrapperAddr] >= usdc[WrapperAddr]
      /\ usdc'[RevenueShareAddr] >= usdc[RevenueShareAddr]
    <2>1. usdc[OfferingAddr] >= amount
        BY <1>2
    <2> HIDE DEF amount
    <2>2. /\ Moved(usdc, OfferingAddr, Provider, amount) \in [Accounts -> Nat]
          /\ \A a \in Accounts \ {OfferingAddr} :
                 Moved(usdc, OfferingAddr, Provider, amount)[a] >= usdc[a]
        BY <1>2, <2>1, MovedType
    <2> QED BY <1>1, <1>2, <2>2
<1>4. shares' = shares
    BY <1>1 DEF ownershipVars
<1>5. ShareInv'
    BY <1>1, <1>3, CoinsComeIn
<1>6. WrapperInv' /\ NoDilution
    BY <1>2, <1>3, <1>4, <1>5, MarketFacts, WrapperUntouched DEF wrapperVars, feeVars
<1>7. Total(tokens) \in Nat /\ Total(tokens) <= MaxSupply
    BY <1>1, <1>2, CoinsFinite DEF WithinGoal
<1>8. OfferingTypes' /\ WithinGoal'
    BY <1>1 DEF OfferingTypes, WithinGoal
<1>9. OfferingCovered'
    <2>1. Total(tokens) * RSAllocated <= MaxSupply * RSAllocated
        BY <1>7, Prices, ProductOrder
    <2>2. RSAllocated * MaxSupply <= shares[OfferingAddr] * MaxSupply
        BY <1>1, <1>2, Prices, ProductOrder
    <2>3. /\ MaxSupply * RSAllocated = RSAllocated * MaxSupply
          /\ MaxSupply * RSAllocated \in Nat /\ Total(tokens) * RSAllocated \in Nat
          /\ shares[OfferingAddr] * MaxSupply \in Nat
        BY <1>2, <1>7, Prices
    <2>4. shares[OfferingAddr] * MaxSupply >= Total(tokens) * RSAllocated
        BY <2>1, <2>2, <2>3
    <2> QED BY <1>1, <1>4, <2>4 DEF OfferingCovered, MaxSupply
<1> QED BY <1>5, <1>6, <1>8, <1>9

LEMMA CancelStep ==
    ASSUME MarketInv, Cancel, UNCHANGED wrapperVars
    PROVE  MarketInv' /\ NoDilution
<1> USE DEF MarketInv, OfferingInv
<1>1. /\ phase = "Fundraising" /\ phase' = "Cancelled"
      /\ UNCHANGED <<totalRaised, tokens, shareVars>>
    BY DEF Cancel
<1>2. usdc' = usdc /\ shares' = shares
    BY <1>1 DEF shareVars, ownershipVars
<1>3. ShareInv'
    BY <1>1, QuietStep
<1>4. usdc[WrapperAddr] \in Nat /\ shares[WrapperAddr] \in Nat
    BY MarketFacts DEF ShareInv, ShareTypeOK
<1>5. WrapperInv' /\ NoDilution
    BY <1>2, <1>3, <1>4, WrapperUntouched DEF wrapperVars, feeVars
<1>6. OfferingTypes' /\ WithinGoal' /\ OfferingCovered'
    BY <1>1, <1>2 DEF OfferingTypes, WithinGoal, OfferingCovered
<1> QED BY <1>3, <1>5, <1>6

LEMMA TokensSet ==
    ASSUME tokens \in [Backers -> Nat], NEW b \in Backers, NEW n \in Nat,
           tokens' = [tokens EXCEPT ![b] = n]
    PROVE  /\ Total(tokens) \in Nat /\ tokens[b] <= Total(tokens)
           /\ tokens' \in [Backers -> Nat]
           /\ Total(tokens') = Total(tokens) - tokens[b] + n
<1>1. IsFiniteSet(Backers)
    BY MarketFacts
<1>2. /\ Total(tokens) \in Nat /\ tokens[b] <= Total(tokens)
      /\ Total([tokens EXCEPT ![b] = n]) = Total(tokens) - tokens[b] + n
    BY <1>1, BalanceSet
<1> QED BY <1>2

LEMMA WrappedSet ==
    ASSUME wrapped \in [Wrappers -> Nat], NEW u \in Wrappers, NEW n \in Nat,
           wrapped' = [wrapped EXCEPT ![u] = n]
    PROVE  /\ WrapSupply \in Nat /\ wrapped[u] <= WrapSupply
           /\ wrapped' \in [Wrappers -> Nat]
           /\ WrapSupply' = WrapSupply - wrapped[u] + n
<1>1. IsFiniteSet(Wrappers)
    BY MarketFacts
<1>2. /\ Total(wrapped) \in Nat /\ wrapped[u] <= Total(wrapped)
      /\ Total([wrapped EXCEPT ![u] = n]) = Total(wrapped) - wrapped[u] + n
    BY <1>1, BalanceSet
<1> QED BY <1>2 DEF WrapSupply

LEMMA RefundStep ==
    ASSUME MarketInv, RevenueShareAddr \in Accounts,
           NEW b \in Backers, Refund(b), UNCHANGED wrapperVars
    PROVE  MarketInv' /\ NoDilution
<1> USE DEF MarketInv, OfferingInv
<1> DEFINE k == tokens[b]
           amount == k * TokenPrice
<1>1. /\ phase = "Cancelled" /\ phase' = phase /\ totalRaised' = totalRaised
      /\ usdc[OfferingAddr] >= amount
      /\ usdc' = Moved(usdc, OfferingAddr, b, amount)
      /\ tokens' = [tokens EXCEPT ![b] = 0]
      /\ UNCHANGED <<now, ownershipVars, accountVars, accumulatorVars>>
    BY DEF Refund, CanMove
<1>2. /\ usdc \in [Accounts -> Nat] /\ shares \in [Holders -> Nat]
      /\ tokens \in [Backers -> Nat] /\ IsFiniteSet(Backers)
      /\ b \in Accounts /\ OfferingAddr \in Accounts /\ WrapperAddr \in Accounts
      /\ b # OfferingAddr /\ OfferingAddr \notin {RevenueShareAddr, WrapperAddr}
      /\ TokenPrice \in Nat
    BY MarketFacts, Prices DEF ShareInv, ShareTypeOK, OfferingTypes
<1>3. k \in Nat /\ amount \in Nat
    BY <1>2
<1>4. /\ usdc' \in [Accounts -> Nat]
      /\ usdc'[OfferingAddr] = usdc[OfferingAddr] - amount
      /\ usdc'[WrapperAddr] >= usdc[WrapperAddr]
      /\ usdc'[RevenueShareAddr] >= usdc[RevenueShareAddr]
    <2> HIDE DEF amount
    <2>1. /\ Moved(usdc, OfferingAddr, b, amount) \in [Accounts -> Nat]
          /\ Moved(usdc, OfferingAddr, b, amount)[OfferingAddr] = usdc[OfferingAddr] - amount
          /\ \A a \in Accounts \ {OfferingAddr} :
                 Moved(usdc, OfferingAddr, b, amount)[a] >= usdc[a]
        BY <1>1, <1>2, <1>3, MovedType
    <2> QED BY <1>1, <1>2, <2>1
<1>5. shares' = shares
    BY <1>1 DEF ownershipVars
<1>6. ShareInv'
    BY <1>1, <1>4, CoinsComeIn
<1>7. WrapperInv' /\ NoDilution
    BY <1>2, <1>4, <1>5, <1>6, MarketFacts, WrapperUntouched DEF wrapperVars, feeVars
<1>8. /\ Total(tokens) \in Nat /\ k <= Total(tokens)
      /\ Total(tokens') = Total(tokens) - k /\ tokens' \in [Backers -> Nat]
    <2>1. /\ Total(tokens) \in Nat /\ tokens[b] <= Total(tokens)
          /\ tokens' \in [Backers -> Nat] /\ Total(tokens') = Total(tokens) - tokens[b] + 0
        BY <1>1, <1>2, TokensSet
    <2> QED BY <1>3, <2>1
<1>9. OfferingTypes' /\ WithinGoal'
    BY <1>1, <1>8 DEF OfferingTypes, WithinGoal
<1>10. OfferingCovered'
    <2>1. usdc[OfferingAddr] >= Total(tokens) * TokenPrice
        BY <1>1 DEF OfferingCovered
    <2> HIDE DEF k
    <2>2. /\ Total(tokens') * TokenPrice = Total(tokens) * TokenPrice - amount
          /\ Total(tokens) * TokenPrice \in Nat /\ usdc[OfferingAddr] \in Nat
        BY <1>2, <1>3, <1>8
    <2> HIDE DEF amount
    <2>3. usdc'[OfferingAddr] >= Total(tokens') * TokenPrice
        BY <1>3, <1>4, <2>1, <2>2
    <2> QED BY <1>1, <2>3 DEF OfferingCovered
<1> QED BY <1>6, <1>7, <1>9, <1>10

\* The shares paid for n tokens, rounded down, are worth no more than they.
LEMMA RSForCovered ==
    ASSUME NEW n \in Nat
    PROVE  RSFor(n) \in Nat /\ RSFor(n) * MaxSupply <= n * RSAllocated
<1>1. n * RSAllocated \in Nat /\ MaxSupply \in Nat \ {0}
    BY Prices
<1>2. /\ (n * RSAllocated) \div MaxSupply \in Nat
      /\ MaxSupply * ((n * RSAllocated) \div MaxSupply) <= n * RSAllocated
    BY <1>1, FloorDivision
<1>3. RSFor(n) \in Nat /\ MaxSupply * RSFor(n) <= n * RSAllocated
    BY <1>2 DEF RSFor
<1> HIDE DEF MaxSupply
<1>4. MaxSupply * RSFor(n) = RSFor(n) * MaxSupply
    BY <1>1, <1>3
<1> QED BY <1>3, <1>4

LEMMA ClaimRSStep ==
    ASSUME MarketInv, NEW b \in Backers, NEW n \in Nat, ClaimRS(b, n), UNCHANGED wrapperVars
    PROVE  MarketInv' /\ NoDilution
<1> USE DEF MarketInv, OfferingInv
<1> DEFINE out == RSFor(n)
<1>1. /\ phase = "Active" /\ phase' = phase /\ totalRaised' = totalRaised
      /\ tokens[b] >= n /\ tokens' = [tokens EXCEPT ![b] = tokens[b] - n]
      /\ MoveShares(OfferingAddr, b, out)
      /\ shares[OfferingAddr] >= out
      /\ shares' = Moved(shares, OfferingAddr, b, out)
      /\ UNCHANGED <<usdc, now, totalSupply, genesisComplete, totalClaimed, accumulatorVars>>
    BY DEF ClaimRS, MoveShares
<1>2. /\ usdc \in [Accounts -> Nat] /\ shares \in [Holders -> Nat]
      /\ tokens \in [Backers -> Nat] /\ IsFiniteSet(Backers)
      /\ b \in Holders /\ OfferingAddr \in Holders /\ WrapperAddr \in Holders /\ WrapperAddr \in Accounts
      /\ b # OfferingAddr /\ OfferingAddr # WrapperAddr
    BY MarketFacts DEF ShareInv, ShareTypeOK, OfferingTypes
<1>3. out \in Nat /\ out * MaxSupply <= n * RSAllocated
    BY RSForCovered
<1> HIDE DEF out
<1>4. /\ shares'[OfferingAddr] = shares[OfferingAddr] - out
      /\ shares'[WrapperAddr] >= shares[WrapperAddr]
    <2>1. /\ Moved(shares, OfferingAddr, b, out)[OfferingAddr] = shares[OfferingAddr] - out
          /\ \A h \in Holders \ {OfferingAddr} : Moved(shares, OfferingAddr, b, out)[h] >= shares[h]
        BY <1>1, <1>2, <1>3, MovedType
    <2> QED BY <1>1, <1>2, <2>1
<1>5. ShareInv'
    <2>1. usdc' \in [Accounts -> Nat] /\ Covered'
        BY <1>1 DEF ShareInv, ShareTypeOK, Covered, accumulatorVars
    <2> QED BY <1>1, <1>2, <1>3, <2>1, SharesMoveStep
<1>6. WrapperInv' /\ NoDilution
    <2>1. usdc'[WrapperAddr] >= usdc[WrapperAddr]
        BY <1>1, <1>2
    <2> QED BY <1>4, <1>5, <2>1, WrapperUntouched DEF wrapperVars, feeVars
<1>7. /\ Total(tokens) \in Nat /\ n <= Total(tokens)
      /\ Total(tokens') = Total(tokens) - n /\ tokens' \in [Backers -> Nat]
    <2>1. tokens[b] \in Nat /\ tokens[b] - n \in Nat
        BY <1>1, <1>2
    <2>2. /\ Total(tokens) \in Nat /\ tokens[b] <= Total(tokens)
          /\ tokens' \in [Backers -> Nat]
          /\ Total(tokens') = Total(tokens) - tokens[b] + (tokens[b] - n)
        BY <1>1, <1>2, <2>1, TokensSet
    <2> QED BY <1>1, <2>1, <2>2
<1>8. OfferingTypes' /\ WithinGoal'
    BY <1>1, <1>7 DEF OfferingTypes, WithinGoal
<1>9. OfferingCovered'
    <2>1. shares[OfferingAddr] * MaxSupply >= Total(tokens) * RSAllocated
        BY <1>1 DEF OfferingCovered
    <2>2. /\ RSAllocated \in Nat /\ MaxSupply \in Nat /\ shares[OfferingAddr] \in Nat
          /\ MaxSupply' = MaxSupply
        BY <1>2, Prices DEF MaxSupply
    <2> HIDE DEF MaxSupply
    <2>3. /\ Total(tokens') * RSAllocated = Total(tokens) * RSAllocated - n * RSAllocated
          /\ shares'[OfferingAddr] * MaxSupply = shares[OfferingAddr] * MaxSupply - out * MaxSupply
          /\ Total(tokens) * RSAllocated \in Nat /\ n * RSAllocated \in Nat
          /\ shares[OfferingAddr] * MaxSupply \in Nat /\ out * MaxSupply \in Nat
        BY <1>3, <1>4, <1>7, <2>2
    <2>4. shares'[OfferingAddr] * MaxSupply >= Total(tokens') * RSAllocated
        BY <1>3, <2>1, <2>3
    <2> QED BY <1>1, <2>2, <2>4 DEF OfferingCovered
<1> QED BY <1>5, <1>6, <1>8, <1>9

LEMMA TradeTokensStep ==
    ASSUME MarketInv, NEW from \in Backers, NEW to \in Backers, NEW n \in Nat,
           TradeTokens(from, to, n), UNCHANGED wrapperVars
    PROVE  MarketInv' /\ NoDilution
<1> USE DEF MarketInv, OfferingInv
<1>1. /\ tokens[from] >= n /\ tokens' = Moved(tokens, from, to, n)
      /\ UNCHANGED <<phase, totalRaised, shareVars>> /\ usdc' = usdc /\ shares' = shares
    BY DEF TradeTokens, shareVars, ownershipVars
<1>2. tokens \in [Backers -> Nat] /\ IsFiniteSet(Backers)
    BY MarketFacts DEF OfferingTypes
<1>3. Total(tokens') = Total(tokens) /\ tokens' \in [Backers -> Nat]
    <2>1. /\ Total(Moved(tokens, from, to, n)) = Total(tokens)
          /\ Moved(tokens, from, to, n) \in [Backers -> Nat]
        BY <1>1, <1>2, MovedTotal, MovedType
    <2> QED BY <1>1, <2>1
<1>4. ShareInv'
    BY <1>1, QuietStep
<1>5. usdc[WrapperAddr] \in Nat /\ shares[WrapperAddr] \in Nat
    BY MarketFacts DEF ShareInv, ShareTypeOK
<1>6. WrapperInv' /\ NoDilution
    BY <1>1, <1>4, <1>5, WrapperUntouched DEF wrapperVars, feeVars
<1>7. OfferingTypes' /\ WithinGoal' /\ OfferingCovered'
    BY <1>1, <1>3 DEF OfferingTypes, WithinGoal, OfferingCovered, MaxSupply
<1> QED BY <1>4, <1>6, <1>7

-----------------------------------------------------------------------------
(***************************************************************************)
(* The functions of the wrapper.                                           *)
(***************************************************************************)
LEMMA DepositStep ==
    ASSUME MarketInv, NEW u \in Wrappers, NEW n \in Nat, Deposit(u, n), UNCHANGED offeringVars
    PROVE  MarketInv' /\ NoDilution
<1> USE DEF MarketInv, WrapperInv
<1>1. /\ n > 0 /\ MoveShares(u, WrapperAddr, n) /\ shares[u] >= n
      /\ shares' = Moved(shares, u, WrapperAddr, n)
      /\ wrapped' = [wrapped EXCEPT ![u] = wrapped[u] + n]
      /\ UNCHANGED <<usdc, now, totalSupply, genesisComplete, totalClaimed, accumulatorVars>>
      /\ UNCHANGED feeVars
    BY DEF Deposit, MoveShares, Minted
<1>2. /\ usdc \in [Accounts -> Nat] /\ shares \in [Holders -> Nat]
      /\ wrapped \in [Wrappers -> Nat]
      /\ u \in Holders /\ OfferingAddr \in Holders /\ WrapperAddr \in Holders
      /\ OfferingAddr \in Accounts /\ u \notin {OfferingAddr, WrapperAddr}
    BY MarketFacts DEF ShareInv, ShareTypeOK, WrapperTypes
<1>3. /\ shares'[WrapperAddr] = shares[WrapperAddr] + n
      /\ shares'[OfferingAddr] >= shares[OfferingAddr]
    <2>1. /\ Moved(shares, u, WrapperAddr, n)[WrapperAddr] = shares[WrapperAddr] + n
          /\ \A h \in Holders \ {u} : Moved(shares, u, WrapperAddr, n)[h] >= shares[h]
        BY <1>1, <1>2, MovedType
    <2> QED BY <1>1, <1>2, <2>1
<1>4. ShareInv'
    <2>1. usdc' \in [Accounts -> Nat] /\ Covered'
        BY <1>1 DEF ShareInv, ShareTypeOK, Covered, accumulatorVars
    <2> QED BY <1>1, <1>2, <2>1, SharesMoveStep
<1>5. OfferingInv'
    <2>1. usdc'[OfferingAddr] >= usdc[OfferingAddr]
        BY <1>1, <1>2
    <2> QED BY <1>3, <1>4, <2>1, OfferingUntouched
<1>6. /\ WrapSupply \in Nat /\ WrapSupply' = WrapSupply + n
      /\ wrapped' \in [Wrappers -> Nat]
    <2>1. wrapped[u] \in Nat /\ wrapped[u] + n \in Nat
        BY <1>2
    <2>2. /\ WrapSupply \in Nat /\ wrapped' \in [Wrappers -> Nat]
          /\ WrapSupply' = WrapSupply - wrapped[u] + (wrapped[u] + n)
        BY <1>1, <1>2, <2>1, WrappedSet
    <2> QED BY <2>1, <2>2
<1>7. WrapperTypes'
    BY <1>1, <1>6 DEF WrapperTypes, feeVars
<1>8. WrapperBacked'
    BY <1>2, <1>3, <1>6 DEF WrapperBacked
<1>9. NoDilution
    BY <1>1, <1>6 DEF NoDilution
<1> QED BY <1>4, <1>5, <1>7, <1>8, <1>9

(***************************************************************************)
(* The fee is part of the coins paid out.                                  *)
(***************************************************************************)
LEMMA PayoutTypes ==
    ASSUME MarketInv, NEW ledger \in [Accounts -> Nat], NEW n \in 0 .. WrapSupply, WrapSupply > 0
    PROVE  /\ USDCOut(ledger, n) \in 0 .. ledger[WrapperAddr]
           /\ Fee(ledger, n) \in 0 .. USDCOut(ledger, n)
           /\ RSOut(n) \in 0 .. shares[WrapperAddr]
           /\ (ledger[WrapperAddr] - USDCOut(ledger, n)) * WrapSupply
                 >= ledger[WrapperAddr] * (WrapSupply - n)
           /\ (shares[WrapperAddr] - RSOut(n)) * WrapSupply
                 >= shares[WrapperAddr] * (WrapSupply - n)
<1>1. /\ ledger[WrapperAddr] \in Nat /\ shares[WrapperAddr] \in Nat
      /\ WrapSupply \in Nat
    BY MarketFacts, CoinsFinite
       DEF MarketInv, ShareInv, ShareTypeOK, WrapperInv, WrapperTypes, WrapSupply
<1>2. WrapSupply \in Nat \ {0}
    BY <1>1
<1>3. /\ withdrawFeeBps \in 0 .. BPS_SCALE /\ BPS_SCALE \in Nat \ {0}
    <2>1. /\ withdrawFeeBps \in 0 .. MaxWithdrawFee /\ MaxWithdrawFee \in 0 .. BPS_SCALE
          /\ BPS_SCALE \in Nat \ {0}
        BY Prices DEF MarketInv, WrapperInv, WrapperTypes
    <2> QED BY <2>1
<1> DEFINE out == USDCOut(ledger, n)
<1>4. /\ out \in 0 .. ledger[WrapperAddr]
      /\ (ledger[WrapperAddr] - out) * WrapSupply >= ledger[WrapperAddr] * (WrapSupply - n)
    BY <1>1, <1>2, PayoutKeepsRate DEF USDCOut
<1>5. /\ RSOut(n) \in 0 .. shares[WrapperAddr]
      /\ (shares[WrapperAddr] - RSOut(n)) * WrapSupply >= shares[WrapperAddr] * (WrapSupply - n)
    BY <1>1, <1>2, PayoutKeepsRate DEF RSOut
<1>6. Fee(ledger, n) = (out * withdrawFeeBps) \div BPS_SCALE
    BY DEF Fee
<1> HIDE DEF out
<1>7. Fee(ledger, n) \in 0 .. out
    <2>1. out \in Nat
        BY <1>1, <1>4
    <2>2. (withdrawFeeBps * out) \div BPS_SCALE \in 0 .. out
        BY <1>3, <2>1, PayoutKeepsRate
    <2>3. withdrawFeeBps * out = out * withdrawFeeBps
        BY <1>3, <2>1
    <2> QED BY <1>6, <2>2, <2>3
<1> QED BY <1>4, <1>5, <1>7 DEF out

(***************************************************************************)
(* The coins leave the wrapper, for whoever gets them.                     *)
(***************************************************************************)
LEMMA RedeemedTypes ==
    ASSUME MarketInv, NEW ledger \in [Accounts -> Nat], NEW u \in Wrappers,
           NEW n \in 0 .. WrapSupply, WrapSupply > 0
    PROVE  /\ Redeemed(ledger, u, n) \in [Accounts -> Nat]
           /\ Redeemed(ledger, u, n)[WrapperAddr] >= ledger[WrapperAddr] - USDCOut(ledger, n)
           /\ \A a \in Accounts \ {WrapperAddr} : Redeemed(ledger, u, n)[a] >= ledger[a]
<1> DEFINE out == USDCOut(ledger, n)
           fee == Fee(ledger, n)
           mid == Moved(ledger, WrapperAddr, wrapperTreasury, fee)
<1>1. /\ out \in 0 .. ledger[WrapperAddr] /\ fee \in 0 .. out
    BY PayoutTypes
<1>2. /\ WrapperAddr \in Accounts /\ wrapperTreasury \in Accounts /\ u \in Accounts
      /\ ledger[WrapperAddr] \in Nat
    BY MarketFacts DEF MarketInv, WrapperInv, WrapperTypes
<1>3. Redeemed(ledger, u, n) = Moved(mid, WrapperAddr, u, out - fee)
    BY DEF Redeemed
<1> HIDE DEF out, fee
<1>4. /\ mid \in [Accounts -> Nat] /\ mid[WrapperAddr] >= ledger[WrapperAddr] - fee
      /\ \A a \in Accounts \ {WrapperAddr} : mid[a] >= ledger[a]
    <2>1. fee \in Nat /\ ledger[WrapperAddr] >= fee
        BY <1>1, <1>2
    <2> QED BY <1>2, <2>1, MovedType
<1> HIDE DEF mid
<1>5. /\ out - fee \in Nat /\ mid[WrapperAddr] >= out - fee /\ mid[WrapperAddr] \in Nat
    BY <1>1, <1>2, <1>4
<1>6. /\ Moved(mid, WrapperAddr, u, out - fee) \in [Accounts -> Nat]
      /\ Moved(mid, WrapperAddr, u, out - fee)[WrapperAddr] >= mid[WrapperAddr] - (out - fee)
      /\ \A a \in Accounts \ {WrapperAddr} : Moved(mid, WrapperAddr, u, out - fee)[a] >= mid[a]
    <2> DEFINE rest == out - fee
    <2>1. rest \in Nat /\ mid[WrapperAddr] >= rest
        BY <1>5
    <2> HIDE DEF rest
    <2>2. /\ Moved(mid, WrapperAddr, u, rest) \in [Accounts -> Nat]
          /\ Moved(mid, WrapperAddr, u, rest)[WrapperAddr] >= mid[WrapperAddr] - rest
          /\ \A a \in Accounts \ {WrapperAddr} : Moved(mid, WrapperAddr, u, rest)[a] >= mid[a]
        BY <1>2, <1>4, <2>1, MovedType
    <2> QED BY <2>2 DEF rest
<1> DEFINE end == Moved(mid, WrapperAddr, u, out - fee)
<1> HIDE DEF end
<1>7. end \in [Accounts -> Nat] /\ end[WrapperAddr] >= ledger[WrapperAddr] - out
    <2>1. /\ end \in [Accounts -> Nat] /\ end[WrapperAddr] >= mid[WrapperAddr] - (out - fee)
        BY <1>6 DEF end
    <2>2. end[WrapperAddr] \in Nat
        BY <1>2, <2>1
    <2> QED BY <1>1, <1>2, <1>4, <1>5, <2>1, <2>2
<1>8. ASSUME NEW a \in Accounts \ {WrapperAddr} PROVE end[a] >= ledger[a]
    <2>1. end[a] >= mid[a] /\ mid[a] >= ledger[a]
        BY <1>4, <1>6 DEF end
    <2>2. end[a] \in Nat /\ mid[a] \in Nat /\ ledger[a] \in Nat
        BY <1>4, <1>7
    <2> QED BY <2>1, <2>2
<1>9. Redeemed(ledger, u, n) = end
    BY <1>3 DEF end
<1> QED BY <1>7, <1>8, <1>9 DEF out

(***************************************************************************)
(* Whoever redeems, with coins a harvest has just brought or without,      *)
(* leaves the others at least their proportion.                            *)
(***************************************************************************)
LEMMA BurnLedger ==
    ASSUME MarketInv, NEW ledger \in [Accounts -> Nat], NEW u \in Wrappers, NEW n \in Nat,
           Burn(ledger, u, n)
    PROVE  /\ RSOut(n) \in 0 .. shares[WrapperAddr]
           /\ usdc' \in [Accounts -> Nat]
           /\ \A a \in Accounts \ {WrapperAddr} : usdc'[a] >= ledger[a]
           /\ usdc'[WrapperAddr] >= ledger[WrapperAddr] - USDCOut(ledger, n)
           /\ WrapSupply \in Nat \ {0} /\ WrapSupply' = WrapSupply - n /\ n <= WrapSupply
           /\ wrapped' \in [Wrappers -> Nat]
<1>1. /\ n > 0 /\ wrapped[u] >= n
      /\ wrapped' = [wrapped EXCEPT ![u] = wrapped[u] - n]
      /\ usdc' = Redeemed(ledger, u, n)
    BY DEF Burn
<1>2. wrapped \in [Wrappers -> Nat]
    BY DEF MarketInv, WrapperInv, WrapperTypes
<1>3. /\ WrapSupply \in Nat /\ wrapped[u] <= WrapSupply
      /\ wrapped' \in [Wrappers -> Nat]
      /\ WrapSupply' = WrapSupply - wrapped[u] + (wrapped[u] - n)
      /\ wrapped[u] \in Nat
    <2>1. wrapped[u] \in Nat /\ wrapped[u] - n \in Nat
        BY <1>1, <1>2
    <2> QED BY <1>1, <1>2, <2>1, WrappedSet
<1>4. n \in 0 .. WrapSupply /\ WrapSupply > 0 /\ WrapSupply' = WrapSupply - n
    BY <1>1, <1>3
<1> QED BY <1>1, <1>3, <1>4, PayoutTypes, RedeemedTypes

LEMMA BurnStep ==
    ASSUME MarketInv, ShareInv', NEW ledger \in [Accounts -> Nat],
           NEW u \in Wrappers, NEW n \in Nat,
           Burn(ledger, u, n), ledger[WrapperAddr] >= usdc[WrapperAddr],
           shares'[WrapperAddr] >= shares[WrapperAddr] - RSOut(n), UNCHANGED feeVars
    PROVE  WrapperInv' /\ NoDilution
<1> DEFINE out == USDCOut(ledger, n)
           rs == RSOut(n)
           x == ledger[WrapperAddr]
           s == shares[WrapperAddr]
           x1 == usdc'[WrapperAddr]
           s1 == shares'[WrapperAddr]
           left == WrapSupply - n
<1>1. /\ WrapSupply \in Nat \ {0} /\ WrapSupply' = WrapSupply - n /\ n <= WrapSupply
      /\ wrapped' \in [Wrappers -> Nat] /\ x1 >= x - out
    BY BurnLedger
<1>2. /\ n \in 0 .. WrapSupply /\ WrapSupply > 0 /\ left \in 0 .. WrapSupply
    BY <1>1
<1>3. /\ out \in 0 .. x /\ rs \in 0 .. s
      /\ (x - out) * WrapSupply >= x * left
      /\ (s - rs) * WrapSupply >= s * left
    BY <1>2, PayoutTypes
<1>4. /\ x \in Nat /\ s \in Nat /\ x1 \in Nat /\ s1 \in Nat /\ usdc[WrapperAddr] \in Nat
      /\ s1 >= s - rs /\ usdc[WrapperAddr] <= x
    BY MarketFacts DEF MarketInv, ShareInv, ShareTypeOK
<1> HIDE DEF out, rs, x, s, x1, s1, left
<1>5. /\ x1 * WrapSupply >= x * left /\ s1 * WrapSupply >= s * left
    <2>1. x - out \in Nat /\ s - rs \in Nat
        BY <1>3, <1>4
    <2>2. (x - out) * WrapSupply <= x1 * WrapSupply /\ (s - rs) * WrapSupply <= s1 * WrapSupply
        BY <1>1, <1>4, <2>1, ProductOrder
    <2>3. /\ (x - out) * WrapSupply \in Nat /\ x1 * WrapSupply \in Nat /\ x * left \in Nat
          /\ (s - rs) * WrapSupply \in Nat /\ s1 * WrapSupply \in Nat /\ s * left \in Nat
        BY <1>1, <1>2, <1>4, <2>1
    <2> QED BY <1>3, <2>2, <2>3
<1>6. WrapSupply <= s
    BY DEF MarketInv, WrapperInv, WrapperBacked, s
<1>7. left <= s1
    BY <1>1, <1>2, <1>4, <1>5, <1>6, StaysBacked
<1>8. usdc[WrapperAddr] * left <= x * left
    BY <1>2, <1>4, ProductOrder
<1>9. x1 * WrapSupply >= usdc[WrapperAddr] * left
    <2>1. x1 * WrapSupply \in Nat /\ x * left \in Nat /\ usdc[WrapperAddr] * left \in Nat
        BY <1>1, <1>2, <1>4
    <2> QED BY <1>5, <1>8, <2>1
<1>10. WrapSupply' = left
    BY <1>1 DEF left
<1>11. NoDilution
    BY <1>5, <1>9, <1>10 DEF NoDilution, x1, s1, s
<1>12. WrapperBacked'
    <2>1. s1 >= left
        BY <1>2, <1>4, <1>7
    <2> QED BY <1>10, <2>1 DEF WrapperBacked, s1
<1>13. WrapperTypes'
    BY <1>1 DEF MarketInv, WrapperInv, WrapperTypes, feeVars
<1> QED BY <1>11, <1>12, <1>13 DEF WrapperInv

LEMMA RedeemStep ==
    ASSUME MarketInv, RevenueShareAddr \in Accounts,
           NEW u \in Wrappers, NEW n \in Nat, Redeem(u, n), UNCHANGED offeringVars
    PROVE  MarketInv' /\ NoDilution
<1> DEFINE out == RSOut(n)
<1>1. /\ Burn(usdc, u, n)
      /\ MoveShares(WrapperAddr, u, out) /\ shares[WrapperAddr] >= out
      /\ shares' = Moved(shares, WrapperAddr, u, out)
      /\ UNCHANGED <<now, totalSupply, genesisComplete, totalClaimed, accumulatorVars>>
      /\ UNCHANGED feeVars
    BY DEF Redeem, MoveShares
<1>2. /\ usdc \in [Accounts -> Nat] /\ shares \in [Holders -> Nat] /\ ShareInv
      /\ u \in Holders /\ OfferingAddr \in Holders /\ WrapperAddr \in Holders
      /\ OfferingAddr \in Accounts \ {WrapperAddr} /\ RevenueShareAddr \in Accounts \ {WrapperAddr}
    BY MarketFacts DEF MarketInv, ShareInv, ShareTypeOK
<1>3. /\ out \in 0 .. shares[WrapperAddr]
      /\ usdc' \in [Accounts -> Nat]
      /\ \A a \in Accounts \ {WrapperAddr} : usdc'[a] >= usdc[a]
    BY <1>1, <1>2, BurnLedger
<1>4. out \in Nat
    BY <1>2, <1>3
<1>5. /\ shares'[OfferingAddr] >= shares[OfferingAddr]
      /\ shares'[WrapperAddr] >= shares[WrapperAddr] - out
    <2> HIDE DEF out
    <2>1. /\ Moved(shares, WrapperAddr, u, out)[WrapperAddr] >= shares[WrapperAddr] - out
          /\ \A h \in Holders \ {WrapperAddr} : Moved(shares, WrapperAddr, u, out)[h] >= shares[h]
        BY <1>1, <1>2, <1>4, MovedType
    <2> QED BY <1>1, <1>2, <2>1
<1>6. ShareInv'
    <2>1. /\ totalDistributed' = totalDistributed /\ totalClaimed' = totalClaimed
          /\ totalDistributed \in Nat /\ totalClaimed \in Nat
          /\ usdc[RevenueShareAddr] \in Nat /\ usdc'[RevenueShareAddr] \in Nat
          /\ usdc'[RevenueShareAddr] >= usdc[RevenueShareAddr]
          /\ totalDistributed - totalClaimed <= usdc[RevenueShareAddr]
        BY <1>1, <1>2, <1>3 DEF ShareInv, ShareTypeOK, Covered, accumulatorVars
    <2>2. Covered'
        BY <2>1 DEF Covered
    <2> HIDE DEF out
    <2> QED BY <1>1, <1>2, <1>3, <1>4, <2>2, SharesMoveStep
<1>7. OfferingInv'
    BY <1>2, <1>3, <1>5, <1>6, OfferingUntouched
<1>8. WrapperInv' /\ NoDilution
    <2>1. usdc[WrapperAddr] >= usdc[WrapperAddr]
        BY <1>2, MarketFacts
    <2> QED BY <1>1, <1>2, <1>5, <1>6, <2>1, BurnStep
<1> QED BY <1>6, <1>7, <1>8 DEF MarketInv

LEMMA HarvestStep ==
    ASSUME MarketInv, RevenueShareAddr \in Accounts, Harvest, UNCHANGED offeringVars
    PROVE  MarketInv' /\ NoDilution
<1>1. /\ Claim(WrapperAddr, WrapperAddr)
      /\ UNCHANGED <<wrapped, withdrawFeeBps, wrapperTreasury>>
      /\ shares' = shares
    BY DEF Harvest, Claim, feeVars, ownershipVars
<1>2. /\ WrapperAddr \in Holders /\ WrapperAddr \in Accounts \ {RevenueShareAddr}
      /\ OfferingAddr \in Accounts \ {RevenueShareAddr} /\ OfferingAddr \in Holders
      /\ ShareInv /\ usdc \in [Accounts -> Nat] /\ shares \in [Holders -> Nat]
    BY MarketFacts DEF MarketInv, ShareInv, ShareTypeOK
<1>3. /\ ShareInv'
      /\ \E owed \in Nat \ {0} : /\ usdc' = Moved(usdc, RevenueShareAddr, WrapperAddr, owed)
                                 /\ owed <= usdc[RevenueShareAddr]
    BY <1>1, <1>2, ClaimStep
<1>4. /\ usdc'[OfferingAddr] >= usdc[OfferingAddr]
      /\ usdc'[WrapperAddr] >= usdc[WrapperAddr]
    <2>1. PICK owed \in Nat \ {0} : /\ usdc' = Moved(usdc, RevenueShareAddr, WrapperAddr, owed)
                                    /\ owed <= usdc[RevenueShareAddr]
        BY <1>3
    <2>2. owed \in Nat /\ usdc[RevenueShareAddr] >= owed
        BY <1>2, <2>1
    <2>3. \A a \in Accounts \ {RevenueShareAddr} :
              Moved(usdc, RevenueShareAddr, WrapperAddr, owed)[a] >= usdc[a]
        BY <1>2, <2>2, MovedType
    <2> QED BY <1>2, <2>1, <2>3
<1>5. /\ shares'[OfferingAddr] >= shares[OfferingAddr]
      /\ shares'[WrapperAddr] >= shares[WrapperAddr]
    BY <1>1, <1>2
<1>6. OfferingInv'
    BY <1>3, <1>4, <1>5, OfferingUntouched
<1>7. WrapperInv' /\ NoDilution
    BY <1>1, <1>3, <1>4, <1>5, WrapperUntouched
<1> QED BY <1>3, <1>6, <1>7 DEF MarketInv

(***************************************************************************)
(* harvestAndRedeem underneath: the wrapper is paid out and loses its      *)
(* weight, the redeemer is settled at the new accumulator, rounded down.   *)
(***************************************************************************)
LEMMA HarvestWeights ==
    ASSUME MarketInv, NEW rps \in Nat, revenuePerShare <= rps, revenuePerShare' = rps,
           NEW u \in Holders \ {WrapperAddr}, shares' \in [Holders -> Nat],
           \A g \in Holders \ {WrapperAddr, u} : shares'[g] = shares[g],
           pendingClaims' = [pendingClaims EXCEPT ![WrapperAddr] = 0,
                                                  ![u] = pendingClaims[u] + Accrued(u, rps)],
           checkpoint' = [checkpoint EXCEPT ![WrapperAddr] = rps, ![u] = rps]
    PROVE  /\ checkpoint' \in [Holders -> 0 .. revenuePerShare']
           /\ pendingClaims' \in [Holders -> Nat]
           /\ Weight' \in [Holders -> Nat] /\ Weight'[WrapperAddr] = 0
           /\ \A g \in Holders \ {WrapperAddr} : Weight'[g] <= WeightAt(rps)[g]
<1>1. /\ checkpoint \in [Holders -> 0 .. rps] /\ pendingClaims \in [Holders -> Nat]
      /\ ShareTypeOK /\ WrapperAddr \in Holders /\ SCALE \in Nat
    <2>1. checkpoint \in [Holders -> 0 .. revenuePerShare] /\ revenuePerShare \in Nat
        BY DEF MarketInv, ShareInv, ShareTypeOK
    <2>2. checkpoint \in [Holders -> 0 .. rps]
        BY <2>1
    <2>3. SCALE \in Nat
        BY ShareAssumption
    <2> QED BY <2>2, <2>3, MarketFacts DEF MarketInv, ShareInv, ShareTypeOK
<1>2. /\ Accrued(u, rps) \in Nat /\ ClaimableAt(u, rps) = pendingClaims[u] + Accrued(u, rps)
      /\ ClaimableAt(u, rps) \in Nat /\ SCALE * ClaimableAt(u, rps) <= WeightAt(rps)[u]
      /\ WeightAt(rps)[u] \in Nat
    BY <1>1, ClaimableCovered DEF ClaimableAt
<1>3. checkpoint' \in [Holders -> 0 .. revenuePerShare'] /\ pendingClaims' \in [Holders -> Nat]
    BY <1>1, <1>2
<1>4. Weight' = [g \in Holders |-> SCALE * pendingClaims'[g] + (rps - checkpoint'[g]) * shares'[g]]
    BY DEF Weight, WeightAt
<1>5. Weight'[WrapperAddr] = 0
    <2>1. pendingClaims'[WrapperAddr] = 0 /\ rps - checkpoint'[WrapperAddr] = 0
        BY <1>1
    <2>2. shares'[WrapperAddr] \in Nat
        BY <1>1
    <2> QED BY <1>1, <1>4, <2>1, <2>2
<1>6. Weight'[u] \in Nat /\ Weight'[u] <= WeightAt(rps)[u]
    <2>1. pendingClaims'[u] = ClaimableAt(u, rps) /\ rps - checkpoint'[u] = 0
        BY <1>1, <1>2
    <2>2. shares'[u] \in Nat
        OBVIOUS
    <2>3. Weight'[u] = SCALE * ClaimableAt(u, rps) /\ SCALE * ClaimableAt(u, rps) \in Nat
        BY <1>1, <1>2, <1>4, <2>1, <2>2
    <2> QED BY <1>2, <2>3
<1>7. ASSUME NEW g \in Holders \ {WrapperAddr, u}
      PROVE  Weight'[g] \in Nat /\ Weight'[g] <= WeightAt(rps)[g]
    <2>1. /\ pendingClaims'[g] = pendingClaims[g] /\ checkpoint'[g] = checkpoint[g]
          /\ shares'[g] = shares[g]
        BY <1>1
    <2>2. Weight'[g] = WeightAt(rps)[g]
        BY <1>4, <2>1 DEF WeightAt
    <2>3. WeightAt(rps)[g] \in Nat
        BY <1>1, ClaimableCovered
    <2> QED BY <2>2, <2>3
<1>8. Weight' \in [Holders -> Nat]
    <2>1. \A g \in Holders : Weight'[g] \in Nat
        BY <1>5, <1>6, <1>7
    <2> QED BY <1>4, <2>1
<1> QED BY <1>3, <1>5, <1>6, <1>7, <1>8

LEMMA HarvestAndRedeemStep ==
    ASSUME MarketInv, RevenueShareAddr \in Accounts,
           NEW u \in Wrappers, NEW n \in Nat, HarvestAndRedeem(u, n), UNCHANGED offeringVars
    PROVE  MarketInv' /\ NoDilution
<1> DEFINE rps == RevenuePerShareNow(usdc)
           owed == Dividends
           ledger == Moved(usdc, RevenueShareAddr, WrapperAddr, owed)
           out == RSOut(n)
<1>1. /\ owed > 0 /\ usdc[RevenueShareAddr] >= owed
      /\ InternalDistribute(usdc)
      /\ Burn(ledger, u, n)
      /\ shares' = Moved(shares, WrapperAddr, u, out)
      /\ pendingClaims' = [pendingClaims EXCEPT ![WrapperAddr] = 0,
                                                ![u] = pendingClaims[u] + Accrued(u, rps)]
      /\ checkpoint' = [checkpoint EXCEPT ![WrapperAddr] = rps, ![u] = rps]
      /\ totalClaimed' = totalClaimed + owed
      /\ UNCHANGED <<now, totalSupply, genesisComplete>> /\ UNCHANGED feeVars
    <2>1. /\ pendingClaims \in [Holders -> Nat] /\ WrapperAddr # u
          /\ u \in Holders /\ WrapperAddr \in Holders
        BY MarketFacts DEF MarketInv, ShareInv, ShareTypeOK
    <2>2. pendingClaims' = [pendingClaims EXCEPT ![WrapperAddr] = 0, ![u] = @ + Accrued(u, rps)]
        BY DEF HarvestAndRedeem
    <2>3. pendingClaims' = [pendingClaims EXCEPT ![WrapperAddr] = 0,
                                                 ![u] = pendingClaims[u] + Accrued(u, rps)]
        BY <2>1, <2>2
    <2> QED BY <2>3 DEF HarvestAndRedeem, CanMove
<1>2. /\ usdc \in [Accounts -> Nat] /\ shares \in [Holders -> Nat] /\ ShareInv /\ ShareTypeOK
      /\ Earned /\ IsFiniteSet(Holders)
      /\ u \in Holders \ {WrapperAddr} /\ OfferingAddr \in Holders /\ WrapperAddr \in Holders
      /\ OfferingAddr \in Accounts \ {WrapperAddr, RevenueShareAddr}
      /\ WrapperAddr \in Accounts /\ RevenueShareAddr # WrapperAddr
    BY MarketFacts DEF MarketInv, ShareInv, ShareTypeOK
<1>3. rps \in Nat /\ revenuePerShare <= rps /\ revenuePerShare' = rps
    BY <1>1, <1>2, Distributed, DistributedTypes
<1>4. owed = ClaimableAt(WrapperAddr, revenuePerShare') /\ owed \in Nat
    <2>1. owed = ClaimableAt(WrapperAddr, rps)
        BY <1>1 DEF Dividends
    <2> QED BY <1>2, <1>3, <2>1, ClaimableCovered
<1> HIDE DEF rps, owed
<1>5. /\ ledger \in [Accounts -> Nat]
      /\ ledger[RevenueShareAddr] = usdc[RevenueShareAddr] - owed
      /\ \A a \in Accounts \ {RevenueShareAddr} : ledger[a] >= usdc[a]
    BY <1>1, <1>2, <1>4, MovedType
<1> HIDE DEF ledger
<1>6. /\ out \in 0 .. shares[WrapperAddr]
      /\ usdc' \in [Accounts -> Nat]
      /\ \A a \in Accounts \ {WrapperAddr} : usdc'[a] >= ledger[a]
    BY <1>1, <1>5, BurnLedger
<1>7. out \in Nat /\ shares[WrapperAddr] >= out
    BY <1>2, <1>6
<1>8. /\ shares' \in [Holders -> Nat] /\ Total(shares') = Total(shares)
      /\ shares'[OfferingAddr] >= shares[OfferingAddr]
      /\ shares'[WrapperAddr] >= shares[WrapperAddr] - out
      /\ \A g \in Holders \ {WrapperAddr, u} : shares'[g] = shares[g]
    <2> HIDE DEF out
    <2>1. /\ Moved(shares, WrapperAddr, u, out) \in [Holders -> Nat]
          /\ Moved(shares, WrapperAddr, u, out)[WrapperAddr] >= shares[WrapperAddr] - out
          /\ \A h \in Holders \ {WrapperAddr} : Moved(shares, WrapperAddr, u, out)[h] >= shares[h]
        BY <1>2, <1>7, MovedType
    <2>2. Total(Moved(shares, WrapperAddr, u, out)) = Total(shares)
        BY <1>2, <1>7, MovedTotal
    <2>3. \A g \in Holders \ {WrapperAddr, u} : Moved(shares, WrapperAddr, u, out)[g] = shares[g]
        BY <1>2 DEF Moved
    <2> QED BY <1>1, <1>2, <2>1, <2>2, <2>3
<1>9. /\ checkpoint' \in [Holders -> 0 .. revenuePerShare']
      /\ pendingClaims' \in [Holders -> Nat]
      /\ Weight' \in [Holders -> Nat] /\ Weight'[WrapperAddr] = 0
      /\ \A g \in Holders \ {WrapperAddr} : Weight'[g] <= WeightAt(revenuePerShare')[g]
    BY <1>1, <1>2, <1>3, <1>8, HarvestWeights
<1>10. usdc'[RevenueShareAddr] >= usdc[RevenueShareAddr] - owed
    BY <1>2, <1>5, <1>6
<1>11. ShareInv'
    BY <1>1, <1>2, <1>4, <1>6, <1>8, <1>9, <1>10, PaidOutStep
<1>12. usdc'[OfferingAddr] >= usdc[OfferingAddr] /\ ledger[WrapperAddr] >= usdc[WrapperAddr]
    <2>1. usdc'[OfferingAddr] >= ledger[OfferingAddr] /\ ledger[OfferingAddr] >= usdc[OfferingAddr]
        BY <1>2, <1>5, <1>6
    <2>2. /\ usdc'[OfferingAddr] \in Nat /\ ledger[OfferingAddr] \in Nat
          /\ usdc[OfferingAddr] \in Nat
        BY <1>2, <1>5, <1>6
    <2>3. ledger[WrapperAddr] >= usdc[WrapperAddr]
        BY <1>2, <1>5
    <2> QED BY <2>1, <2>2, <2>3
<1>13. OfferingInv'
    BY <1>8, <1>11, <1>12, OfferingUntouched
<1>14. WrapperInv' /\ NoDilution
    BY <1>1, <1>5, <1>8, <1>11, <1>12, BurnStep
<1> QED BY <1>11, <1>13, <1>14 DEF MarketInv

LEMMA TradeWrappedStep ==
    ASSUME MarketInv, NEW from \in Wrappers, NEW to \in Wrappers, NEW n \in Nat,
           TradeWrapped(from, to, n), UNCHANGED offeringVars
    PROVE  MarketInv' /\ NoDilution
<1>1. /\ wrapped[from] >= n /\ wrapped' = Moved(wrapped, from, to, n)
      /\ UNCHANGED shareVars /\ UNCHANGED feeVars /\ usdc' = usdc /\ shares' = shares
    BY DEF TradeWrapped, shareVars, ownershipVars
<1>2. wrapped \in [Wrappers -> Nat] /\ IsFiniteSet(Wrappers)
    BY MarketFacts DEF MarketInv, WrapperInv, WrapperTypes
<1>3. WrapSupply' = WrapSupply /\ wrapped' \in [Wrappers -> Nat]
    <2>1. /\ Total(Moved(wrapped, from, to, n)) = Total(wrapped)
          /\ Moved(wrapped, from, to, n) \in [Wrappers -> Nat]
        BY <1>1, <1>2, MovedTotal, MovedType
    <2> QED BY <1>1, <2>1 DEF WrapSupply
<1>4. ShareInv'
    BY <1>1, QuietStep DEF MarketInv
<1>5. /\ usdc[OfferingAddr] \in Nat /\ shares[OfferingAddr] \in Nat
      /\ usdc[WrapperAddr] \in Nat /\ shares[WrapperAddr] \in Nat
      /\ WrapSupply \in Nat
    BY <1>2, MarketFacts, CoinsFinite DEF MarketInv, ShareInv, ShareTypeOK, WrapSupply
<1>6. OfferingInv'
    BY <1>1, <1>4, <1>5, OfferingUntouched
<1>7. WrapperInv'
    BY <1>1, <1>3 DEF MarketInv, WrapperInv, WrapperTypes, WrapperBacked, feeVars
<1>8. NoDilution
    <2>1. /\ usdc[WrapperAddr] * WrapSupply \in Nat /\ shares[WrapperAddr] * WrapSupply \in Nat
        BY <1>5
    <2> QED BY <1>1, <1>3, <2>1 DEF NoDilution
<1> QED BY <1>4, <1>6, <1>7, <1>8 DEF MarketInv

LEMMA SettingsStep ==
    ASSUME MarketInv, UNCHANGED offeringVars,
           \/ \E t \in WrapperTreasuries : SetTreasury(t)
           \/ \E bps \in WithdrawFees : SetWithdrawFee(bps)
    PROVE  MarketInv' /\ NoDilution
<1>1. /\ UNCHANGED shareVars /\ wrapped' = wrapped /\ usdc' = usdc /\ shares' = shares
      /\ withdrawFeeBps' \in 0 .. MaxWithdrawFee /\ wrapperTreasury' \in Accounts
    <2>1. WithdrawFees \subseteq Nat /\ WrapperTreasuries \subseteq Accounts
        BY WrapperAssumption
    <2>2. MaxWithdrawFee \in Nat
        BY Prices
    <2>3. withdrawFeeBps \in 0 .. MaxWithdrawFee /\ wrapperTreasury \in Accounts
        BY DEF MarketInv, WrapperInv, WrapperTypes
    <2> QED BY <2>1, <2>2, <2>3 DEF SetTreasury, SetWithdrawFee, shareVars, ownershipVars
<1>2. ShareInv'
    BY <1>1, QuietStep DEF MarketInv
<1>3. /\ usdc[OfferingAddr] \in Nat /\ shares[OfferingAddr] \in Nat
      /\ usdc[WrapperAddr] \in Nat /\ shares[WrapperAddr] \in Nat
      /\ WrapSupply \in Nat /\ WrapSupply' = WrapSupply
    BY <1>1, MarketFacts, CoinsFinite
       DEF MarketInv, WrapperInv, WrapperTypes, ShareInv, ShareTypeOK, WrapSupply
<1>4. OfferingInv'
    BY <1>1, <1>2, <1>3, OfferingUntouched
<1>5. WrapperInv'
    BY <1>1, <1>3 DEF MarketInv, WrapperInv, WrapperTypes, WrapperBacked
<1>6. NoDilution
    <2>1. /\ usdc[WrapperAddr] * WrapSupply \in Nat /\ shares[WrapperAddr] * WrapSupply \in Nat
        BY <1>3
    <2> QED BY <1>1, <1>3, <2>1 DEF NoDilution
<1> QED BY <1>2, <1>4, <1>5, <1>6 DEF MarketInv

-----------------------------------------------------------------------------
LEMMA RevenueShareStep ==
    ASSUME MarketInv, RevenueShareAddr \in Accounts, ShareNext \/ UNCHANGED shareVars,
           UNCHANGED offeringVars, UNCHANGED wrapperVars
    PROVE  MarketInv' /\ NoDilution
<1>1. ShareInv /\ ShareInv'
    <2>1. ShareInv /\ [ShareNext]_shareVars
        BY DEF MarketInv
    <2> QED BY <2>1, ShareInvStep
<1>2. /\ OfferingAddr \in Holders \ Claimants /\ WrapperAddr \in Holders \ Claimants
      /\ OfferingAddr \in Accounts \ (Payers \cup {RevenueShareAddr})
      /\ WrapperAddr \in Accounts \ (Payers \cup {RevenueShareAddr})
    BY MarketFacts
<1>3. /\ usdc[OfferingAddr] \in Nat /\ shares[OfferingAddr] \in Nat
      /\ usdc[WrapperAddr] \in Nat /\ shares[WrapperAddr] \in Nat
    BY <1>1, <1>2 DEF ShareInv, ShareTypeOK
<1>4. /\ usdc'[OfferingAddr] >= usdc[OfferingAddr] /\ usdc'[WrapperAddr] >= usdc[WrapperAddr]
      /\ shares'[OfferingAddr] >= shares[OfferingAddr] /\ shares'[WrapperAddr] >= shares[WrapperAddr]
    <2>1. CASE ShareNext
        BY <1>1, <1>2, <2>1, SharesElsewhere, CoinsElsewhere
    <2>2. CASE UNCHANGED shareVars
        BY <1>3, <2>2 DEF shareVars, ownershipVars
    <2> QED BY <2>1, <2>2
<1>5. OfferingInv'
    BY <1>1, <1>4, OfferingUntouched
<1>6. WrapperInv' /\ NoDilution
    BY <1>1, <1>4, WrapperUntouched DEF wrapperVars, feeVars
<1> QED BY <1>1, <1>5, <1>6 DEF MarketInv

LEMMA MarketInvInit ==
    ASSUME MarketInit, RevenueShareAddr \in Accounts
    PROVE  MarketInv
<1>1. ShareInv
    BY ShareInvInit DEF MarketInit
<1>2. /\ phase = "Fundraising" /\ totalRaised = 0 /\ tokens = [b \in Backers |-> 0]
      /\ wrapped = [w \in Wrappers |-> 0] /\ withdrawFeeBps = 0
      /\ wrapperTreasury \in Accounts
    BY WrapperAssumption DEF MarketInit, OfferingInit, WrapperInit
<1>3. Total([b \in Backers |-> 0]) = 0 /\ Total([w \in Wrappers |-> 0]) = 0
    BY TotalZero
<1>4. Total(tokens) = 0 /\ WrapSupply = 0
    BY <1>2, <1>3 DEF WrapSupply
<1>5. usdc[OfferingAddr] \in Nat /\ shares[WrapperAddr] \in Nat
    BY <1>1, MarketFacts DEF ShareInv, ShareTypeOK
<1>6. OfferingInv
    <2>1. 0 * TokenPrice = 0 /\ MaxSupply \in Nat
        BY Prices
    <2>2. WithinGoal /\ OfferingCovered
        BY <1>2, <1>4, <1>5, <2>1 DEF WithinGoal, OfferingCovered
    <2>3. OfferingTypes
        BY <1>2 DEF OfferingTypes
    <2> QED BY <2>2, <2>3 DEF OfferingInv
<1>7. WrapperInv
    <2>1. MaxWithdrawFee \in Nat
        BY Prices
    <2> QED BY <1>2, <1>4, <1>5, <2>1 DEF WrapperInv, WrapperTypes, WrapperBacked
<1> QED BY <1>1, <1>6, <1>7 DEF MarketInv

LEMMA MarketInvStep ==
    ASSUME MarketInv, RevenueShareAddr \in Accounts, [MarketNext]_marketVars
    PROVE  MarketInv' /\ NoDilution
<1>1. CASE ShareNext /\ UNCHANGED <<offeringVars, wrapperVars>>
    BY <1>1, RevenueShareStep
<1>2. CASE UNCHANGED marketVars
    BY <1>2, RevenueShareStep DEF marketVars
<1>3. CASE OfferingNext /\ UNCHANGED wrapperVars
    <2>1. Contributions \subseteq Nat /\ TokenAmounts \subseteq Nat
        BY OfferingAssumption
    <2>2. ASSUME NEW b \in Backers, NEW amount \in Contributions, Contribute(b, amount)
          PROVE  MarketInv' /\ NoDilution
        <3>1. amount \in Nat
            BY <2>1
        <3> QED BY <1>3, <2>2, <3>1, ContributeStep
    <2>3. ASSUME NEW b \in Backers, Refund(b)
          PROVE  MarketInv' /\ NoDilution
        BY <1>3, <2>3, RefundStep
    <2>4. ASSUME NEW b \in Backers, NEW n \in TokenAmounts, ClaimRS(b, n)
          PROVE  MarketInv' /\ NoDilution
        <3>1. n \in Nat
            BY <2>1
        <3> QED BY <1>3, <2>4, <3>1, ClaimRSStep
    <2>5. ASSUME NEW from \in Backers, NEW to \in Backers, NEW n \in TokenAmounts,
                 TradeTokens(from, to, n)
          PROVE  MarketInv' /\ NoDilution
        <3>1. n \in Nat
            BY <2>1
        <3> QED BY <1>3, <2>5, <3>1, TradeTokensStep
    <2>6. CASE Finalize
        BY <1>3, <2>6, FinalizeStep
    <2>7. CASE Cancel
        BY <1>3, <2>7, CancelStep
    <2> QED BY <1>3, <2>2, <2>3, <2>4, <2>5, <2>6, <2>7 DEF OfferingNext, BackerStep
<1>4. CASE WrapperNext /\ UNCHANGED offeringVars
    <2>1. WrapAmounts \subseteq Nat
        BY WrapperAssumption
    <2>2. ASSUME NEW u \in Wrappers, NEW n \in WrapAmounts,
                 Deposit(u, n) \/ Redeem(u, n) \/ HarvestAndRedeem(u, n)
          PROVE  MarketInv' /\ NoDilution
        <3>1. n \in Nat
            BY <2>1
        <3> QED BY <1>4, <2>2, <3>1, DepositStep, RedeemStep, HarvestAndRedeemStep
    <2>3. ASSUME NEW from \in Wrappers, NEW to \in Wrappers, NEW n \in WrapAmounts,
                 TradeWrapped(from, to, n)
          PROVE  MarketInv' /\ NoDilution
        <3>1. n \in Nat
            BY <2>1
        <3> QED BY <1>4, <2>3, <3>1, TradeWrappedStep
    <2>4. CASE Harvest
        BY <1>4, <2>4, HarvestStep
    <2>5. CASE \/ \E t \in WrapperTreasuries : SetTreasury(t)
               \/ \E bps \in WithdrawFees : SetWithdrawFee(bps)
        BY <1>4, <2>5, SettingsStep
    <2> QED BY <1>4, <2>2, <2>3, <2>4, <2>5 DEF WrapperNext
<1> QED BY <1>1, <1>2, <1>3, <1>4 DEF MarketNext

LEMMA MarketInvHolds == RevenueShareAddr \in Accounts => (MarketSpec => []MarketInv)
<1> SUFFICES ASSUME RevenueShareAddr \in Accounts PROVE MarketSpec => []MarketInv
    OBVIOUS
<1>1. MarketInit => MarketInv
    BY MarketInvInit
<1>2. MarketInv /\ [MarketNext]_marketVars => MarketInv'
    BY MarketInvStep
<1> QED BY <1>1, <1>2, PTL DEF MarketSpec

-----------------------------------------------------------------------------
(***************************************************************************)
(* InitialAPIOffering.sol:179-218: for any goal, price and allocation, the *)
(* coins of an offering that may still be cancelled cover a refund of      *)
(* every token sold, and the RS of an active one the exchange of every     *)
(* token left, whoever redeemed how many before.                           *)
(***************************************************************************)
THEOREM OfferingIsCovered == RevenueShareAddr \in Accounts => (MarketSpec => []OfferingCovered)
<1>1. MarketInv => OfferingCovered
    BY DEF MarketInv, OfferingInv
<1> QED BY <1>1, MarketInvHolds, PTL

(***************************************************************************)
(* WrappedRevenueShare.sol:98-209: a vault that mints one for one and pays *)
(* out rounded quotients always holds a share of RS for each wRS.          *)
(***************************************************************************)
THEOREM WrapperIsBacked == RevenueShareAddr \in Accounts => (MarketSpec => []WrapperBacked)
<1>1. MarketInv => WrapperBacked
    BY DEF MarketInv, WrapperInv
<1> QED BY <1>1, MarketInvHolds, PTL

(***************************************************************************)
(* Whoever redeems, with or without a harvest, at any fee up to the        *)
(* maximum, takes neither coins nor RS from the wRS that remain: of all    *)
(* that can happen to the vault only a deposit lowers what backs a wRS.    *)
(***************************************************************************)
THEOREM RedeemersTakeTheirOwn ==
    RevenueShareAddr \in Accounts => (MarketSpec => OnlyDepositsDilute)
<1> SUFFICES ASSUME RevenueShareAddr \in Accounts PROVE MarketSpec => OnlyDepositsDilute
    OBVIOUS
<1>1. MarketInv /\ [MarketNext]_marketVars => NoDilution
    BY MarketInvStep
<1>2. MarketInv /\ [MarketNext]_marketVars =>
          [ WrapSupply' \in 1 .. WrapSupply =>
                /\ usdc'[WrapperAddr] * WrapSupply >= usdc[WrapperAddr] * WrapSupply'
                /\ shares'[WrapperAddr] * WrapSupply >= shares[WrapperAddr] * WrapSupply'
          ]_<<shareVars, wrapperVars>>
    BY <1>1 DEF NoDilution
<1> QED BY <1>2, MarketInvHolds, PTL DEF MarketSpec, OnlyDepositsDilute

(***************************************************************************)
(* The offering and the wrapper are holders like any other: with both of   *)
(* them in the market the revenue share still covers every claim.          *)
(***************************************************************************)
THEOREM MarketKeepsSharesSolvent == RevenueShareAddr \in Accounts => (MarketSpec => []Solvent)
<1>1. MarketInv => Solvent
    BY InvImpliesSolvent DEF MarketInv
<1> QED BY <1>1, MarketInvHolds, PTL
=============================================================================
