------------------------- MODULE ShareFinance_proofs ------------------------
(***************************************************************************)
(* What the two contracts credit, for any notes, loans, amounts and        *)
(* scales.                                                                 *)
(*                                                                         *)
(* What a note or a position has earned is a rounded quotient, and each    *)
(* contract pays it out of what it collected.  Before the division: a      *)
(* harvest raises the accumulator by no more than what it collects allows  *)
(* for all shares held, so that the weights of all notes and positions     *)
(* stay within PRECISION times the coins (Backed).                         *)
(***************************************************************************)
EXTENDS ShareFinance, ProviderRevenueShare_proofs, SequenceTheorems

NoteType ==
    [provider : Sellers, buyer : Buyers \cup {NoAddress}, faceValue : Nat, purchasePrice : Nat,
     collateralShares : Nat, accAtDeposit : Nat, expiry : Nat,
     status : {"Open", "Active", "Settled", "Defaulted", "Expired"}]

OtherType ==
    [provider : Sellers, buyer : Buyers \cup {NoAddress}, faceValue : Nat, purchasePrice : Nat,
     expiry : Nat, status : {"Open", "Active", "Settled", "Defaulted", "Expired"}]

PositionType == [rsShares : Nat, debt : Nat, rewardDebt : Nat]

(***************************************************************************)
(* What is earned, before it is divided by PRECISION and rounded.          *)
(***************************************************************************)
Scaled(coins) == PRECISION * coins

NoteCredit(note, acc) == (acc - note.accAtDeposit) * note.collateralShares

LoanCredit(position, acc) == acc * position.rsShares - Scaled(position.rewardDebt)

NotesOK ==
    /\ notes \in Seq(NoteType) /\ Len(notes) <= MaxNotes
    /\ \A id \in DOMAIN notes :
           /\ notes[id].accAtDeposit <= accUsdcPerRawShare
           /\ notes[id].status = "Active" => notes[id].buyer \in Buyers

OthersOK ==
    /\ others \in Seq(OtherType)
    /\ \A id \in DOMAIN others : others[id].status = "Active" => others[id].buyer \in Buyers
    /\ othersBrought \in Nat /\ othersPaid \in Nat

PositionsOK ==
    /\ positions \in [Borrowers -> PositionType]
    /\ \A u \in Borrowers : LoanCredit(positions[u], accUsdcPerRawShare) >= 0

\* One of the two products is in use.
ProductOK ==
    /\ rescued \in Nat /\ bookings \in Nat
    /\ \/ /\ product = "notes" /\ rescued = 0 /\ bookings = 0
          /\ positions = [u \in Borrowers |-> NoPosition]
       \/ /\ product = "loans" /\ notes = << >> /\ others = << >>
          /\ othersBrought = 0 /\ othersPaid = 0

(***************************************************************************)
(* Shares and weights of the notes, over all the notes there may be, and   *)
(* of the positions.                                                       *)
(***************************************************************************)
Slots == 1 .. MaxNotes

NoteShares == [i \in Slots |-> IF i \in DOMAIN notes THEN notes[i].collateralShares ELSE 0]

NoteWeight(acc) ==
    [i \in Slots |-> IF i \in DOMAIN notes THEN NoteCredit(notes[i], acc) ELSE 0]

LoanShares == [u \in Borrowers |-> positions[u].rsShares]

LoanWeight(acc) == [u \in Borrowers |-> LoanCredit(positions[u], acc)]

HeldInv ==
    /\ rsHeld \in Nat /\ accUsdcPerRawShare \in Nat
    /\ Total(NoteShares) + Total(LoanShares) = rsHeld
    /\ rsHeld <= shares[EscrowAddr]

\* Coins that were paid to others: to the admin, and for notes on other contracts.
Elsewhere == rescued + othersPaid

\* With so many coins the contract could pay all of it and keep what claims on other
\* contracts brought in, but for those coins and what deposits and removals rounded up.
Covers(acc, coins) ==
    Total(NoteWeight(acc)) + (Total(LoanWeight(acc)) + Scaled(othersBrought))
        <= Scaled(coins + Elsewhere + bookings)

Backed == Covers(accUsdcPerRawShare, usdc[EscrowAddr])

-----------------------------------------------------------------------------
LEMMA FinanceFacts ==
    /\ EscrowAddr \in Holders \ (Claimants \cup Payers \cup {RevenueShareAddr})
    /\ Holders \subseteq Accounts /\ IsFiniteSet(Holders)
    /\ Sellers \subseteq Holders \ {EscrowAddr, RevenueShareAddr}
    /\ Borrowers \subseteq Holders \ {EscrowAddr, RevenueShareAddr} /\ IsFiniteSet(Borrowers)
    /\ Buyers \subseteq Accounts \ {EscrowAddr, RevenueShareAddr}
    /\ FeeRecipients \subseteq Accounts
    /\ Collaterals \subseteq Nat /\ Deposits \subseteq Nat /\ StableAmounts \subseteq Nat
    /\ Payments \subseteq Nat
    /\ PRECISION \in Nat \ {0} /\ BP_SCALE \in Nat \ {0} /\ LTV_BP \in Nat \ {0}
    /\ FaceValues \subseteq Nat /\ PurchasePrices \subseteq Nat
    /\ MIN_TERM \in Nat /\ MAX_TERM \in Nat
    /\ MINT_FEE_BP \in 0 .. BP_SCALE /\ LIQ_BONUS_BP \in Nat
    /\ MaxNotes \in Nat /\ IsFiniteSet(Slots)
<1>1. EscrowAddr \in Holders \ (Claimants \cup Payers \cup {RevenueShareAddr})
    BY HarvestAssumption
<1>2. Holders \subseteq Accounts /\ IsFiniteSet(Holders) /\ Payments \subseteq Nat
    BY ShareAssumption
<1>3. Borrowers \subseteq Holders \ {EscrowAddr, RevenueShareAddr} /\ IsFiniteSet(Borrowers)
    BY <1>2, CdpAssumption, FS_Subset
<1>4. /\ Deposits \subseteq Nat /\ StableAmounts \subseteq Nat /\ FeeRecipients \subseteq Accounts
      /\ LTV_BP \in Nat \ {0} /\ MINT_FEE_BP \in 0 .. BP_SCALE /\ LIQ_BONUS_BP \in Nat
    BY CdpAssumption
<1>5. /\ Collaterals \subseteq Nat /\ MaxNotes \in Nat
      /\ FaceValues \subseteq Nat /\ PurchasePrices \subseteq Nat
      /\ MIN_TERM \in Nat /\ MAX_TERM \in Nat
      /\ Sellers \subseteq Holders \ {EscrowAddr, RevenueShareAddr}
      /\ Buyers \subseteq Accounts \ {EscrowAddr, RevenueShareAddr}
    BY FutureAssumption
<1>6. PRECISION \in Nat \ {0} /\ BP_SCALE \in Nat \ {0}
    BY HarvestAssumption
<1>7. IsFiniteSet(Slots)
    BY <1>5, FS_Interval DEF Slots
<1> QED BY <1>1, <1>2, <1>3, <1>4, <1>5, <1>6, <1>7

-----------------------------------------------------------------------------
(***************************************************************************)
(* The revenue share under a harvest.  Settling holders, and paying the    *)
(* contract what it was owed, leaves nobody a greater weight.              *)
(***************************************************************************)
LEMMA SettledWeights ==
    ASSUME ShareTypeOK, NEW rps \in Nat, revenuePerShare <= rps, revenuePerShare' = rps,
           NEW paid \in SUBSET Holders, NEW sides \in SUBSET Holders,
           shares' \in [Holders -> Nat],
           \A h \in Holders \ sides : shares'[h] = shares[h],
           pendingClaims' = [h \in Holders |->
               IF h \in paid THEN 0
               ELSE IF h \in sides THEN ClaimableAt(h, rps)
               ELSE pendingClaims[h]],
           checkpoint' = [h \in Holders |->
               IF h \in paid \cup sides THEN rps ELSE checkpoint[h]]
    PROVE  /\ checkpoint' \in [Holders -> 0 .. revenuePerShare']
           /\ pendingClaims' \in [Holders -> Nat]
           /\ Weight' \in [Holders -> Nat]
           /\ \A h \in paid : Weight'[h] = 0
           /\ \A h \in Holders : Weight'[h] <= WeightAt(rps)[h]
<1>1. /\ checkpoint \in [Holders -> 0 .. rps] /\ pendingClaims \in [Holders -> Nat]
      /\ SCALE \in Nat
    <2>1. checkpoint \in [Holders -> 0 .. revenuePerShare] /\ revenuePerShare \in Nat
        BY DEF ShareTypeOK
    <2>2. checkpoint \in [Holders -> 0 .. rps]
        BY <2>1
    <2> QED BY <2>2, ShareAssumption DEF ShareTypeOK
<1>2. \A h \in Holders : /\ ClaimableAt(h, rps) \in Nat /\ WeightAt(rps)[h] \in Nat
                         /\ SCALE * ClaimableAt(h, rps) <= WeightAt(rps)[h]
    BY ClaimableCovered
<1>3. /\ checkpoint' \in [Holders -> 0 .. revenuePerShare']
      /\ pendingClaims' \in [Holders -> Nat]
    BY <1>1, <1>2
<1>4. Weight' = [h \in Holders |-> SCALE * pendingClaims'[h] + (rps - checkpoint'[h]) * shares'[h]]
    BY DEF Weight, WeightAt
<1>5. ASSUME NEW h \in paid
      PROVE  Weight'[h] = 0
    <2>1. pendingClaims'[h] = 0 /\ rps - checkpoint'[h] = 0 /\ shares'[h] \in Nat
        BY <1>5
    <2> QED BY <1>1, <1>4, <1>5, <2>1
<1>6. ASSUME NEW h \in sides \ paid
      PROVE  Weight'[h] \in Nat /\ Weight'[h] <= WeightAt(rps)[h]
    <2>1. /\ pendingClaims'[h] = ClaimableAt(h, rps) /\ rps - checkpoint'[h] = 0
          /\ shares'[h] \in Nat
        BY <1>6
    <2>2. Weight'[h] = SCALE * ClaimableAt(h, rps) /\ SCALE * ClaimableAt(h, rps) \in Nat
        BY <1>1, <1>2, <1>4, <1>6, <2>1
    <2> QED BY <1>2, <1>6, <2>2
<1>7. ASSUME NEW h \in Holders \ (paid \cup sides)
      PROVE  Weight'[h] = WeightAt(rps)[h]
    <2>1. /\ pendingClaims'[h] = pendingClaims[h] /\ checkpoint'[h] = checkpoint[h]
          /\ shares'[h] = shares[h]
        BY <1>7
    <2> QED BY <1>4, <2>1 DEF WeightAt
<1>8. \A h \in Holders : Weight'[h] \in Nat /\ Weight'[h] <= WeightAt(rps)[h]
    BY <1>2, <1>5, <1>6, <1>7
<1> QED BY <1>3, <1>4, <1>5, <1>8

\* Shares settled and moved without a payment, while coins may come in.
LEMMA SettledStep ==
    ASSUME ShareInv, RevenueShareAddr \in Accounts,
           usdc' \in [Accounts -> Nat], usdc'[RevenueShareAddr] >= usdc[RevenueShareAddr],
           shares' \in [Holders -> Nat], Total(shares') = Total(shares),
           checkpoint' \in [Holders -> 0 .. revenuePerShare'],
           pendingClaims' \in [Holders -> Nat],
           Weight' \in [Holders -> Nat],
           \A g \in Holders : Weight'[g] <= Weight[g],
           UNCHANGED <<now, totalSupply, genesisComplete, totalClaimed, accumulatorVars>>
    PROVE  ShareInv'
<1> USE DEF ShareInv
<1>1. UNCHANGED <<now, totalSupply, genesisComplete, totalClaimed, revenuePerShare,
                  totalDistributed, recentSnapshots, snapshotIndex, totalSnapshotCount,
                  lastSnapshotTime>>
    BY DEF accumulatorVars, snapshotVars
<1>2. /\ IsFiniteSet(Holders) /\ SCALE \in Nat /\ revenuePerShare \in Nat
      /\ totalDistributed \in Nat /\ totalClaimed \in Nat
    BY ShareAssumption DEF ShareTypeOK
<1>3. ShareTypeOK'
    BY <1>1 DEF ShareTypeOK
<1>4. Earned'
    <2>1. Weight \in [Holders -> Nat]
        BY <1>2, WeightType DEF Weight
    <2>2. Total(Weight) \in Nat /\ Total(Weight') \in Nat
        BY <1>2, <2>1, CoinsFinite
    <2>3. Total(Weight') <= Total(Weight)
        BY <1>2, <2>1, TotalMonotone
    <2>4. /\ SCALE * (totalDistributed - totalClaimed) \in Int
          /\ SCALE * (totalDistributed' - totalClaimed') = SCALE * (totalDistributed - totalClaimed)
        BY <1>1, <1>2
    <2> QED BY <2>2, <2>3, <2>4 DEF Earned
<1>5. Covered'
    <2>1. /\ usdc[RevenueShareAddr] \in Nat /\ usdc'[RevenueShareAddr] \in Nat
          /\ totalDistributed - totalClaimed \in Int
        BY DEF ShareTypeOK
    <2>2. totalDistributed' - totalClaimed' = totalDistributed - totalClaimed
        BY <1>1
    <2> QED BY <2>1, <2>2 DEF Covered
<1>6. NoSupplyYet'
    BY <1>1 DEF NoSupplyYet
<1> QED BY <1>3, <1>4, <1>5, <1>6

(***************************************************************************)
(* A harvest in a transaction that moves shares between `sides', and pays  *)
(* out no coins of the revenue share but those collected.                  *)
(***************************************************************************)
LEMMA HarvestKeepsShares ==
    ASSUME ShareInv, RevenueShareAddr \in Accounts,
           NEW moved \in [Holders -> Nat], Total(moved) = Total(shares),
           NEW sides \in SUBSET Holders,
           \A h \in Holders \ sides : moved[h] = shares[h],
           HarvestThenMove(moved, sides),
           usdc' \in [Accounts -> Nat],
           usdc'[RevenueShareAddr] >= usdc[RevenueShareAddr] - Collected
    PROVE  ShareInv'
<1>1. /\ ShareTypeOK /\ Earned /\ usdc \in [Accounts -> Nat] /\ shares \in [Holders -> Nat]
      /\ EscrowAddr \in Holders /\ revenuePerShare \in Nat
    BY FinanceFacts DEF ShareInv, ShareTypeOK
<1>2. /\ shares' = moved /\ totalClaimed' = totalClaimed + Collected
      /\ UNCHANGED <<now, totalSupply, genesisComplete>>
    BY DEF HarvestThenMove
<1>3. CASE Harvests
    <2> DEFINE rps == RevenuePerShareNow(usdc)
    <2>1. /\ InternalDistribute(usdc) /\ Collected = ClaimableAt(EscrowAddr, rps)
          /\ pendingClaims' = [h \in Holders |->
               IF h \in {EscrowAddr} THEN 0
               ELSE IF h \in sides THEN ClaimableAt(h, rps)
               ELSE pendingClaims[h]]
          /\ checkpoint' = [h \in Holders |->
               IF h \in {EscrowAddr} \cup sides THEN rps ELSE checkpoint[h]]
        BY <1>3 DEF HarvestThenMove, Collected, RevenuePerShareAfter
    <2>2. rps \in Nat /\ revenuePerShare <= rps /\ revenuePerShare' = rps
        BY <1>1, <2>1, Distributed, DistributedTypes
    <2> HIDE DEF rps
    <2>3. Collected \in Nat
        BY <1>1, <2>1, <2>2, ClaimableCovered
    <2>4. /\ checkpoint' \in [Holders -> 0 .. revenuePerShare']
          /\ pendingClaims' \in [Holders -> Nat]
          /\ Weight' \in [Holders -> Nat] /\ Weight'[EscrowAddr] = 0
          /\ \A g \in Holders : Weight'[g] <= WeightAt(revenuePerShare')[g]
        <3>1. {EscrowAddr} \in SUBSET Holders
            BY <1>1
        <3> QED BY <1>1, <1>2, <2>1, <2>2, <3>1, SettledWeights
    <2> QED BY <1>1, <1>2, <2>1, <2>2, <2>3, <2>4, PaidOutStep
<1>4. CASE ~Harvests
    <2>1. /\ UNCHANGED accumulatorVars /\ Collected = 0
          /\ pendingClaims' = [h \in Holders |->
               IF h \in {} THEN 0
               ELSE IF h \in sides THEN ClaimableAt(h, revenuePerShare)
               ELSE pendingClaims[h]]
          /\ checkpoint' = [h \in Holders |->
               IF h \in {} \cup sides THEN revenuePerShare ELSE checkpoint[h]]
        BY <1>4 DEF HarvestThenMove, Collected, RevenuePerShareAfter
    <2>2. revenuePerShare' = revenuePerShare
        BY <2>1 DEF accumulatorVars
    <2>3. /\ checkpoint' \in [Holders -> 0 .. revenuePerShare']
          /\ pendingClaims' \in [Holders -> Nat]
          /\ Weight' \in [Holders -> Nat]
          /\ \A g \in Holders : Weight'[g] <= Weight[g]
        <3>1. revenuePerShare <= revenuePerShare /\ {} \in SUBSET Holders
            BY <1>1
        <3> QED BY <1>1, <1>2, <2>1, <2>2, <3>1, SettledWeights DEF Weight
    <2>4. totalClaimed' = totalClaimed /\ usdc'[RevenueShareAddr] >= usdc[RevenueShareAddr]
        BY <1>1, <1>2, <2>1 DEF ShareTypeOK
    <2> QED BY <1>2, <2>1, <2>3, <2>4, SettledStep
<1> QED BY <1>3, <1>4

-----------------------------------------------------------------------------
(***************************************************************************)
(* Floors.  What a number of shares earns at an accumulator, and what a    *)
(* position has earned, grows with the accumulator.                        *)
(***************************************************************************)
LEMMA FloorGreatest ==
    ASSUME NEW x \in Nat, NEW d \in Nat \ {0}, NEW q \in Nat, d * q <= x
    PROVE  q <= x \div d
<1> DEFINE r == x \div d
<1>1. r \in Nat /\ r * d <= x /\ x < r * d + d
    BY FloorNear
<1> HIDE DEF r
<1>2. ASSUME q >= r + 1
      PROVE  FALSE
    <2>1. /\ (r + 1) * d \in Nat /\ q * d \in Nat /\ (r + 1) * d <= q * d
        <3>1. r + 1 \in Nat /\ r + 1 <= q
            BY <1>1, <1>2
        <3> QED BY <3>1, ProductOrder
    <2>2. (r + 1) * d = r * d + d /\ r * d \in Nat /\ d * q = q * d
        BY <1>1
    <2> QED BY <1>1, <2>1, <2>2
<1> QED BY <1>1, <1>2 DEF r

LEMMA FloorFewer ==
    ASSUME NEW x \in Nat, NEW y \in Nat, x <= y, NEW d \in Nat \ {0}, NEW e \in Nat \ {0}, e <= d
    PROVE  x \div d <= y \div e
<1> DEFINE q == x \div d
<1>1. q \in Nat /\ d * q <= x
    BY FloorDivision
<1> HIDE DEF q
<1>2. e * q \in Nat /\ d * q \in Nat /\ e * q <= d * q
    BY <1>1, ProductOrder
<1>3. e * q <= y
    BY <1>1, <1>2
<1>4. q <= y \div e
    BY <1>1, <1>3, FloorGreatest
<1> QED BY <1>4 DEF q

LEMMA GrossBounds ==
    ASSUME NEW acc \in Nat, NEW n \in Nat
    PROVE  /\ Gross(acc, n) \in Nat /\ acc * n \in Nat /\ PRECISION * Gross(acc, n) \in Nat
           /\ PRECISION * Gross(acc, n) <= acc * n
           /\ acc * n < PRECISION * Gross(acc, n) + PRECISION
           /\ n = 0 => Gross(acc, n) = 0
<1> DEFINE g == (acc * n) \div PRECISION
<1>1. PRECISION \in Nat \ {0} /\ acc * n \in Nat
    BY FinanceFacts
<1>2. g \in Nat /\ g * PRECISION <= acc * n /\ acc * n < g * PRECISION + PRECISION
    BY <1>1, FloorNear
<1>3. n = 0 => g = 0
    <2>1. ASSUME n = 0
          PROVE  g = 0
        <3>1. acc * n = 0
            BY <2>1
        <3>2. 0 \div PRECISION = 0
            BY <1>1
        <3> QED BY <3>1, <3>2
    <2> QED BY <2>1
<1>4. Gross(acc, n) = g
    BY DEF Gross
<1> HIDE DEF g
<1>5. g * PRECISION = PRECISION * g /\ PRECISION * g \in Nat
    BY <1>1, <1>2
<1> QED BY <1>1, <1>2, <1>3, <1>4, <1>5

LEMMA GrossGrows ==
    ASSUME NEW acc1 \in Nat, NEW acc2 \in Nat, acc1 <= acc2, NEW n \in Nat, NEW m \in Nat, n <= m
    PROVE  Gross(acc1, n) <= Gross(acc2, m)
<1>1. acc1 * n \in Nat /\ acc2 * n \in Nat /\ acc1 * n <= acc2 * n
    BY ProductOrder
<1>2. n * acc2 \in Nat /\ m * acc2 \in Nat /\ n * acc2 <= m * acc2
    BY ProductOrder
<1>3. n * acc2 = acc2 * n /\ m * acc2 = acc2 * m
    OBVIOUS
<1>4. acc1 * n <= acc2 * m /\ acc2 * m \in Nat
    BY <1>1, <1>2, <1>3
<1> QED BY <1>1, <1>4, FinanceFacts, FloorMonotone DEF Gross

LEMMA EarnedGrows ==
    ASSUME NEW p \in PositionType, NEW acc1 \in Nat, NEW acc2 \in Nat
    PROVE  /\ EarnedBy(p, acc1) \in Int /\ EarnedBy(p, acc2) \in Int
           /\ acc1 <= acc2 \/ p.rsShares = 0 => EarnedBy(p, acc1) <= EarnedBy(p, acc2)
<1>1. p.rsShares \in Nat /\ p.rewardDebt \in Nat
    BY DEF PositionType
<1>2. /\ Gross(acc1, p.rsShares) \in Nat /\ Gross(acc2, p.rsShares) \in Nat
      /\ p.rsShares = 0 => Gross(acc1, p.rsShares) = 0
      /\ p.rsShares = 0 => Gross(acc2, p.rsShares) = 0
    BY <1>1, GrossBounds
<1>3. acc1 <= acc2 => Gross(acc1, p.rsShares) <= Gross(acc2, p.rsShares)
    BY <1>1, GrossGrows
<1> QED BY <1>1, <1>2, <1>3 DEF EarnedBy

\* A position whose rewardDebt was covered once has earned nothing negative.
LEMMA EarnedCovered ==
    ASSUME NEW p \in PositionType, NEW acc \in Nat, LoanCredit(p, acc) >= 0
    PROVE  /\ EarnedBy(p, acc) \in Nat /\ LoanCredit(p, acc) \in Nat
           /\ Scaled(EarnedBy(p, acc)) \in Nat
           /\ Scaled(EarnedBy(p, acc)) <= LoanCredit(p, acc)
<1> DEFINE d == p.rewardDebt
           s == p.rsShares
           g == Gross(acc, s)
<1>1. d \in Nat /\ s \in Nat /\ PRECISION \in Nat \ {0}
    BY FinanceFacts DEF PositionType
<1>2. /\ g \in Nat /\ acc * s \in Nat /\ PRECISION * g \in Nat /\ PRECISION * d \in Nat
      /\ PRECISION * g <= acc * s
    BY <1>1, GrossBounds
<1>3. LoanCredit(p, acc) = acc * s - PRECISION * d
    BY DEF LoanCredit, Scaled
<1>4. PRECISION * d <= acc * s
    BY <1>2, <1>3
<1>5. d <= g
    BY <1>1, <1>2, <1>4, FloorGreatest DEF Gross
<1>6. EarnedBy(p, acc) = g - d
    BY DEF EarnedBy
<1> HIDE DEF d, s, g
<1>7. g - d \in Nat /\ PRECISION * (g - d) = PRECISION * g - PRECISION * d
    BY <1>1, <1>2, <1>5
<1>8. PRECISION * (g - d) \in Nat
    BY <1>1, <1>7
<1> QED BY <1>2, <1>3, <1>4, <1>6, <1>7, <1>8 DEF Scaled

LEMMA ScaledAdds ==
    ASSUME NEW x \in Nat, NEW y \in Nat
    PROVE  /\ Scaled(x) \in Nat /\ Scaled(x + y) = Scaled(x) + Scaled(y)
           /\ x <= y => Scaled(x) <= Scaled(y)
<1>1. PRECISION \in Nat
    BY FinanceFacts
<1>2. x * PRECISION \in Nat /\ y * PRECISION \in Nat
    BY <1>1
<1>3. x <= y => x * PRECISION <= y * PRECISION
    BY <1>1, ProductOrder
<1> QED BY <1>1, <1>2, <1>3 DEF Scaled

-----------------------------------------------------------------------------
(***************************************************************************)
(* What a harvest collects and credits.                                    *)
(***************************************************************************)
LEMMA AccumulatorRises ==
    ShareInv /\ HeldInv =>
        /\ Claimable[EscrowAddr] \in Nat
        /\ AccAfter \in Nat
        /\ accUsdcPerRawShare <= AccAfter
<1> SUFFICES ASSUME ShareInv, HeldInv
             PROVE  /\ Claimable[EscrowAddr] \in Nat
                    /\ AccAfter \in Nat
                    /\ accUsdcPerRawShare <= AccAfter
    OBVIOUS
<1>1. ShareTypeOK /\ revenuePerShare \in Nat /\ EscrowAddr \in Holders
    BY FinanceFacts DEF ShareInv, ShareTypeOK
<1>2. Claimable[EscrowAddr] \in Nat
    <2>1. revenuePerShare <= revenuePerShare
        BY <1>1
    <2> QED BY <1>1, <2>1, ClaimsGrow
<1>3. /\ PRECISION \in Nat \ {0} /\ rsHeld \in Nat /\ accUsdcPerRawShare \in Nat
    BY FinanceFacts DEF HeldInv
<1>4. CASE Harvests
    <2>1. rsHeld \in Nat \ {0}
        BY <1>3, <1>4 DEF Harvests
    <2>2. Claimable[EscrowAddr] * PRECISION \in Nat
        BY <1>2, <1>3
    <2>3. (Claimable[EscrowAddr] * PRECISION) \div rsHeld \in Nat
        BY <2>1, <2>2, FloorDivision
    <2> QED BY <1>2, <1>3, <1>4, <2>3 DEF AccAfter
<1>5. CASE ~Harvests
    BY <1>2, <1>3, <1>5 DEF AccAfter
<1> QED BY <1>4, <1>5

LEMMA NextAccumulatorRises ==
    (ShareInv /\ HeldInv)' =>
        (/\ Claimable[EscrowAddr] \in Nat
         /\ AccAfter \in Nat
         /\ accUsdcPerRawShare <= AccAfter)'
    BY AccumulatorRises, PTL

LEMMA HarvestCollects ==
    ASSUME ShareInv, HeldInv, RevenueShareAddr \in Accounts, usdc[RevenueShareAddr] >= Collected
    PROVE  /\ Collected \in Nat
           /\ LedgerAfter \in [Accounts -> Nat]
           /\ LedgerAfter[RevenueShareAddr] = usdc[RevenueShareAddr] - Collected
           /\ LedgerAfter[EscrowAddr] = usdc[EscrowAddr] + Collected
           /\ AccAfter - accUsdcPerRawShare \in Nat
           /\ (AccAfter - accUsdcPerRawShare) * rsHeld <= PRECISION * Collected
<1>1. /\ ShareTypeOK /\ Earned /\ usdc \in [Accounts -> Nat] /\ revenuePerShare \in Nat
      /\ EscrowAddr \in Holders /\ EscrowAddr \in Accounts /\ EscrowAddr # RevenueShareAddr
      /\ usdc[RevenueShareAddr] \in Nat
    BY FinanceFacts DEF ShareInv, ShareTypeOK
<1>2. /\ PRECISION \in Nat \ {0} /\ rsHeld \in Nat /\ accUsdcPerRawShare \in Nat
      /\ Claimable[EscrowAddr] \in Nat /\ AccAfter \in Nat
    BY FinanceFacts, AccumulatorRises DEF HeldInv
<1>3. /\ Collected \in Nat
      /\ Harvests => Claimable[EscrowAddr] <= Collected
    <2>1. Readable(usdc)
        <3>1. totalDistributed - totalClaimed \in Int
            BY <1>1 DEF ShareTypeOK
        <3> QED BY <1>1, <3>1 DEF ShareInv, Covered, Readable, Undistributed
    <2>2. RevenuePerShareNow(usdc) \in Nat /\ revenuePerShare <= RevenuePerShareNow(usdc)
        BY <1>1, <2>1, DistributionCovered
    <2>3. /\ ClaimableAt(EscrowAddr, RevenuePerShareNow(usdc)) \in Nat
          /\ Claimable[EscrowAddr] <= ClaimableAt(EscrowAddr, RevenuePerShareNow(usdc))
        BY <1>1, <2>2, ClaimsGrow
    <2> QED BY <2>3 DEF Collected
<1>4. /\ LedgerAfter \in [Accounts -> Nat]
      /\ LedgerAfter[RevenueShareAddr] = usdc[RevenueShareAddr] - Collected
      /\ LedgerAfter[EscrowAddr] = usdc[EscrowAddr] + Collected
    BY <1>1, <1>3, MovedType DEF LedgerAfter
<1>5. /\ AccAfter - accUsdcPerRawShare \in Nat
      /\ (AccAfter - accUsdcPerRawShare) * rsHeld <= PRECISION * Collected
    <2>1. CASE Harvests
        <3> DEFINE c == Claimable[EscrowAddr]
                   k == (c * PRECISION) \div rsHeld
        <3>1. rsHeld \in Nat \ {0} /\ c * PRECISION \in Nat
            BY <1>2, <2>1 DEF Harvests
        <3>2. k \in Nat /\ rsHeld * k <= c * PRECISION
            BY <3>1, FloorDivision
        <3>3. AccAfter = accUsdcPerRawShare + k
            BY <2>1 DEF AccAfter
        <3>4. c \in Nat /\ c <= Collected
            BY <1>2, <1>3, <2>1
        <3> HIDE DEF k, c
        <3>5. AccAfter - accUsdcPerRawShare = k
            BY <1>2, <3>2, <3>3
        <3>6. c * PRECISION \in Nat /\ Collected * PRECISION \in Nat /\ c * PRECISION <= Collected * PRECISION
            BY <1>2, <1>3, <3>4, ProductOrder
        <3>7. /\ rsHeld * k = k * rsHeld /\ Collected * PRECISION = PRECISION * Collected
              /\ rsHeld * k \in Nat
            BY <1>2, <1>3, <3>2
        <3> QED BY <3>2, <3>5, <3>6, <3>7
    <2>2. CASE ~Harvests
        <3>1. AccAfter - accUsdcPerRawShare = 0 /\ Collected = 0
            BY <1>2, <2>2 DEF AccAfter, Collected
        <3>2. 0 * rsHeld = 0 /\ PRECISION * 0 = 0
            BY <1>2
        <3> QED BY <3>1, <3>2
    <2> QED BY <2>1, <2>2
<1> QED BY <1>3, <1>4, <1>5

-----------------------------------------------------------------------------
(***************************************************************************)
(* The weights of notes and positions, and what a harvest does to them.    *)
(***************************************************************************)
LEMMA NoteTypes ==
    ASSUME NotesOK, accUsdcPerRawShare \in Nat, NEW acc \in Nat, accUsdcPerRawShare <= acc
    PROVE  /\ NoteShares \in [Slots -> Nat]
           /\ NoteWeight(acc) \in [Slots -> Nat]
           /\ \A i \in DOMAIN notes :
                  /\ i \in Slots /\ notes[i] \in NoteType
                  /\ notes[i].collateralShares \in Nat /\ notes[i].accAtDeposit \in Nat
                  /\ acc - notes[i].accAtDeposit \in Nat
                  /\ NoteCredit(notes[i], acc) \in Nat
<1>1. MaxNotes \in Nat
    BY FinanceFacts
<1>2. ASSUME NEW i \in DOMAIN notes
      PROVE  /\ i \in Slots /\ notes[i] \in NoteType
             /\ notes[i].collateralShares \in Nat /\ notes[i].accAtDeposit \in Nat
             /\ acc - notes[i].accAtDeposit \in Nat
             /\ NoteCredit(notes[i], acc) \in Nat
    <2>1. notes \in Seq(NoteType) /\ Len(notes) <= MaxNotes
        BY DEF NotesOK
    <2>2. i \in 1 .. Len(notes) /\ Len(notes) \in Nat /\ notes[i] \in NoteType
        BY <1>2, <2>1
    <2>3. i \in Slots
        BY <1>1, <2>1, <2>2 DEF Slots
    <2>4. notes[i].collateralShares \in Nat /\ notes[i].accAtDeposit \in Nat
        BY <2>2 DEF NoteType
    <2>5. notes[i].accAtDeposit <= accUsdcPerRawShare
        BY <1>2 DEF NotesOK
    <2>6. acc - notes[i].accAtDeposit \in Nat
        BY <2>4, <2>5
    <2> QED BY <2>2, <2>3, <2>4, <2>6 DEF NoteCredit
<1> QED BY <1>2 DEF NoteShares, NoteWeight

LEMMA LoanTypes ==
    ASSUME PositionsOK, accUsdcPerRawShare \in Nat, NEW acc \in Nat, accUsdcPerRawShare <= acc
    PROVE  /\ LoanShares \in [Borrowers -> Nat]
           /\ LoanWeight(acc) \in [Borrowers -> Nat]
           /\ \A u \in Borrowers : /\ positions[u] \in PositionType
                                    /\ LoanCredit(positions[u], acc) \in Nat
<1>1. ASSUME NEW u \in Borrowers
      PROVE  /\ positions[u] \in PositionType /\ positions[u].rsShares \in Nat
             /\ LoanCredit(positions[u], acc) \in Nat
    <2> DEFINE s == positions[u].rsShares
               d == PRECISION * positions[u].rewardDebt
    <2>1. positions[u] \in PositionType /\ LoanCredit(positions[u], accUsdcPerRawShare) >= 0
        BY DEF PositionsOK
    <2>2. s \in Nat /\ d \in Nat
        BY <2>1, FinanceFacts DEF PositionType
    <2>3. /\ LoanCredit(positions[u], accUsdcPerRawShare) = accUsdcPerRawShare * s - d
          /\ LoanCredit(positions[u], acc) = acc * s - d
        BY DEF LoanCredit, Scaled
    <2> HIDE DEF s, d
    <2>4. /\ accUsdcPerRawShare * s \in Nat /\ acc * s \in Nat
          /\ accUsdcPerRawShare * s <= acc * s
        BY <2>2, ProductOrder
    <2>5. LoanCredit(positions[u], acc) \in Nat
        BY <2>1, <2>2, <2>3, <2>4
    <2> QED BY <2>1, <2>2, <2>5 DEF s
<1> QED BY <1>1 DEF LoanShares, LoanWeight

\* Both products, the coins they are counted against left aside.
Books == NotesOK /\ OthersOK /\ PositionsOK /\ ProductOK /\ HeldInv

FinanceCore == ShareInv /\ Books /\ Backed

FinanceInv == FinanceCore /\ DebtWithinLTV

LEMMA TotalsAreNat ==
    ASSUME Books, NEW acc \in Nat, accUsdcPerRawShare <= acc
    PROVE  /\ Total(NoteShares) \in Nat /\ Total(LoanShares) \in Nat
           /\ Total(NoteWeight(acc)) \in Nat /\ Total(LoanWeight(acc)) \in Nat
<1>1. accUsdcPerRawShare \in Nat /\ IsFiniteSet(Slots) /\ IsFiniteSet(Borrowers)
    BY FinanceFacts DEF Books, HeldInv
<1>2. /\ NoteShares \in [Slots -> Nat] /\ NoteWeight(acc) \in [Slots -> Nat]
      /\ LoanShares \in [Borrowers -> Nat] /\ LoanWeight(acc) \in [Borrowers -> Nat]
    BY <1>1, NoteTypes, LoanTypes DEF Books
<1> QED BY <1>1, <1>2, CoinsFinite

LEMMA OthersTypes ==
    ASSUME OthersOK, ProductOK
    PROVE  /\ othersBrought \in Nat /\ othersPaid \in Nat /\ Elsewhere \in Nat
           /\ Scaled(othersBrought) \in Nat
<1>1. othersBrought \in Nat /\ othersPaid \in Nat /\ rescued \in Nat
    BY DEF OthersOK, ProductOK
<1>2. rescued + othersPaid \in Nat /\ Scaled(othersBrought) \in Nat
    BY <1>1, ScaledAdds
<1> QED BY <1>1, <1>2 DEF Elsewhere

LEMMA NextOthersTypes ==
    ASSUME OthersOK', ProductOK'
    PROVE  /\ othersBrought' \in Nat /\ othersPaid' \in Nat /\ Elsewhere' \in Nat
<1>1. (OthersOK /\ ProductOK)' =>
          (othersBrought \in Nat /\ othersPaid \in Nat /\ Elsewhere \in Nat)'
    BY OthersTypes, PTL
<1> QED BY <1>1

LEMMA HarvestCovers ==
    ASSUME FinanceCore, RevenueShareAddr \in Accounts, usdc[RevenueShareAddr] >= Collected
    PROVE  Covers(AccAfter, LedgerAfter[EscrowAddr])
<1> DEFINE A == accUsdcPerRawShare
           B == AccAfter
           k == B - A
           ns == Total(NoteShares)
           ls == Total(LoanShares)
           nw == Total(NoteWeight(A))
           lw == Total(LoanWeight(A))
           c == usdc[EscrowAddr]
           ow == Scaled(othersBrought)
<1>1. /\ A \in Nat /\ B \in Nat /\ A <= B /\ A <= A /\ k \in Nat /\ B = A + k
      /\ IsFiniteSet(Slots) /\ IsFiniteSet(Borrowers)
    <2>1. A \in Nat /\ B \in Nat /\ A <= B
        BY AccumulatorRises DEF FinanceCore, Books, HeldInv
    <2> QED BY <2>1, FinanceFacts
<1>2. /\ NoteShares \in [Slots -> Nat] /\ NoteWeight(A) \in [Slots -> Nat]
      /\ NoteWeight(B) \in [Slots -> Nat]
      /\ LoanShares \in [Borrowers -> Nat] /\ LoanWeight(A) \in [Borrowers -> Nat]
      /\ LoanWeight(B) \in [Borrowers -> Nat]
    BY <1>1, NoteTypes, LoanTypes DEF FinanceCore, Books
<1>3. ASSUME NEW i \in Slots
      PROVE  NoteWeight(B)[i] <= NoteWeight(A)[i] + k * NoteShares[i]
    <2>1. CASE i \in DOMAIN notes
        <3> DEFINE a == A - notes[i].accAtDeposit
                   s == notes[i].collateralShares
        <3>1. a \in Nat /\ s \in Nat /\ B - notes[i].accAtDeposit = a + k
            <4>1. /\ A - notes[i].accAtDeposit \in Nat /\ notes[i].accAtDeposit \in Nat
                  /\ notes[i].collateralShares \in Nat
                BY <1>1, <2>1, NoteTypes DEF FinanceCore, Books
            <4> QED BY <1>1, <4>1
        <3>2. /\ NoteWeight(B)[i] = (B - notes[i].accAtDeposit) * s
              /\ NoteWeight(A)[i] = a * s /\ NoteShares[i] = s
            BY <2>1 DEF NoteWeight, NoteShares, NoteCredit
        <3> HIDE DEF a, s, k
        <3>3. (a + k) * s = a * s + k * s /\ a * s \in Nat /\ k * s \in Nat
            BY <1>1, <3>1
        <3> QED BY <3>1, <3>2, <3>3
    <2>2. CASE i \notin DOMAIN notes
        <3>1. NoteWeight(B)[i] = 0 /\ NoteWeight(A)[i] = 0 /\ NoteShares[i] = 0
            BY <2>2 DEF NoteWeight, NoteShares
        <3>2. k * 0 = 0
            BY <1>1
        <3> QED BY <3>1, <3>2
    <2> QED BY <2>1, <2>2
<1>4. ASSUME NEW u \in Borrowers
      PROVE  LoanWeight(B)[u] <= LoanWeight(A)[u] + k * LoanShares[u]
    <2> DEFINE s == positions[u].rsShares
               d == PRECISION * positions[u].rewardDebt
    <2>1. s \in Nat /\ d \in Nat
        <3>1. positions[u] \in PositionType /\ PRECISION \in Nat
            BY FinanceFacts DEF FinanceCore, Books, PositionsOK
        <3> QED BY <3>1 DEF PositionType
    <2>2. /\ LoanWeight(B)[u] = B * s - d /\ LoanWeight(A)[u] = A * s - d /\ LoanShares[u] = s
        BY DEF LoanWeight, LoanShares, LoanCredit, Scaled
    <2> HIDE DEF s, d, k
    <2>3. B * s = A * s + k * s /\ A * s \in Nat /\ k * s \in Nat
        BY <1>1, <2>1
    <2> QED BY <2>1, <2>2, <2>3
<1> HIDE DEF k
<1>5. /\ Total(NoteWeight(B)) <= nw + k * ns
      /\ Total(LoanWeight(B)) <= lw + k * ls
    BY <1>1, <1>2, <1>3, <1>4, TotalGrowth
<1>6. /\ Total(NoteWeight(B)) \in Nat /\ Total(LoanWeight(B)) \in Nat
      /\ nw \in Nat /\ lw \in Nat /\ ns \in Nat /\ ls \in Nat
    BY <1>1, TotalsAreNat DEF FinanceCore
<1>7. /\ Collected \in Nat /\ k * rsHeld <= PRECISION * Collected
      /\ LedgerAfter[EscrowAddr] = c + Collected
    BY HarvestCollects DEF FinanceCore, Books, k
<1>8. /\ ns + ls = rsHeld /\ nw + (lw + ow) <= PRECISION * (c + Elsewhere + bookings)
      /\ c \in Nat /\ Elsewhere \in Nat /\ bookings \in Nat /\ PRECISION \in Nat /\ ow \in Nat
    <2>1. /\ ns + ls = rsHeld /\ nw + (lw + ow) <= PRECISION * (c + Elsewhere + bookings)
        BY DEF FinanceCore, Books, HeldInv, Backed, Covers, Scaled
    <2>2. Elsewhere \in Nat /\ ow \in Nat
        BY OthersTypes DEF FinanceCore, Books
    <2> QED BY <2>1, <2>2, FinanceFacts DEF FinanceCore, Books, ProductOK, ShareInv, ShareTypeOK
<1> HIDE DEF A, B, ns, ls, nw, lw, c, ow
<1>9. k * ns + k * ls = k * rsHeld /\ k * ns \in Nat /\ k * ls \in Nat /\ k * rsHeld \in Nat
    BY <1>1, <1>6, <1>8
<1>10. /\ PRECISION * (c + Collected + Elsewhere + bookings)
             = PRECISION * (c + Elsewhere + bookings) + PRECISION * Collected
       /\ PRECISION * (c + Elsewhere + bookings) \in Nat /\ PRECISION * Collected \in Nat
    BY <1>7, <1>8
<1>11. Total(NoteWeight(B)) + (Total(LoanWeight(B)) + ow)
            <= PRECISION * (c + Collected + Elsewhere + bookings)
    BY <1>5, <1>6, <1>7, <1>8, <1>9, <1>10
<1> QED BY <1>7, <1>11 DEF B, ow, Covers, Scaled

-----------------------------------------------------------------------------
(***************************************************************************)
(* A step of one product: of its shares and weights one entry changes, and *)
(* none of the other's.                                                    *)
(***************************************************************************)
LEMMA NotesUntouched ==
    ASSUME UNCHANGED notes, NEW acc, accUsdcPerRawShare' = acc
    PROVE  NoteShares' = NoteShares /\ NoteWeight(accUsdcPerRawShare)' = NoteWeight(acc)
    BY DEF NoteShares, NoteWeight, NoteCredit

LEMMA LoansUntouched ==
    ASSUME \A u \in Borrowers : /\ positions'[u].rsShares = positions[u].rsShares
                                /\ positions'[u].rewardDebt = positions[u].rewardDebt,
           NEW acc, accUsdcPerRawShare' = acc
    PROVE  LoanShares' = LoanShares /\ LoanWeight(accUsdcPerRawShare)' = LoanWeight(acc)
    BY DEF LoanShares, LoanWeight, LoanCredit

(***************************************************************************)
(* Of a table of weights one entry changes; the other product's total is o.*)
(***************************************************************************)
LEMMA EntryCovered ==
    ASSUME NEW S, IsFiniteSet(S), NEW f \in [S -> Nat], NEW i \in S, NEW w \in Nat,
           NEW g, g = [f EXCEPT ![i] = w], NEW o \in Nat,
           NEW x \in Nat, NEW y \in Nat, NEW paid \in Nat, NEW booked \in Nat,
           x + booked <= y + paid, Total(f) + o <= Scaled(x),
           w + Scaled(paid) <= f[i] + Scaled(booked)
    PROVE  Total(g) + o <= Scaled(y)
<1>1. Total(f) \in Nat /\ f[i] <= Total(f) /\ Total(g) = Total(f) - f[i] + w /\ f[i] \in Nat
    BY BalanceSet
<1>2. x + booked \in Nat /\ y + paid \in Nat
    OBVIOUS
<1>3. /\ Scaled(x) \in Nat /\ Scaled(booked) \in Nat
      /\ Scaled(y) \in Nat /\ Scaled(paid) \in Nat
      /\ Scaled(x + booked) <= Scaled(y + paid)
      /\ Scaled(x + booked) = Scaled(x) + Scaled(booked)
      /\ Scaled(y + paid) = Scaled(y) + Scaled(paid)
    BY <1>2, ScaledAdds
<1> QED BY <1>1, <1>3

\* Shares held within those there are: of a total tf with o others, e becomes s.
LEMMA HeldMoves ==
    ASSUME NEW tf \in Nat, NEW o \in Nat, NEW e \in Nat, NEW s \in Nat, e <= tf,
           NEW c \in Nat, NEW c1 \in Nat, tf + o <= c, c1 >= c - e + s
    PROVE  /\ (tf + o) - e + s \in Nat /\ (tf + o) - e + s <= c1
           /\ (tf - e + s) + o = (tf + o) - e + s
    OBVIOUS

LEMMA CoinsLeft ==
    ASSUME NEW coins \in Nat, NEW r \in Nat, NEW b \in Nat, NEW left \in Nat,
           NEW paid \in Nat, NEW booked \in Nat, left >= coins - paid
    PROVE  /\ coins + r + b \in Nat /\ left + r + (b + booked) \in Nat
           /\ (coins + r + b) + booked <= (left + r + (b + booked)) + paid
    OBVIOUS

\* A step that leaves the shares of every note and position as they are.
LEMMA QuietStepCore ==
    ASSUME FinanceCore, ShareInv',
           NEW acc \in Nat, accUsdcPerRawShare <= acc, accUsdcPerRawShare' = acc,
           NEW coins \in Nat, Covers(acc, coins),
           UNCHANGED <<notes, rsHeld, bookings>>,
           positions' \in [Borrowers -> PositionType],
           \A u \in Borrowers : /\ positions'[u].rsShares = positions[u].rsShares
                                /\ positions'[u].rewardDebt = positions[u].rewardDebt,
           OthersOK', ProductOK', NEW brought \in Nat, othersBrought' = othersBrought + brought,
           usdc'[EscrowAddr] + Elsewhere' >= coins + Elsewhere + brought,
           shares'[EscrowAddr] >= shares[EscrowAddr]
    PROVE  FinanceCore'
<1>1. /\ accUsdcPerRawShare \in Nat /\ EscrowAddr \in Holders /\ EscrowAddr \in Accounts
      /\ bookings \in Nat /\ bookings' = bookings
      /\ usdc'[EscrowAddr] \in Nat /\ shares'[EscrowAddr] \in Nat /\ shares[EscrowAddr] \in Nat
    BY FinanceFacts DEF FinanceCore, Books, HeldInv, ProductOK, ShareInv, ShareTypeOK
<1>2. /\ NoteShares' = NoteShares /\ NoteWeight(accUsdcPerRawShare)' = NoteWeight(acc)
      /\ LoanShares' = LoanShares /\ LoanWeight(accUsdcPerRawShare)' = LoanWeight(acc)
    BY NotesUntouched, LoansUntouched
<1>3. NotesOK'
    <2>1. notes' = notes /\ notes \in Seq(NoteType) /\ Len(notes) <= MaxNotes
        BY DEF FinanceCore, Books, NotesOK
    <2>2. ASSUME NEW id \in DOMAIN notes
          PROVE  /\ notes[id].accAtDeposit <= acc
                 /\ notes[id].status = "Active" => notes[id].buyer \in Buyers
        <3>1. acc - notes[id].accAtDeposit \in Nat /\ notes[id].accAtDeposit \in Nat
            BY <1>1, <2>2, NoteTypes DEF FinanceCore, Books
        <3> QED BY <2>2, <3>1 DEF FinanceCore, Books, NotesOK
    <2> QED BY <2>1, <2>2 DEF NotesOK
<1>4. PositionsOK'
    <2>1. \A u \in Borrowers : LoanCredit(positions[u], acc) \in Nat
        BY <1>1, LoanTypes DEF FinanceCore, Books
    <2>2. \A u \in Borrowers : LoanCredit(positions'[u], acc) = LoanCredit(positions[u], acc)
        BY DEF LoanCredit
    <2>3. \A u \in Borrowers : LoanCredit(positions'[u], acc) >= 0
        BY <2>1, <2>2
    <2> QED BY <2>3 DEF PositionsOK, LoanCredit
<1>5. HeldInv'
    <2>1. /\ rsHeld \in Nat /\ rsHeld <= shares[EscrowAddr] /\ rsHeld' = rsHeld
          /\ Total(NoteShares) + Total(LoanShares) = rsHeld
        BY DEF FinanceCore, Books, HeldInv
    <2>2. rsHeld <= shares'[EscrowAddr]
        BY <1>1, <2>1
    <2> QED BY <1>2, <2>1, <2>2 DEF HeldInv
<1>6. Backed'
    <2>1. Total(NoteWeight(acc)) \in Nat /\ Total(LoanWeight(acc)) \in Nat
        BY TotalsAreNat DEF FinanceCore
    <2>2. /\ othersBrought \in Nat /\ Elsewhere \in Nat /\ Scaled(othersBrought) \in Nat
        BY OthersTypes DEF FinanceCore, Books
    <2>3. /\ othersBrought' \in Nat /\ Elsewhere' \in Nat
        BY NextOthersTypes
    <2> DEFINE x == coins + Elsewhere + bookings
               y == usdc'[EscrowAddr] + Elsewhere' + bookings'
    <2>4. x \in Nat /\ y \in Nat /\ x + brought \in Nat /\ x + brought <= y
        BY <1>1, <2>2, <2>3
    <2>5. Total(NoteWeight(acc)) + (Total(LoanWeight(acc)) + Scaled(othersBrought)) <= Scaled(x)
        BY DEF Covers
    <2> HIDE DEF x, y
    <2>6. /\ Scaled(x) \in Nat /\ Scaled(y) \in Nat /\ Scaled(brought) \in Nat
          /\ Scaled(x + brought) = Scaled(x) + Scaled(brought)
          /\ Scaled(x + brought) <= Scaled(y)
          /\ Scaled(othersBrought') = Scaled(othersBrought) + Scaled(brought)
        BY <2>2, <2>4, ScaledAdds
    <2>7. Total(NoteWeight(acc)) + (Total(LoanWeight(acc)) + Scaled(othersBrought')) <= Scaled(y)
        BY <2>1, <2>2, <2>5, <2>6
    <2> QED BY <1>2, <2>7 DEF Backed, Covers, Scaled, y
<1> QED BY <1>3, <1>4, <1>5, <1>6 DEF FinanceCore, Books

\* In most such steps nothing becomes of the notes on other contracts.
LEMMA KeptStepCore ==
    ASSUME FinanceCore, ShareInv',
           NEW acc \in Nat, accUsdcPerRawShare <= acc, accUsdcPerRawShare' = acc,
           NEW coins \in Nat, Covers(acc, coins),
           UNCHANGED <<notes, otherVars, rsHeld, bookings>>,
           positions' \in [Borrowers -> PositionType],
           \A u \in Borrowers : /\ positions'[u].rsShares = positions[u].rsShares
                                /\ positions'[u].rewardDebt = positions[u].rewardDebt,
           ProductOK', usdc'[EscrowAddr] + rescued' >= coins + rescued,
           shares'[EscrowAddr] >= shares[EscrowAddr]
    PROVE  FinanceCore'
<1>1. /\ OthersOK' /\ 0 \in Nat /\ othersBrought' = othersBrought + 0
      /\ othersPaid \in Nat /\ othersPaid' = othersPaid
    BY DEF otherVars, OthersOK, FinanceCore, Books
<1>2. usdc'[EscrowAddr] + Elsewhere' >= coins + Elsewhere + 0
    <2>1. rescued \in Nat /\ rescued' \in Nat /\ usdc'[EscrowAddr] \in Nat
        BY FinanceFacts DEF FinanceCore, Books, ProductOK, ShareInv, ShareTypeOK
    <2> QED BY <1>1, <2>1 DEF Elsewhere
<1> QED BY <1>1, <1>2, QuietStepCore

\* Note i is written: it keeps a weight of w, and `paid' coins leave.
LEMMA NoteStepCore ==
    ASSUME FinanceCore, ShareInv',
           NEW acc \in Nat, accUsdcPerRawShare <= acc, accUsdcPerRawShare' = acc,
           NEW coins \in Nat, Covers(acc, coins),
           notes' \in Seq(NoteType), Len(notes') <= MaxNotes,
           NEW i \in Slots, i \in DOMAIN notes',
           \A j \in Slots \ {i} : /\ j \in DOMAIN notes' <=> j \in DOMAIN notes
                                  /\ j \in DOMAIN notes => notes'[j] = notes[j],
           notes'[i].accAtDeposit <= acc,
           notes'[i].status = "Active" => notes'[i].buyer \in Buyers,
           NEW paid \in Nat,
           NoteCredit(notes'[i], acc) + Scaled(paid) <= NoteWeight(acc)[i],
           usdc'[EscrowAddr] >= coins - paid,
           rsHeld' = rsHeld - NoteShares[i] + notes'[i].collateralShares,
           shares'[EscrowAddr] >= shares[EscrowAddr] - NoteShares[i] + notes'[i].collateralShares,
           product = "notes", UNCHANGED <<otherVars, positions, rescued, bookings, product>>
    PROVE  FinanceCore'
<1> DEFINE s == notes'[i].collateralShares
           w == NoteCredit(notes'[i], acc)
<1>1. /\ accUsdcPerRawShare \in Nat /\ EscrowAddr \in Holders /\ EscrowAddr \in Accounts
      /\ IsFiniteSet(Slots) /\ MaxNotes \in Nat
      /\ Elsewhere \in Nat /\ bookings \in Nat /\ Scaled(othersBrought) \in Nat
      /\ Elsewhere' = Elsewhere /\ othersBrought' = othersBrought
      /\ usdc'[EscrowAddr] \in Nat /\ shares'[EscrowAddr] \in Nat /\ shares[EscrowAddr] \in Nat
    <2>1. Elsewhere \in Nat /\ Scaled(othersBrought) \in Nat
        BY OthersTypes DEF FinanceCore, Books
    <2>2. Elsewhere' = Elsewhere /\ othersBrought' = othersBrought
        BY DEF Elsewhere, otherVars
    <2> QED BY <2>1, <2>2, FinanceFacts
            DEF FinanceCore, Books, HeldInv, ProductOK, ShareInv, ShareTypeOK
<1>2. s \in Nat /\ notes'[i].accAtDeposit \in Nat /\ w \in Nat
    <2>1. notes'[i] \in NoteType
        OBVIOUS
    <2>2. s \in Nat /\ notes'[i].accAtDeposit \in Nat
        BY <2>1 DEF NoteType
    <2>3. acc - notes'[i].accAtDeposit \in Nat
        BY <2>2
    <2> QED BY <2>2, <2>3 DEF NoteCredit
<1>3. /\ NoteShares \in [Slots -> Nat] /\ NoteWeight(acc) \in [Slots -> Nat]
    BY <1>1, NoteTypes DEF FinanceCore, Books
<1>4. NoteShares' = [NoteShares EXCEPT ![i] = s]
    <2>1. \A j \in Slots \ {i} : NoteShares'[j] = NoteShares[j]
        BY DEF NoteShares
    <2>2. NoteShares'[i] = s
        BY DEF NoteShares
    <2>3. NoteShares' = [j \in Slots |-> NoteShares'[j]]
        BY DEF NoteShares
    <2> HIDE DEF s
    <2> QED BY <1>3, <2>1, <2>2, <2>3
<1>5. NoteWeight(accUsdcPerRawShare)' = [NoteWeight(acc) EXCEPT ![i] = w]
    <2>1. \A j \in Slots \ {i} : NoteWeight(accUsdcPerRawShare)'[j] = NoteWeight(acc)[j]
        BY DEF NoteWeight
    <2>2. NoteWeight(accUsdcPerRawShare)'[i] = w
        BY DEF NoteWeight
    <2>3. NoteWeight(accUsdcPerRawShare)' = [j \in Slots |-> NoteWeight(accUsdcPerRawShare)'[j]]
        BY DEF NoteWeight
    <2> HIDE DEF w
    <2> QED BY <1>3, <2>1, <2>2, <2>3
<1>6. LoanShares' = LoanShares /\ LoanWeight(accUsdcPerRawShare)' = LoanWeight(acc)
    BY LoansUntouched
<1>7. NotesOK'
    <2>1. DOMAIN notes' \subseteq Slots
        <3>1. DOMAIN notes' = 1 .. Len(notes') /\ Len(notes') \in Nat
            OBVIOUS
        <3> QED BY <1>1, <3>1 DEF Slots
    <2>2. ASSUME NEW j \in DOMAIN notes'
          PROVE  /\ notes'[j].accAtDeposit <= acc
                 /\ notes'[j].status = "Active" => notes'[j].buyer \in Buyers
        <3>1. CASE j = i
            BY <3>1
        <3>2. CASE j # i
            <4>1. j \in DOMAIN notes /\ notes'[j] = notes[j]
                BY <2>1, <2>2, <3>2
            <4>2. NotesOK
                BY DEF FinanceCore, Books
            <4>3. acc - notes[j].accAtDeposit \in Nat /\ notes[j].accAtDeposit \in Nat
                BY <1>1, <4>1, <4>2, NoteTypes
            <4>4. notes[j].accAtDeposit <= acc
                BY <4>3
            <4>5. notes[j].status = "Active" => notes[j].buyer \in Buyers
                BY <4>1, <4>2 DEF NotesOK
            <4> QED BY <4>1, <4>4, <4>5
        <3> QED BY <3>1, <3>2
    <2> QED BY <2>2 DEF NotesOK
<1>8. OthersOK' /\ PositionsOK' /\ ProductOK'
    <2>1. \A u \in Borrowers : LoanCredit(positions[u], acc) \in Nat
        BY <1>1, LoanTypes DEF FinanceCore, Books
    <2>2. positions' = positions
        OBVIOUS
    <2>3. PositionsOK'
        BY <2>1, <2>2 DEF PositionsOK, LoanCredit, FinanceCore, Books
    <2>4. ProductOK'
        BY DEF ProductOK, FinanceCore, Books, otherVars
    <2>5. OthersOK'
        BY DEF OthersOK, FinanceCore, Books, otherVars
    <2> QED BY <2>3, <2>4, <2>5
<1> HIDE DEF s, w
<1>9. HeldInv'
    <2>1. Total(LoanShares) \in Nat
        BY <1>1, TotalsAreNat DEF FinanceCore
    <2>2. /\ rsHeld \in Nat /\ rsHeld <= shares[EscrowAddr]
          /\ Total(NoteShares) + Total(LoanShares) = rsHeld
        BY DEF FinanceCore, Books, HeldInv
    <2>3. /\ rsHeld' = rsHeld - NoteShares[i] + s
          /\ shares'[EscrowAddr] >= shares[EscrowAddr] - NoteShares[i] + s
        BY DEF s
    <2>4. /\ rsHeld' \in Nat /\ rsHeld' <= shares'[EscrowAddr]
          /\ Total(NoteShares') + Total(LoanShares) = rsHeld'
        <3> DEFINE c == shares[EscrowAddr]
                   c1 == shares'[EscrowAddr]
                   f == NoteShares
                   g == NoteShares'
                   o == Total(LoanShares)
        <3>1. f \in [Slots -> Nat] /\ g = [f EXCEPT ![i] = s] /\ Total(f) + o = rsHeld
            BY <1>3, <1>4, <2>2
        <3>2. /\ c \in Nat /\ c1 \in Nat /\ o \in Nat /\ rsHeld <= c /\ s \in Nat
              /\ rsHeld' = rsHeld - f[i] + s /\ c1 >= c - f[i] + s
              /\ IsFiniteSet(Slots) /\ i \in Slots
            BY <1>1, <1>2, <2>1, <2>2, <2>3
        <3> HIDE DEF c, c1, f, g, o
        <3>3. /\ Total(f) \in Nat /\ f[i] <= Total(f) /\ f[i] \in Nat
              /\ Total(g) = Total(f) - f[i] + s
            <4>1. IsFiniteSet(Slots) /\ f \in [Slots -> Nat] /\ i \in Slots /\ s \in Nat
                BY <3>1, <3>2
            <4>2. /\ Total(f) \in Nat /\ f[i] <= Total(f)
                  /\ Total([f EXCEPT ![i] = s]) = Total(f) - f[i] + s
                BY <4>1, BalanceSet
            <4> QED BY <3>1, <4>1, <4>2
        <3> DEFINE tf == Total(f)
                   tg == Total(g)
                   e == f[i]
        <3>4. /\ tf \in Nat /\ o \in Nat /\ e \in Nat /\ s \in Nat /\ e <= tf
              /\ c \in Nat /\ c1 \in Nat /\ tf + o <= c /\ c1 >= c - e + s
            BY <3>1, <3>2, <3>3
        <3>5. tg = tf - e + s /\ rsHeld' = (tf + o) - e + s
            BY <3>1, <3>2, <3>3
        <3> HIDE DEF tf, tg, e
        <3>6. /\ (tf + o) - e + s \in Nat /\ (tf + o) - e + s <= c1
              /\ (tf - e + s) + o = (tf + o) - e + s
            BY <3>4, HeldMoves
        <3>7. rsHeld' \in Nat /\ rsHeld' <= c1 /\ tg + o = rsHeld'
            BY <3>5, <3>6
        <3> QED BY <3>7 DEF c1, g, o, tg
    <2> QED BY <1>6, <2>4 DEF HeldInv
<1>10. Backed'
    <2> DEFINE o == Total(LoanWeight(acc)) + Scaled(othersBrought)
               x == coins + Elsewhere + bookings
               y == usdc'[EscrowAddr] + Elsewhere + (bookings + 0)
    <2>1. o \in Nat
        <3>1. Total(LoanWeight(acc)) \in Nat
            BY TotalsAreNat DEF FinanceCore
        <3> QED BY <1>1, <3>1
    <2>2. x \in Nat /\ y \in Nat /\ 0 \in Nat /\ x + 0 <= y + paid
        BY <1>1, CoinsLeft
    <2>3. Total(NoteWeight(acc)) + o <= Scaled(x)
        BY DEF Covers
    <2>4. w + Scaled(paid) <= NoteWeight(acc)[i] + Scaled(0)
        <3>1. Scaled(0) = 0 /\ NoteWeight(acc)[i] \in Nat
            BY <1>1, <1>3, FinanceFacts DEF Scaled
        <3> QED BY <3>1 DEF w
    <2> HIDE DEF o, x, y
    <2>5. Total(NoteWeight(accUsdcPerRawShare)') + o <= Scaled(y)
        BY <1>1, <1>2, <1>3, <1>5, <2>1, <2>2, <2>3, <2>4, EntryCovered
    <2>6. y = usdc'[EscrowAddr] + Elsewhere' + bookings'
        BY <1>1 DEF y
    <2> QED BY <1>1, <1>6, <2>5, <2>6 DEF Backed, Covers, Scaled, o
<1> QED BY <1>7, <1>8, <1>9, <1>10 DEF FinanceCore, Books

\* The position of u becomes p, `paid' coins leave, and rounding may add `booked'.
LEMMA LoanStepCore ==
    ASSUME FinanceCore, ShareInv',
           NEW acc \in Nat, accUsdcPerRawShare <= acc, accUsdcPerRawShare' = acc,
           NEW coins \in Nat, Covers(acc, coins),
           NEW u \in Borrowers, NEW p \in PositionType,
           LoanCredit(p, acc) >= 0,
           positions' = [positions EXCEPT ![u] = p],
           NEW paid \in Nat, NEW booked \in Nat,
           LoanCredit(p, acc) + Scaled(paid) <= LoanWeight(acc)[u] + Scaled(booked),
           usdc'[EscrowAddr] >= coins - paid,
           rsHeld' = rsHeld - positions[u].rsShares + p.rsShares,
           shares'[EscrowAddr] >= shares[EscrowAddr] - positions[u].rsShares + p.rsShares,
           bookings' = bookings + booked,
           product = "loans", UNCHANGED <<notes, otherVars, rescued, product>>
    PROVE  FinanceCore'
<1> DEFINE s == p.rsShares
           w == LoanCredit(p, acc)
<1>1. /\ accUsdcPerRawShare \in Nat /\ EscrowAddr \in Holders /\ EscrowAddr \in Accounts
      /\ IsFiniteSet(Borrowers)
      /\ Elsewhere \in Nat /\ bookings \in Nat /\ notes = << >>
      /\ Elsewhere' = Elsewhere /\ othersBrought' = 0 /\ othersBrought = 0 /\ Scaled(0) = 0
      /\ usdc'[EscrowAddr] \in Nat /\ shares'[EscrowAddr] \in Nat /\ shares[EscrowAddr] \in Nat
    <2>1. Elsewhere \in Nat /\ Elsewhere' = Elsewhere
        BY OthersTypes DEF FinanceCore, Books, Elsewhere, otherVars
    <2>2. othersBrought = 0 /\ othersBrought' = 0 /\ Scaled(0) = 0
        BY FinanceFacts DEF FinanceCore, Books, ProductOK, Scaled, otherVars
    <2> QED BY <2>1, <2>2, FinanceFacts
            DEF FinanceCore, Books, HeldInv, ProductOK, ShareInv, ShareTypeOK
<1>2. s \in Nat /\ w \in Nat
    BY EarnedCovered DEF PositionType
<1>3. /\ LoanShares \in [Borrowers -> Nat] /\ LoanWeight(acc) \in [Borrowers -> Nat]
      /\ positions \in [Borrowers -> PositionType]
      /\ \A v \in Borrowers : LoanCredit(positions[v], acc) \in Nat
    BY <1>1, LoanTypes DEF FinanceCore, Books, PositionsOK
<1>4. LoanShares' = [LoanShares EXCEPT ![u] = s]
    <2>1. \A v \in Borrowers : LoanShares'[v] = IF v = u THEN s ELSE LoanShares[v]
        BY <1>3 DEF LoanShares
    <2>2. LoanShares' = [v \in Borrowers |-> LoanShares'[v]]
        BY DEF LoanShares
    <2> HIDE DEF s
    <2> QED BY <1>3, <2>1, <2>2
<1>5. LoanWeight(accUsdcPerRawShare)' = [LoanWeight(acc) EXCEPT ![u] = w]
    <2>1. ASSUME NEW v \in Borrowers
          PROVE  LoanWeight(accUsdcPerRawShare)'[v] = IF v = u THEN w ELSE LoanWeight(acc)[v]
        <3>1. LoanWeight(accUsdcPerRawShare)'[v] = LoanCredit(positions'[v], acc)
            BY DEF LoanWeight, LoanCredit
        <3>2. positions'[v] = IF v = u THEN p ELSE positions[v]
            BY <1>3
        <3> QED BY <3>1, <3>2 DEF LoanWeight, LoanCredit
    <2>2. LoanWeight(accUsdcPerRawShare)' = [v \in Borrowers |-> LoanWeight(accUsdcPerRawShare)'[v]]
        BY DEF LoanWeight
    <2> HIDE DEF w
    <2> QED BY <1>3, <2>1, <2>2
<1>6. NoteShares' = NoteShares /\ NoteWeight(accUsdcPerRawShare)' = NoteWeight(acc)
    BY NotesUntouched
<1>7. NotesOK' /\ OthersOK' /\ ProductOK'
    <2>1. NotesOK'
        BY <1>1 DEF NotesOK, FinanceCore, Books
    <2>2. bookings' \in Nat
        BY <1>1
    <2>3. OthersOK'
        BY DEF OthersOK, FinanceCore, Books, otherVars
    <2>4. ProductOK'
        BY <2>2 DEF FinanceCore, Books, ProductOK, otherVars
    <2> QED BY <2>1, <2>3, <2>4
<1>8. PositionsOK'
    BY <1>3 DEF PositionsOK
<1> HIDE DEF s, w
<1>9. HeldInv'
    <2>1. Total(NoteShares) \in Nat
        BY <1>1, TotalsAreNat DEF FinanceCore
    <2>2. /\ rsHeld \in Nat /\ rsHeld <= shares[EscrowAddr]
          /\ Total(LoanShares) + Total(NoteShares) = rsHeld
        <3>1. Total(LoanShares) \in Nat
            BY <1>1, TotalsAreNat DEF FinanceCore
        <3> QED BY <2>1, <3>1 DEF FinanceCore, Books, HeldInv
    <2>3. /\ rsHeld' = rsHeld - LoanShares[u] + s
          /\ shares'[EscrowAddr] >= shares[EscrowAddr] - LoanShares[u] + s
        BY DEF s, LoanShares
    <2>4. /\ rsHeld' \in Nat /\ rsHeld' <= shares'[EscrowAddr]
          /\ Total(LoanShares') + Total(NoteShares) = rsHeld'
        <3> DEFINE c == shares[EscrowAddr]
                   c1 == shares'[EscrowAddr]
                   f == LoanShares
                   g == LoanShares'
                   o == Total(NoteShares)
        <3>1. f \in [Borrowers -> Nat] /\ g = [f EXCEPT ![u] = s] /\ Total(f) + o = rsHeld
            BY <1>3, <1>4, <2>2
        <3>2. /\ c \in Nat /\ c1 \in Nat /\ o \in Nat /\ rsHeld <= c /\ s \in Nat
              /\ rsHeld' = rsHeld - f[u] + s /\ c1 >= c - f[u] + s
              /\ IsFiniteSet(Borrowers) /\ u \in Borrowers
            BY <1>1, <1>2, <2>1, <2>2, <2>3
        <3> HIDE DEF c, c1, f, g, o
        <3>3. /\ Total(f) \in Nat /\ f[u] <= Total(f) /\ f[u] \in Nat
              /\ Total(g) = Total(f) - f[u] + s
            <4>1. IsFiniteSet(Borrowers) /\ f \in [Borrowers -> Nat] /\ u \in Borrowers /\ s \in Nat
                BY <3>1, <3>2
            <4>2. /\ Total(f) \in Nat /\ f[u] <= Total(f)
                  /\ Total([f EXCEPT ![u] = s]) = Total(f) - f[u] + s
                BY <4>1, BalanceSet
            <4> QED BY <3>1, <4>1, <4>2
        <3> DEFINE tf == Total(f)
                   tg == Total(g)
                   e == f[u]
        <3>4. /\ tf \in Nat /\ o \in Nat /\ e \in Nat /\ s \in Nat /\ e <= tf
              /\ c \in Nat /\ c1 \in Nat /\ tf + o <= c /\ c1 >= c - e + s
            BY <3>1, <3>2, <3>3
        <3>5. tg = tf - e + s /\ rsHeld' = (tf + o) - e + s
            BY <3>1, <3>2, <3>3
        <3> HIDE DEF tf, tg, e
        <3>6. /\ (tf + o) - e + s \in Nat /\ (tf + o) - e + s <= c1
              /\ (tf - e + s) + o = (tf + o) - e + s
            BY <3>4, HeldMoves
        <3>7. rsHeld' \in Nat /\ rsHeld' <= c1 /\ tg + o = rsHeld'
            BY <3>5, <3>6
        <3> QED BY <3>7 DEF c1, g, o, tg
    <2>5. Total(LoanShares') \in Nat
        <3>1. LoanShares' \in [Borrowers -> Nat]
            BY <1>2, <1>3, <1>4
        <3> QED BY <1>1, <3>1, CoinsFinite
    <2> QED BY <1>6, <2>1, <2>4, <2>5 DEF HeldInv
<1>10. Backed'
    <2> DEFINE o == Total(NoteWeight(acc))
               x == coins + Elsewhere + bookings
               y == usdc'[EscrowAddr] + Elsewhere + (bookings + booked)
    <2>1. o \in Nat
        BY TotalsAreNat DEF FinanceCore
    <2>2. x \in Nat /\ y \in Nat /\ x + booked <= y + paid
        BY <1>1, CoinsLeft
    <2>3. Total(LoanWeight(acc)) + o <= Scaled(x)
        <3>1. Total(LoanWeight(acc)) \in Nat
            BY TotalsAreNat DEF FinanceCore
        <3>2. o + (Total(LoanWeight(acc)) + 0) <= Scaled(x)
            BY <1>1 DEF Covers
        <3> HIDE DEF o, x
        <3> QED BY <2>1, <3>1, <3>2
    <2>4. w + Scaled(paid) <= LoanWeight(acc)[u] + Scaled(booked)
        BY DEF w
    <2>5. Total(LoanWeight(accUsdcPerRawShare)') + o <= Scaled(y)
        <3> HIDE DEF o, x, y
        <3> QED BY <1>1, <1>2, <1>3, <1>5, <2>1, <2>2, <2>3, <2>4, EntryCovered
    <2>6. y = usdc'[EscrowAddr] + Elsewhere' + bookings'
        BY <1>1 DEF y
    <2>7. Total(LoanWeight(accUsdcPerRawShare)') \in Nat
        <3>1. LoanWeight(accUsdcPerRawShare)' \in [Borrowers -> Nat]
            BY <1>2, <1>3, <1>5
        <3> QED BY <1>1, <3>1, CoinsFinite
    <2>8. o + (Total(LoanWeight(accUsdcPerRawShare)') + 0) <= Scaled(y)
        <3> HIDE DEF o, y
        <3> QED BY <2>1, <2>5, <2>7
    <2>9. Scaled(othersBrought)' = 0
        BY <1>1 DEF Scaled
    <2> QED BY <1>6, <2>6, <2>8, <2>9 DEF Backed, Covers
<1> QED BY <1>7, <1>8, <1>9, <1>10 DEF FinanceCore, Books

-----------------------------------------------------------------------------
(***************************************************************************)
(* What the next harvest would leave of the accumulator never falls while  *)
(* any shares are held.                                                    *)
(***************************************************************************)
Accrues == rsHeld' = 0 \/ AccAfter' >= AccAfter

LEMMA AccruesSlowly ==
    ASSUME ShareInv, HeldInv, (ShareInv /\ HeldInv)',
           accUsdcPerRawShare' = accUsdcPerRawShare,
           Claimable[EscrowAddr]' >= Claimable[EscrowAddr], rsHeld' <= rsHeld
    PROVE  Accrues
<1> DEFINE c == Claimable[EscrowAddr]
           d == Claimable[EscrowAddr]'
           A == accUsdcPerRawShare
<1>1. /\ c \in Nat /\ AccAfter \in Nat /\ A <= AccAfter
      /\ A \in Nat /\ rsHeld \in Nat /\ PRECISION \in Nat
    BY AccumulatorRises, FinanceFacts DEF HeldInv
<1>2. /\ d \in Nat /\ AccAfter' \in Nat /\ A' <= AccAfter' /\ rsHeld' \in Nat
    BY NextAccumulatorRises DEF HeldInv
<1>3. SUFFICES ASSUME rsHeld' # 0
               PROVE  AccAfter' >= AccAfter
    BY DEF Accrues
<1>4. CASE ~Harvests
    <2>1. AccAfter = A
        BY <1>4 DEF AccAfter
    <2> QED BY <1>1, <1>2, <2>1
<1>5. CASE Harvests
    <2>1. c > 0 /\ rsHeld > 0
        BY <1>5 DEF Harvests
    <2>2. d >= c /\ rsHeld' \in Nat \ {0} /\ rsHeld \in Nat \ {0} /\ rsHeld' <= rsHeld
        BY <1>1, <1>2, <1>3, <2>1
    <2>3. Harvests'
        BY <1>1, <1>2, <2>1, <2>2 DEF Harvests
    <2>4. /\ AccAfter = A + (c * PRECISION) \div rsHeld
          /\ AccAfter' = A + (d * PRECISION) \div rsHeld'
        BY <1>5, <2>3 DEF AccAfter
    <2> HIDE DEF c, d, A
    <2>5. /\ c * PRECISION \in Nat /\ d * PRECISION \in Nat
          /\ c * PRECISION <= d * PRECISION
        BY <1>1, <1>2, <2>2, ProductOrder
    <2> DEFINE x == c * PRECISION
               y == d * PRECISION
               q == x \div rsHeld
               r == y \div rsHeld'
    <2>6. q <= r
        <3> HIDE DEF x, y
        <3>1. x \in Nat /\ y \in Nat /\ x <= y
            BY <2>5 DEF x, y
        <3> QED BY <2>2, <3>1, FloorFewer
    <2>7. q \in Nat /\ r \in Nat
        BY <2>2, <2>5, FloorDivision
    <2>8. AccAfter = A + q /\ AccAfter' = A + r
        BY <2>4
    <2> HIDE DEF q, r
    <2> QED BY <1>1, <2>6, <2>7, <2>8
<1> QED BY <1>4, <1>5

LEMMA HarvestAccrues ==
    ASSUME ShareInv, HeldInv, (ShareInv /\ HeldInv)', accUsdcPerRawShare' = AccAfter
    PROVE  Accrues
    BY NextAccumulatorRises DEF Accrues

(***************************************************************************)
(* Shares that move with and without a harvest.                            *)
(***************************************************************************)
LEMMA SharesSent ==
    ASSUME ShareInv, NEW from \in Holders, NEW to \in Holders, from # to, NEW n \in Nat,
           shares[from] >= n
    PROVE  /\ Moved(shares, from, to, n) \in [Holders -> Nat]
           /\ Total(Moved(shares, from, to, n)) = Total(shares)
           /\ Moved(shares, from, to, n)[from] = shares[from] - n
           /\ Moved(shares, from, to, n)[to] = shares[to] + n
           /\ \A h \in Holders \ {from, to} : Moved(shares, from, to, n)[h] = shares[h]
<1>1. shares \in [Holders -> Nat] /\ IsFiniteSet(Holders)
    BY FinanceFacts DEF ShareInv, ShareTypeOK
<1>2. \A h \in Holders \ {from, to} : Moved(shares, from, to, n)[h] = shares[h]
    BY <1>1 DEF Moved
<1> QED BY <1>1, <1>2, MovedType, MovedTotal

LEMMA SentAfterHarvest ==
    ASSUME ShareInv, HeldInv, RevenueShareAddr \in Accounts,
           NEW from \in Holders, NEW to \in Holders, from # to, NEW n \in Nat,
           HarvestAndSend(from, to, n),
           usdc' \in [Accounts -> Nat], usdc'[RevenueShareAddr] >= LedgerAfter[RevenueShareAddr]
    PROVE  /\ ShareInv'
           /\ accUsdcPerRawShare' = AccAfter
           /\ shares'[from] = shares[from] - n /\ shares'[to] = shares[to] + n
<1>1. /\ shares[from] >= n /\ HarvestThenMove(Moved(shares, from, to, n), {from, to})
    BY DEF HarvestAndSend
<1>2. /\ usdc[RevenueShareAddr] >= Collected /\ shares' = Moved(shares, from, to, n)
      /\ accUsdcPerRawShare' = AccAfter
    BY <1>1 DEF HarvestThenMove, CanMove
<1>3. usdc'[RevenueShareAddr] >= usdc[RevenueShareAddr] - Collected
    BY <1>2, HarvestCollects
<1>4. {from, to} \in SUBSET Holders
    OBVIOUS
<1>5. ShareInv'
    BY <1>1, <1>3, <1>4, SharesSent, HarvestKeepsShares
<1> QED BY <1>1, <1>2, <1>5, SharesSent

LEMMA SentUnharvested ==
    ASSUME ShareInv, NEW from \in Holders, NEW to \in Holders, from # to, NEW n \in Nat,
           SendUnharvested(from, to, n)
    PROVE  /\ ShareInv' /\ Claimable' = Claimable
           /\ usdc' = usdc /\ accUsdcPerRawShare' = accUsdcPerRawShare
           /\ shares'[from] = shares[from] - n /\ shares'[to] = shares[to] + n
<1>1. /\ MoveShares(from, to, n) /\ accUsdcPerRawShare' = accUsdcPerRawShare
      /\ UNCHANGED <<usdc, now, totalSupply, genesisComplete, totalClaimed, accumulatorVars>>
    BY DEF SendUnharvested, Transfer
<1>2. usdc' \in [Accounts -> Nat] /\ Covered'
    BY <1>1 DEF ShareInv, ShareTypeOK, Covered, accumulatorVars
<1>3. ShareInv' /\ Claimable' = Claimable
    BY <1>1, <1>2, SharesMoveStep
<1>4. shares[from] >= n /\ shares' = Moved(shares, from, to, n)
    BY <1>1 DEF MoveShares
<1> QED BY <1>1, <1>3, <1>4, SharesSent

-----------------------------------------------------------------------------
(***************************************************************************)
(* The notes.  A note's shares stay what they are until they go back.      *)
(***************************************************************************)
NotesSteady ==
    \A id \in DOMAIN notes :
        /\ id \in DOMAIN notes'
        /\ notes'[id].collateralShares > 0 =>
            /\ notes'[id].collateralShares = notes[id].collateralShares
            /\ notes'[id].accAtDeposit = notes[id].accAtDeposit

LEMMA CoreFacts ==
    ASSUME FinanceCore
    PROVE  /\ ShareInv /\ HeldInv /\ NotesOK /\ OthersOK /\ PositionsOK
           /\ usdc \in [Accounts -> Nat] /\ shares \in [Holders -> Nat] /\ now \in Nat
           /\ accUsdcPerRawShare \in Nat /\ AccAfter \in Nat /\ accUsdcPerRawShare <= AccAfter
           /\ accUsdcPerRawShare <= accUsdcPerRawShare
           /\ EscrowAddr \in Holders /\ EscrowAddr \in Accounts /\ usdc[EscrowAddr] \in Nat
           /\ Covers(accUsdcPerRawShare, usdc[EscrowAddr])
           /\ positions \in [Borrowers -> PositionType] /\ rescued \in Nat /\ bookings \in Nat
<1>1. /\ ShareInv /\ HeldInv /\ NotesOK /\ OthersOK /\ PositionsOK
      /\ positions \in [Borrowers -> PositionType] /\ rescued \in Nat /\ bookings \in Nat
      /\ Covers(accUsdcPerRawShare, usdc[EscrowAddr])
    BY DEF FinanceCore, Books, Backed, PositionsOK, ProductOK
<1>2. usdc \in [Accounts -> Nat] /\ shares \in [Holders -> Nat] /\ now \in Nat
    BY <1>1 DEF ShareInv, ShareTypeOK
<1>3. EscrowAddr \in Holders /\ EscrowAddr \in Accounts
    BY FinanceFacts
<1>4. /\ accUsdcPerRawShare \in Nat /\ AccAfter \in Nat /\ accUsdcPerRawShare <= AccAfter
      /\ accUsdcPerRawShare <= accUsdcPerRawShare
    <2>1. accUsdcPerRawShare \in Nat
        BY <1>1 DEF HeldInv
    <2> QED BY <1>1, <2>1, AccumulatorRises
<1> QED BY <1>1, <1>2, <1>3, <1>4

LEMMA CreateNoteStep ==
    ASSUME FinanceCore, RevenueShareAddr \in Accounts, product = "notes",
           NEW p \in Sellers, NEW face \in FaceValues, NEW price \in PurchasePrices, NEW term,
           NEW n \in Collaterals, CreateNote(p, face, price, term, n),
           UNCHANGED <<otherVars, cdpVars, product>>
    PROVE  FinanceCore' /\ Accrues /\ NotesSteady
<1> DEFINE k == Len(notes) + 1
           note == [provider |-> p, buyer |-> NoAddress, faceValue |-> face,
                    purchasePrice |-> price, collateralShares |-> n,
                    accAtDeposit |-> AccAfter, expiry |-> now + term, status |-> "Open"]
<1>1. /\ term \in MIN_TERM .. MAX_TERM /\ Len(notes) < MaxNotes
      /\ HarvestAndSend(p, EscrowAddr, n)
      /\ usdc' = LedgerAfter /\ notes' = Append(notes, note) /\ rsHeld' = rsHeld + n
    <2>1. NoteOffered(face, price, term, n) /\ Len(notes) + Len(others) < MaxNotes
        BY DEF CreateNote, nextNoteId
    <2>2. notes \in Seq(NoteType) /\ others \in Seq(OtherType) /\ MaxNotes \in Nat
        BY FinanceFacts, CoreFacts DEF NotesOK, OthersOK
    <2>3. Len(notes) < MaxNotes
        BY <2>1, <2>2
    <2> QED BY <2>1, <2>3 DEF CreateNote, NoteOffered
<1>2. /\ p \in Holders /\ p # EscrowAddr /\ n \in Nat /\ p \in Sellers
      /\ face \in Nat /\ price \in Nat /\ MIN_TERM \in Nat /\ MAX_TERM \in Nat /\ MaxNotes \in Nat
    BY FinanceFacts
<1>3. usdc[RevenueShareAddr] >= Collected
    BY <1>1 DEF HarvestAndSend, HarvestThenMove, CanMove
<1>4. /\ LedgerAfter \in [Accounts -> Nat] /\ LedgerAfter[EscrowAddr] \in Nat
      /\ Covers(AccAfter, LedgerAfter[EscrowAddr])
    BY <1>3, CoreFacts, HarvestCollects, HarvestCovers
<1>5. LedgerAfter[RevenueShareAddr] \in Nat
    BY <1>4
<1>6. /\ ShareInv' /\ accUsdcPerRawShare' = AccAfter
      /\ shares'[EscrowAddr] = shares[EscrowAddr] + n
    <2>1. usdc' \in [Accounts -> Nat] /\ usdc'[RevenueShareAddr] >= LedgerAfter[RevenueShareAddr]
        BY <1>1, <1>4, <1>5
    <2>2. /\ ShareInv /\ HeldInv /\ EscrowAddr \in Holders /\ p \in Holders
          /\ p # EscrowAddr /\ n \in Nat /\ HarvestAndSend(p, EscrowAddr, n)
        BY <1>1, <1>2, CoreFacts
    <2> QED BY <2>1, <2>2, SentAfterHarvest, SMTT(60)
<1>7. note \in NoteType
    BY <1>1, <1>2, CoreFacts DEF NoteType
<1>8. notes \in Seq(NoteType) /\ Len(notes) \in Nat
    BY CoreFacts DEF NotesOK
<1>9. /\ notes' \in Seq(NoteType) /\ Len(notes') = k /\ DOMAIN notes' = 1 .. k
      /\ notes'[k] = note /\ \A j \in 1 .. Len(notes) : notes'[j] = notes[j]
    BY <1>1, <1>7, <1>8
<1>10. /\ k \in Slots /\ k \in DOMAIN notes' /\ k \notin DOMAIN notes
       /\ Len(notes') <= MaxNotes
       /\ \A j \in Slots \ {k} : /\ j \in DOMAIN notes' <=> j \in DOMAIN notes
                                 /\ j \in DOMAIN notes => notes'[j] = notes[j]
    BY <1>1, <1>2, <1>8, <1>9 DEF Slots
<1>11. /\ notes'[k].accAtDeposit = AccAfter /\ notes'[k].collateralShares = n
       /\ notes'[k].status = "Open"
    BY <1>9
<1>12. NotesSteady
    BY <1>8, <1>9 DEF NotesSteady
<1> HIDE DEF k, note
<1>13. NoteShares[k] = 0 /\ NoteWeight(AccAfter)[k] = 0
    BY <1>10 DEF NoteShares, NoteWeight
<1>14. NoteCredit(notes'[k], AccAfter) = 0 /\ Scaled(0) = 0
    <2>1. AccAfter \in Nat /\ PRECISION \in Nat
        BY CoreFacts, FinanceFacts
    <2>2. AccAfter - AccAfter = 0 /\ 0 * n = 0 /\ PRECISION * 0 = 0
        BY <1>2, <2>1
    <2> QED BY <1>11, <2>2 DEF NoteCredit, Scaled
<1>15. /\ rsHeld' = rsHeld - NoteShares[k] + n
       /\ shares'[EscrowAddr] >= shares[EscrowAddr] - NoteShares[k] + n
       /\ usdc'[EscrowAddr] >= LedgerAfter[EscrowAddr] - 0
    <2>1. rsHeld \in Nat /\ shares[EscrowAddr] \in Nat
        BY CoreFacts DEF HeldInv
    <2>2. rsHeld' = rsHeld - NoteShares[k] + n
        BY <1>1, <1>2, <1>13, <2>1
    <2>3. shares'[EscrowAddr] >= shares[EscrowAddr] - NoteShares[k] + n
        BY <1>2, <1>6, <1>13, <2>1
    <2>4. usdc'[EscrowAddr] >= LedgerAfter[EscrowAddr] - 0
        BY <1>1, <1>4
    <2> QED BY <2>2, <2>3, <2>4
<1>16. UNCHANGED <<otherVars, positions, rescued, bookings, product>>
    BY DEF cdpVars, historyVars
<1>17. FinanceCore'
    <2>1. /\ notes'[k].accAtDeposit <= AccAfter
          /\ notes'[k].status = "Active" => notes'[k].buyer \in Buyers
          /\ NoteCredit(notes'[k], AccAfter) + Scaled(0) <= NoteWeight(AccAfter)[k]
          /\ 0 \in Nat
        BY <1>11, <1>13, <1>14, CoreFacts
    <2>2. /\ rsHeld' = rsHeld - NoteShares[k] + notes'[k].collateralShares
          /\ shares'[EscrowAddr] >= shares[EscrowAddr] - NoteShares[k] + notes'[k].collateralShares
        BY <1>11, <1>15
    <2> QED BY <1>4, <1>6, <1>9, <1>10, <1>15, <1>16, <2>1, <2>2, CoreFacts, NoteStepCore
<1>18. Accrues
    BY <1>6, <1>17, CoreFacts, HarvestAccrues DEF FinanceCore, Books
<1> QED BY <1>12, <1>17, <1>18

LEMMA PurchaseNoteStep ==
    ASSUME FinanceCore, RevenueShareAddr \in Accounts, product = "notes",
           NEW b \in Buyers, NEW id \in DOMAIN notes, PurchaseNote(b, id),
           UNCHANGED <<otherVars, cdpVars, product>>
    PROVE  FinanceCore' /\ Accrues /\ NotesSteady
<1> DEFINE note == notes[id]
           A == accUsdcPerRawShare
<1>1. /\ b # note.provider /\ CanMove(usdc, b, note.provider, note.purchasePrice)
      /\ usdc' = Moved(usdc, b, note.provider, note.purchasePrice)
      /\ notes' = [notes EXCEPT ![id].buyer = b, ![id].status = "Active"]
      /\ UNCHANGED <<now, ownershipVars, accountVars, accumulatorVars, harvestVars>>
    BY DEF PurchaseNote, Purchase
<1>2. /\ notes \in Seq(NoteType) /\ Len(notes) <= MaxNotes /\ note \in NoteType
      /\ id \in Slots /\ note.collateralShares \in Nat /\ note.accAtDeposit \in Nat
      /\ note.accAtDeposit <= A
    BY CoreFacts, NoteTypes DEF NotesOK
<1>3. /\ note.provider \in Accounts /\ note.provider \notin {EscrowAddr, RevenueShareAddr}
      /\ b \in Accounts /\ b \notin {EscrowAddr, RevenueShareAddr} /\ note.purchasePrice \in Nat
    <2>1. note.provider \in Sellers /\ note.purchasePrice \in Nat
        BY <1>2 DEF NoteType
    <2> QED BY <2>1, FinanceFacts
<1>4. /\ usdc' \in [Accounts -> Nat]
      /\ usdc'[EscrowAddr] >= usdc[EscrowAddr] /\ usdc'[RevenueShareAddr] >= usdc[RevenueShareAddr]
    <2>1. usdc[b] >= note.purchasePrice
        BY <1>1 DEF CanMove
    <2> QED BY <1>1, <1>3, <2>1, CoreFacts, MovedType
<1>5. ShareInv'
    BY <1>1, <1>4, CoreFacts, CoinsComeIn
<1>6. /\ A' = A /\ rsHeld' = rsHeld /\ shares' = shares /\ Claimable' = Claimable
    BY <1>1 DEF harvestVars, ownershipVars, accountVars, accumulatorVars, Claimable, ClaimableAt, Accrued
<1>7. /\ notes' = [notes EXCEPT ![id] = [[note EXCEPT !.buyer = b] EXCEPT !.status = "Active"]]
      /\ [[note EXCEPT !.buyer = b] EXCEPT !.status = "Active"] \in NoteType
    <2>1. notes' = [notes EXCEPT ![id] = [[note EXCEPT !.buyer = b] EXCEPT !.status = "Active"]]
        BY <1>1, <1>2
    <2> QED BY <1>2, <2>1 DEF NoteType
<1>8. /\ notes' \in Seq(NoteType) /\ Len(notes') = Len(notes) /\ DOMAIN notes' = DOMAIN notes
      /\ \A j \in DOMAIN notes \ {id} : notes'[j] = notes[j]
      /\ notes'[id] = [[note EXCEPT !.buyer = b] EXCEPT !.status = "Active"]
    BY <1>2, <1>7
<1>9. /\ notes'[id].collateralShares = note.collateralShares
      /\ notes'[id].accAtDeposit = note.accAtDeposit /\ notes'[id].buyer = b
    BY <1>2, <1>8 DEF NoteType
<1>10. NotesSteady
    BY <1>8, <1>9 DEF NotesSteady
<1>11. /\ NoteShares[id] = note.collateralShares
       /\ NoteWeight(A)[id] = NoteCredit(note, A)
       /\ NoteCredit(notes'[id], A) = NoteCredit(note, A) /\ NoteCredit(note, A) \in Nat
    BY <1>2, <1>9, CoreFacts, NoteTypes DEF NoteShares, NoteWeight, NoteCredit
<1>12. UNCHANGED <<otherVars, positions, rescued, bookings, product>>
    BY DEF cdpVars, historyVars
<1> HIDE DEF note, A
<1>13. /\ rsHeld' = rsHeld - NoteShares[id] + notes'[id].collateralShares
       /\ shares'[EscrowAddr] >= shares[EscrowAddr] - NoteShares[id] + notes'[id].collateralShares
       /\ usdc'[EscrowAddr] >= usdc[EscrowAddr] - 0
    <2>1. rsHeld \in Nat /\ shares[EscrowAddr] \in Nat /\ usdc[EscrowAddr] \in Nat
        BY CoreFacts DEF HeldInv
    <2> QED BY <1>2, <1>4, <1>6, <1>9, <1>11, <2>1
<1>14. NoteCredit(notes'[id], A) + Scaled(0) <= NoteWeight(A)[id]
    <2>1. Scaled(0) = 0
        BY FinanceFacts DEF Scaled
    <2> QED BY <1>11, <2>1
<1>15. FinanceCore'
    <2>1. /\ notes'[id].accAtDeposit <= A /\ 0 \in Nat /\ id \in DOMAIN notes'
          /\ notes'[id].status = "Active" => notes'[id].buyer \in Buyers
          /\ Len(notes') <= MaxNotes
          /\ \A j \in Slots \ {id} : /\ j \in DOMAIN notes' <=> j \in DOMAIN notes
                                     /\ j \in DOMAIN notes => notes'[j] = notes[j]
        BY <1>2, <1>8, <1>9
    <2>2. A \in Nat /\ A <= A /\ Covers(A, usdc[EscrowAddr]) /\ accUsdcPerRawShare <= A
          /\ accUsdcPerRawShare' = A
        BY <1>6, CoreFacts DEF A
    <2> QED BY <1>2, <1>5, <1>8, <1>12, <1>13, <1>14, <2>1, <2>2, CoreFacts, NoteStepCore
<1>16. Accrues
    <2>1. Claimable[EscrowAddr] \in Nat /\ rsHeld \in Nat
        BY CoreFacts, AccumulatorRises DEF HeldInv
    <2>2. /\ Claimable[EscrowAddr]' >= Claimable[EscrowAddr] /\ rsHeld' <= rsHeld
          /\ accUsdcPerRawShare' = accUsdcPerRawShare
        BY <1>6, <2>1 DEF A
    <2> QED BY <1>15, <2>2, CoreFacts, AccruesSlowly DEF FinanceCore, Books
<1> QED BY <1>10, <1>15, <1>16

\* A note closes: its shares are gone, and at most what it earned is paid.
LEMMA NoteClosed ==
    ASSUME FinanceCore, ShareInv', product = "notes", NEW id \in DOMAIN notes,
           NEW status \in {"Settled", "Defaulted", "Expired"}, Closed(id, status),
           NEW acc \in Nat, accUsdcPerRawShare <= acc, accUsdcPerRawShare' = acc,
           NEW coins \in Nat, Covers(acc, coins),
           NEW paid \in Nat, Scaled(paid) <= NoteCredit(notes[id], acc),
           usdc'[EscrowAddr] >= coins - paid,
           shares'[EscrowAddr] = shares[EscrowAddr] - notes[id].collateralShares,
           UNCHANGED <<otherVars, cdpVars, product>>
    PROVE  FinanceCore' /\ NotesSteady /\ rsHeld' <= rsHeld
<1> DEFINE note == notes[id]
           closed == [[note EXCEPT !.collateralShares = 0] EXCEPT !.status = status]
<1>1. /\ notes' = [notes EXCEPT ![id].collateralShares = 0, ![id].status = status]
      /\ rsHeld' = rsHeld - note.collateralShares
    BY DEF Closed
<1>2. /\ notes \in Seq(NoteType) /\ Len(notes) <= MaxNotes /\ note \in NoteType
      /\ id \in Slots /\ note.collateralShares \in Nat /\ note.accAtDeposit \in Nat
      /\ note.accAtDeposit <= accUsdcPerRawShare
      /\ NoteCredit(note, acc) \in Nat
    BY CoreFacts, NoteTypes DEF NotesOK
<1>3. notes' = [notes EXCEPT ![id] = closed] /\ closed \in NoteType
    <2>1. notes' = [notes EXCEPT ![id] = closed]
        BY <1>1, <1>2
    <2> QED BY <1>2, <2>1 DEF NoteType
<1>4. closed.accAtDeposit = note.accAtDeposit /\ closed.collateralShares = 0 /\ closed.status = status
    BY <1>2 DEF NoteType
<1> HIDE DEF closed
<1>5. /\ notes' \in Seq(NoteType) /\ Len(notes') = Len(notes) /\ DOMAIN notes' = DOMAIN notes
      /\ \A j \in DOMAIN notes \ {id} : notes'[j] = notes[j]
      /\ notes'[id] = closed
    BY <1>2, <1>3
<1>6. NotesSteady
    BY <1>4, <1>5 DEF NotesSteady
<1>7. /\ NoteShares[id] = note.collateralShares /\ NoteWeight(acc)[id] = NoteCredit(note, acc)
    BY <1>2 DEF NoteShares, NoteWeight
<1> HIDE DEF note
<1>8. NoteCredit(notes'[id], acc) + Scaled(paid) <= NoteWeight(acc)[id]
    <2>1. acc - closed.accAtDeposit \in Int
        BY <1>2, <1>4
    <2>2. NoteCredit(closed, acc) = 0
        BY <1>4, <2>1 DEF NoteCredit
    <2>3. Scaled(paid) \in Nat /\ Scaled(paid) <= NoteCredit(note, acc)
        BY ScaledAdds DEF note
    <2> QED BY <1>5, <1>7, <2>2, <2>3
<1>9. /\ rsHeld' = rsHeld - NoteShares[id] + notes'[id].collateralShares
      /\ shares'[EscrowAddr] >= shares[EscrowAddr] - NoteShares[id] + notes'[id].collateralShares
      /\ rsHeld' <= rsHeld
    <2>1. rsHeld \in Nat /\ shares[EscrowAddr] \in Nat
        BY CoreFacts DEF HeldInv
    <2>2. shares'[EscrowAddr] = shares[EscrowAddr] - note.collateralShares
        BY DEF note
    <2> QED BY <1>1, <1>2, <1>4, <1>5, <1>7, <2>1, <2>2
<1>10. UNCHANGED <<otherVars, positions, rescued, bookings, product>>
    BY DEF cdpVars, historyVars
<1>11. FinanceCore'
    <2>1. /\ notes'[id].accAtDeposit <= acc /\ id \in DOMAIN notes'
          /\ notes'[id].status = "Active" => notes'[id].buyer \in Buyers
          /\ Len(notes') <= MaxNotes
          /\ \A j \in Slots \ {id} : /\ j \in DOMAIN notes' <=> j \in DOMAIN notes
                                     /\ j \in DOMAIN notes => notes'[j] = notes[j]
        <3>1. notes'[id].accAtDeposit <= acc
            <4>1. accUsdcPerRawShare \in Nat
                BY CoreFacts
            <4>2. notes'[id].accAtDeposit = note.accAtDeposit
                BY <1>4, <1>5
            <4> QED BY <1>2, <4>1, <4>2
        <3>2. notes'[id].status # "Active"
            BY <1>4, <1>5
        <3> QED BY <1>2, <1>5, <3>1, <3>2
    <2> QED BY <1>2, <1>5, <1>8, <1>9, <1>10, <2>1, CoreFacts, NoteStepCore
<1> QED BY <1>6, <1>9, <1>11

\* What a settlement pays out leaves the contract, and nobody else.
LEMMA PaidOutLedger ==
    ASSUME NEW ledger \in [Accounts -> Nat], NEW note, note.buyer \in Buyers,
           note.provider \in Sellers, note.faceValue \in Nat,
           NEW earned \in Nat, ledger[EscrowAddr] >= earned
    PROVE  /\ PaidOut(ledger, note, earned) \in [Accounts -> Nat]
           /\ PaidOut(ledger, note, earned)[EscrowAddr] = ledger[EscrowAddr] - earned
           /\ RevenueShareAddr \in Accounts =>
                  PaidOut(ledger, note, earned)[RevenueShareAddr] >= ledger[RevenueShareAddr]
<1> DEFINE toBuyer == ToBuyer(note, earned)
           buyer == note.buyer
           provider == note.provider
           left == earned - toBuyer
           mid == Moved(ledger, EscrowAddr, buyer, toBuyer)
           end == Moved(mid, EscrowAddr, provider, left)
<1>1. toBuyer \in Nat /\ left \in Nat /\ toBuyer <= earned /\ earned - toBuyer = left
    BY DEF ToBuyer
<1>2. /\ EscrowAddr \in Accounts /\ ledger[EscrowAddr] \in Nat /\ EscrowAddr # RevenueShareAddr
      /\ buyer \in Accounts /\ EscrowAddr # buyer
      /\ provider \in Accounts /\ EscrowAddr # provider
    <2>1. EscrowAddr \in Accounts
        BY FinanceFacts
    <2> QED BY <2>1, FinanceFacts
<1>3. PaidOut(ledger, note, earned) = end
    BY DEF PaidOut
<1> HIDE DEF toBuyer, buyer, provider, left, mid, end
<1>4. /\ mid \in [Accounts -> Nat] /\ mid[EscrowAddr] = ledger[EscrowAddr] - toBuyer
      /\ \A a \in Accounts \ {EscrowAddr} : mid[a] >= ledger[a]
    <2>1. ledger[EscrowAddr] >= toBuyer
        BY <1>1, <1>2
    <2> QED BY <1>1, <1>2, <2>1, MovedType DEF mid
<1>5. /\ end \in [Accounts -> Nat] /\ end[EscrowAddr] = mid[EscrowAddr] - left
      /\ \A a \in Accounts \ {EscrowAddr} : end[a] >= mid[a]
    <2>1. mid[EscrowAddr] >= left
        BY <1>1, <1>2, <1>4
    <2> QED BY <1>1, <1>2, <1>4, <2>1, MovedType DEF end
<1>6. end[EscrowAddr] = ledger[EscrowAddr] - earned
    BY <1>1, <1>2, <1>4, <1>5
<1>7. ASSUME RevenueShareAddr \in Accounts
      PROVE  end[RevenueShareAddr] >= ledger[RevenueShareAddr]
    <2>1. /\ RevenueShareAddr \in Accounts \ {EscrowAddr}
          /\ mid[RevenueShareAddr] >= ledger[RevenueShareAddr]
          /\ end[RevenueShareAddr] >= mid[RevenueShareAddr]
        BY <1>2, <1>4, <1>5, <1>7
    <2>2. /\ ledger[RevenueShareAddr] \in Nat /\ mid[RevenueShareAddr] \in Nat
          /\ end[RevenueShareAddr] \in Nat
        BY <1>4, <1>5, <1>7
    <2> QED BY <2>1, <2>2
<1> QED BY <1>3, <1>5, <1>6, <1>7

LEMMA SettleStep ==
    ASSUME FinanceCore, RevenueShareAddr \in Accounts, product = "notes",
           NEW id \in DOMAIN notes, Settle(id), UNCHANGED <<otherVars, cdpVars, product>>
    PROVE  FinanceCore' /\ Accrues /\ NotesSteady
<1> DEFINE note == notes[id]
           earned == NoteEarned(id)
           coins == LedgerAfter[EscrowAddr]
           status == Outcome(note, earned)
<1>1. /\ note.status = "Active" /\ coins >= earned
      /\ usdc' = PaidOut(LedgerAfter, note, earned)
      /\ HarvestAndSend(EscrowAddr, note.provider, note.collateralShares)
      /\ Closed(id, status)
    BY DEF Settle, Expired
<1>2. /\ note \in NoteType /\ note.collateralShares \in Nat /\ note.faceValue \in Nat
      /\ note.provider \in Sellers /\ note.buyer \in Buyers /\ NoteCredit(note, AccAfter) \in Nat
    <2>1. note \in NoteType /\ NoteCredit(note, AccAfter) \in Nat
        BY CoreFacts, NoteTypes
    <2>2. note.buyer \in Buyers
        BY <1>1, CoreFacts DEF NotesOK
    <2> QED BY <2>1, <2>2 DEF NoteType
<1>3. /\ note.provider \in Holders /\ note.provider \in Accounts /\ note.provider # EscrowAddr
      /\ EscrowAddr # note.provider /\ EscrowAddr # note.buyer
      /\ note.buyer \in Accounts /\ RevenueShareAddr # EscrowAddr
      /\ RevenueShareAddr \notin {note.buyer, note.provider}
    BY <1>2, FinanceFacts
<1>4. usdc[RevenueShareAddr] >= Collected
    BY <1>1 DEF HarvestAndSend, HarvestThenMove, CanMove
<1>5. /\ LedgerAfter \in [Accounts -> Nat] /\ coins \in Nat /\ Covers(AccAfter, coins)
    BY <1>4, CoreFacts, HarvestCollects, HarvestCovers
<1>6. /\ earned \in Nat /\ Scaled(earned) <= NoteCredit(note, AccAfter)
    <2>1. earned = NoteCredit(note, AccAfter) \div PRECISION
        BY DEF NoteEarned, EarnedAt, NoteCredit
    <2> QED BY <1>2, <2>1, FinanceFacts, FloorDivision DEF Scaled
<1> HIDE DEF earned
<1> HIDE DEF coins
<1>7. /\ usdc' \in [Accounts -> Nat] /\ usdc'[EscrowAddr] = coins - earned
      /\ usdc'[RevenueShareAddr] >= LedgerAfter[RevenueShareAddr]
    BY <1>1, <1>2, <1>5, <1>6, PaidOutLedger DEF coins
<1>8. /\ ShareInv' /\ accUsdcPerRawShare' = AccAfter
       /\ shares'[EscrowAddr] = shares[EscrowAddr] - note.collateralShares
    <2>1. ShareInv /\ HeldInv /\ EscrowAddr \in Holders
        BY CoreFacts
    <2> QED BY <1>1, <1>2, <1>3, <1>7, <2>1, SentAfterHarvest
<1>9. usdc'[EscrowAddr] >= coins - earned
    BY <1>5, <1>6, <1>7
<1>10. status \in {"Settled", "Defaulted", "Expired"}
    BY DEF Outcome
<1> HIDE DEF status
<1>11. FinanceCore' /\ NotesSteady
    BY <1>1, <1>5, <1>6, <1>8, <1>9, <1>10, CoreFacts, NoteClosed
<1>12. Accrues
    BY <1>8, <1>11, CoreFacts, HarvestAccrues DEF FinanceCore, Books
<1> QED BY <1>11, <1>12

LEMMA ReclaimStep ==
    ASSUME FinanceCore, RevenueShareAddr \in Accounts, product = "notes",
           NEW id \in DOMAIN notes, ReclaimExpired(id), UNCHANGED <<otherVars, cdpVars, product>>
    PROVE  FinanceCore' /\ Accrues /\ NotesSteady
<1> DEFINE note == notes[id]
           A == accUsdcPerRawShare
<1>1. /\ SendUnharvested(EscrowAddr, note.provider, note.collateralShares)
      /\ Closed(id, "Expired")
    BY DEF ReclaimExpired
<1>2. /\ note \in NoteType /\ note.collateralShares \in Nat /\ note.provider \in Sellers
      /\ NoteCredit(note, A) \in Nat
    <2>1. note \in NoteType /\ NoteCredit(note, A) \in Nat
        BY CoreFacts, NoteTypes
    <2> QED BY <2>1 DEF NoteType
<1>3. note.provider \in Holders /\ EscrowAddr # note.provider
    BY <1>2, FinanceFacts
<1>4. /\ ShareInv' /\ Claimable' = Claimable /\ usdc' = usdc /\ A' = A
      /\ shares'[EscrowAddr] = shares[EscrowAddr] - note.collateralShares
    BY <1>1, <1>2, <1>3, CoreFacts, SentUnharvested
<1>5. Scaled(0) <= NoteCredit(note, A) /\ usdc'[EscrowAddr] >= usdc[EscrowAddr] - 0 /\ 0 \in Nat
    <2>1. Scaled(0) = 0
        BY FinanceFacts DEF Scaled
    <2> QED BY <1>2, <1>4, <2>1, CoreFacts
<1>6. FinanceCore' /\ NotesSteady /\ rsHeld' <= rsHeld
    <2>1. "Expired" \in {"Settled", "Defaulted", "Expired"}
        OBVIOUS
    <2>2. /\ A \in Nat /\ accUsdcPerRawShare <= A /\ accUsdcPerRawShare' = A
          /\ Covers(A, usdc[EscrowAddr]) /\ usdc[EscrowAddr] \in Nat
        BY <1>4, CoreFacts
    <2>3. shares'[EscrowAddr] = shares[EscrowAddr] - notes[id].collateralShares
        BY <1>4
    <2>4. Scaled(0) <= NoteCredit(notes[id], A)
        BY <1>5
    <2> HIDE DEF A, note
    <2> QED BY <1>1, <1>4, <1>5, <2>1, <2>2, <2>3, <2>4, NoteClosed
<1>7. Accrues
    <2>1. Claimable[EscrowAddr] \in Nat
        BY CoreFacts, AccumulatorRises
    <2>2. Claimable[EscrowAddr]' >= Claimable[EscrowAddr]
        BY <1>4, <2>1
    <2> QED BY <1>4, <1>6, <2>2, CoreFacts, AccruesSlowly DEF FinanceCore, Books
<1> QED BY <1>6, <1>7

\* harvestRS, and the step that no note or position takes part in.
LEMMA HarvestOnlyStep ==
    ASSUME FinanceCore, RevenueShareAddr \in Accounts, HarvestOnly, usdc' = LedgerAfter,
           UNCHANGED <<notes, otherVars, rsHeld, rescued, bookings, product>>,
           positions' \in [Borrowers -> PositionType], product = "loans" \/ positions' = positions,
           \A u \in Borrowers : /\ positions'[u].rsShares = positions[u].rsShares
                                /\ positions'[u].rewardDebt = positions[u].rewardDebt
    PROVE  FinanceCore' /\ Accrues /\ accUsdcPerRawShare' = AccAfter
<1>1. /\ usdc[RevenueShareAddr] >= Collected /\ shares' = shares
      /\ accUsdcPerRawShare' = AccAfter
    BY DEF HarvestOnly, HarvestThenMove, CanMove
<1>2. /\ LedgerAfter \in [Accounts -> Nat] /\ LedgerAfter[EscrowAddr] \in Nat
      /\ LedgerAfter[RevenueShareAddr] = usdc[RevenueShareAddr] - Collected
      /\ Covers(AccAfter, LedgerAfter[EscrowAddr])
    BY <1>1, CoreFacts, HarvestCollects, HarvestCovers
<1>3. ShareInv'
    <2>1. /\ usdc' \in [Accounts -> Nat]
          /\ usdc'[RevenueShareAddr] >= usdc[RevenueShareAddr] - Collected
        <3>1. LedgerAfter[RevenueShareAddr] \in Nat
            BY <1>2
        <3> QED BY <1>2, <3>1
    <2>2. /\ ShareInv /\ shares \in [Holders -> Nat] /\ Total(shares) = Total(shares)
          /\ {} \in SUBSET Holders /\ \A h \in Holders \ {} : shares[h] = shares[h]
        BY CoreFacts
    <2>3. HarvestThenMove(shares, {})
        BY DEF HarvestOnly
    <2> QED BY <2>1, <2>2, <2>3, HarvestKeepsShares
<1>4. FinanceCore'
    <2>1. ProductOK'
        BY DEF FinanceCore, Books, ProductOK, otherVars
    <2>2. /\ usdc'[EscrowAddr] + rescued' >= LedgerAfter[EscrowAddr] + rescued
          /\ shares'[EscrowAddr] >= shares[EscrowAddr]
        BY <1>1, <1>2, CoreFacts
    <2> QED BY <1>1, <1>2, <1>3, <2>1, <2>2, CoreFacts, KeptStepCore
<1>5. Accrues
    BY <1>1, <1>4, CoreFacts, HarvestAccrues DEF FinanceCore, Books
<1> QED BY <1>1, <1>4, <1>5

-----------------------------------------------------------------------------
(***************************************************************************)
(* The loans.  What a debt is allowed to be is judged at the accumulator a *)
(* harvest would leave, which every later one will have reached.           *)
(***************************************************************************)
DebtSafe(position, acc) ==
    position.debt > 0 => position.debt * BP_SCALE < (EarnedBy(position, acc) + 1) * LTV_BP

DebtsSafe == \A u \in Borrowers : DebtSafe(positions'[u], AccAfter)

LEMMA OthersSafe ==
    ASSUME FinanceInv, NEW u \in Borrowers, NEW p \in PositionType,
           positions' = [positions EXCEPT ![u] = p], DebtSafe(p, AccAfter)
    PROVE  DebtsSafe
<1>1. ASSUME NEW v \in Borrowers
      PROVE  DebtSafe(positions'[v], AccAfter)
    <2>1. positions'[v] = IF v = u THEN p ELSE positions[v]
        BY CoreFacts DEF FinanceInv
    <2>2. DebtSafe(positions[v], AccAfter)
        BY DEF FinanceInv, DebtWithinLTV, CollateralValue, DebtSafe
    <2> QED BY <2>1, <2>2
<1> QED BY <1>1 DEF DebtsSafe

LEMMA DebtSafeLater ==
    ASSUME NEW p \in PositionType, NEW acc1 \in Nat, NEW acc2 \in Nat, DebtSafe(p, acc1),
           acc1 <= acc2 \/ p.rsShares = 0
    PROVE  DebtSafe(p, acc2)
<1> DEFINE e == EarnedBy(p, acc1) + 1
           f == EarnedBy(p, acc2) + 1
           d == p.debt * BP_SCALE
<1>1. e \in Int /\ f \in Int /\ e <= f
    BY EarnedGrows
<1>2. LTV_BP \in Nat /\ d \in Nat
    BY FinanceFacts DEF PositionType
<1>3. p.debt > 0 => d < e * LTV_BP
    BY DEF DebtSafe
<1> HIDE DEF e, f, d
<1>4. f - e \in Nat /\ f = e + (f - e)
    BY <1>1
<1>5. (f - e) * LTV_BP \in Nat /\ f * LTV_BP = e * LTV_BP + (f - e) * LTV_BP /\ e * LTV_BP \in Int
    BY <1>1, <1>2, <1>4
<1>6. p.debt > 0 => d < f * LTV_BP
    BY <1>2, <1>3, <1>5
<1> QED BY <1>6 DEF d, f, DebtSafe

\* While no shares are held, no note and no position has any.
LEMMA NoneHeld ==
    FinanceCore /\ rsHeld = 0 =>
        /\ \A u \in Borrowers : positions[u].rsShares = 0
        /\ \A id \in DOMAIN notes : notes[id].collateralShares = 0
<1> SUFFICES ASSUME FinanceCore, rsHeld = 0
             PROVE  /\ \A u \in Borrowers : positions[u].rsShares = 0
                    /\ \A id \in DOMAIN notes : notes[id].collateralShares = 0
    OBVIOUS
<1>1. /\ accUsdcPerRawShare \in Nat /\ accUsdcPerRawShare <= accUsdcPerRawShare
      /\ IsFiniteSet(Slots) /\ IsFiniteSet(Borrowers) /\ NotesOK /\ PositionsOK
      /\ Total(NoteShares) + Total(LoanShares) = 0
    BY CoreFacts, FinanceFacts DEF FinanceCore, Books, HeldInv
<1>2. /\ NoteShares \in [Slots -> Nat] /\ LoanShares \in [Borrowers -> Nat]
      /\ \A i \in DOMAIN notes : i \in Slots
    BY <1>1, NoteTypes, LoanTypes
<1>3. Total(NoteShares) = 0 /\ Total(LoanShares) = 0
    <2>1. Total(NoteShares) \in Nat /\ Total(LoanShares) \in Nat
        BY <1>1, <1>2, CoinsFinite
    <2> QED BY <1>1, <2>1
<1>4. ASSUME NEW u \in Borrowers PROVE positions[u].rsShares = 0
    <2>1. LoanShares[u] \in Nat /\ LoanShares[u] <= 0
        BY <1>1, <1>2, <1>3, BalanceSet
    <2> QED BY <2>1 DEF LoanShares
<1>5. ASSUME NEW id \in DOMAIN notes PROVE notes[id].collateralShares = 0
    <2>1. id \in Slots /\ NoteShares[id] \in Nat /\ NoteShares[id] <= 0
        BY <1>1, <1>2, <1>3, BalanceSet
    <2> QED BY <2>1 DEF NoteShares
<1> QED BY <1>4, <1>5

LEMMA NoneHeldNext ==
    (FinanceCore /\ rsHeld = 0)' =>
        (/\ \A u \in Borrowers : positions[u].rsShares = 0
         /\ \A id \in DOMAIN notes : notes[id].collateralShares = 0)'
    BY NoneHeld, PTL

LEMMA DebtsStaySafe ==
    ASSUME FinanceInv, FinanceCore', Accrues, DebtsSafe
    PROVE  DebtWithinLTV'
<1>1. AccAfter \in Nat
    BY CoreFacts DEF FinanceInv
<1>2. AccAfter' \in Nat /\ positions' \in [Borrowers -> PositionType]
    BY NextAccumulatorRises DEF FinanceCore, Books, HeldInv, PositionsOK
<1>3. ASSUME NEW u \in Borrowers
      PROVE  DebtSafe(positions'[u], AccAfter')
    <2>1. positions'[u] \in PositionType /\ DebtSafe(positions'[u], AccAfter)
        BY <1>2 DEF DebtsSafe
    <2>2. CASE AccAfter' >= AccAfter
        BY <1>1, <1>2, <2>1, <2>2, DebtSafeLater
    <2>3. CASE rsHeld' = 0
        <3>1. positions'[u].rsShares = 0
            BY <2>3, NoneHeldNext
        <3> QED BY <1>1, <1>2, <2>1, <3>1, DebtSafeLater
    <2> QED BY <2>2, <2>3 DEF Accrues
<1> QED BY <1>3 DEF DebtWithinLTV, CollateralValue, DebtSafe

LEMMA MintedDebt ==
    ASSUME NEW p \in PositionType, NEW acc \in Nat, LoanCredit(p, acc) >= 0, NEW m \in Nat,
           WithDebt(p, m).debt <= (EarnedBy(p, acc) * LTV_BP) \div BP_SCALE
    PROVE  /\ WithDebt(p, m) \in PositionType
           /\ WithDebt(p, m).rsShares = p.rsShares /\ WithDebt(p, m).rewardDebt = p.rewardDebt
           /\ LoanCredit(WithDebt(p, m), acc) = LoanCredit(p, acc)
           /\ DebtSafe(WithDebt(p, m), acc)
<1> DEFINE e == EarnedBy(p, acc)
           fee == MintFee(m)
           d == p.debt + m - fee
           most == (e * LTV_BP) \div BP_SCALE
<1>1. /\ p.debt \in Nat /\ p.rsShares \in Nat /\ p.rewardDebt \in Nat
      /\ BP_SCALE \in Nat \ {0} /\ LTV_BP \in Nat \ {0} /\ MINT_FEE_BP \in 0 .. BP_SCALE
    BY FinanceFacts DEF PositionType
<1>2. fee \in Nat /\ fee <= m
    <2>1. /\ MINT_FEE_BP * m \in Nat /\ BP_SCALE * m \in Nat /\ MINT_FEE_BP * m <= BP_SCALE * m
          /\ m * MINT_FEE_BP = MINT_FEE_BP * m
        BY <1>1, ProductOrder
    <2>2. fee \in Nat /\ BP_SCALE * fee <= m * MINT_FEE_BP
        BY <1>1, <2>1, FloorDivision DEF MintFee
    <2> HIDE DEF fee
    <2>3. BP_SCALE * fee <= BP_SCALE * m
        BY <1>1, <2>1, <2>2
    <2>4. ASSUME fee > m
          PROVE  FALSE
        <3>1. (m + 1) * BP_SCALE <= fee * BP_SCALE /\ (m + 1) * BP_SCALE \in Nat /\ fee * BP_SCALE \in Nat
            BY <1>1, <2>2, <2>4, ProductOrder
        <3>2. /\ (m + 1) * BP_SCALE = BP_SCALE * m + BP_SCALE
              /\ fee * BP_SCALE = BP_SCALE * fee
            BY <1>1, <2>2
        <3> QED BY <1>1, <2>1, <2>3, <3>1, <3>2
    <2> QED BY <2>2, <2>4
<1> HIDE DEF fee
<1>3. /\ WithDebt(p, m) = [p EXCEPT !.debt = d] /\ d \in Nat
    BY <1>1, <1>2 DEF WithDebt, fee
<1>4. /\ WithDebt(p, m) \in PositionType /\ WithDebt(p, m).debt = d
      /\ WithDebt(p, m).rsShares = p.rsShares /\ WithDebt(p, m).rewardDebt = p.rewardDebt
    BY <1>3 DEF PositionType
<1>5. LoanCredit(WithDebt(p, m), acc) = LoanCredit(p, acc) /\ EarnedBy(WithDebt(p, m), acc) = e
    BY <1>4 DEF LoanCredit, EarnedBy
<1>6. d * BP_SCALE < (e + 1) * LTV_BP
    <2>1. e \in Nat
        BY EarnedCovered
    <2>2. e * LTV_BP \in Nat
        BY <1>1, <2>1
    <2>3. most \in Nat /\ most * BP_SCALE <= e * LTV_BP
        BY <1>1, <2>2, FloorNear
    <2>4. d <= most
        BY <1>4
    <2> HIDE DEF d, most, e
    <2>5. d * BP_SCALE <= most * BP_SCALE /\ d * BP_SCALE \in Nat /\ most * BP_SCALE \in Nat
        BY <1>1, <1>3, <2>3, <2>4, ProductOrder
    <2>6. (e + 1) * LTV_BP = e * LTV_BP + LTV_BP
        BY <1>1, <2>1
    <2> QED BY <1>1, <2>2, <2>3, <2>5, <2>6
<1> HIDE DEF d, e
<1> QED BY <1>4, <1>5, <1>6 DEF DebtSafe

(***************************************************************************)
(* A position that is booked anew at an accumulator, and has earned no     *)
(* more than before, gains less than a coin by the rounding.               *)
(***************************************************************************)
LEMMA Rebooked ==
    ASSUME NEW p \in PositionType, NEW q \in PositionType, NEW acc \in Nat,
           LoanCredit(p, acc) >= 0, EarnedBy(q, acc) \in 0 .. EarnedBy(p, acc)
    PROVE  LoanCredit(q, acc) >= 0 /\ LoanCredit(q, acc) <= LoanCredit(p, acc) + Scaled(1)
<1> DEFINE s == q.rsShares
           d == q.rewardDebt
           g == Gross(acc, s)
           e == EarnedBy(q, acc)
<1>1. PRECISION \in Nat \ {0} /\ s \in Nat /\ d \in Nat
    BY FinanceFacts DEF PositionType
<1>2. /\ g \in Nat /\ acc * s \in Nat /\ PRECISION * g \in Nat
      /\ PRECISION * g <= acc * s /\ acc * s < PRECISION * g + PRECISION
    BY <1>1, GrossBounds
<1>3. e = g - d /\ LoanCredit(q, acc) = acc * s - PRECISION * d
    BY DEF EarnedBy, LoanCredit, Scaled
<1>4. /\ EarnedBy(p, acc) \in Nat /\ Scaled(EarnedBy(p, acc)) \in Nat
      /\ Scaled(EarnedBy(p, acc)) <= LoanCredit(p, acc) /\ LoanCredit(p, acc) \in Nat
    BY EarnedCovered
<1>5. e \in Nat /\ Scaled(e) \in Nat /\ Scaled(e) <= Scaled(EarnedBy(p, acc))
    <2>1. e \in Nat /\ e <= EarnedBy(p, acc)
        BY <1>4
    <2> HIDE DEF e
    <2> QED BY <1>4, <2>1, ScaledAdds
<1>6. Scaled(e) = PRECISION * e /\ Scaled(1) = PRECISION
    BY <1>1 DEF Scaled
<1> HIDE DEF s, d, g, e
<1>7. PRECISION * e = PRECISION * g - PRECISION * d /\ PRECISION * d \in Nat
    BY <1>1, <1>2, <1>3
<1> QED BY <1>1, <1>2, <1>3, <1>4, <1>5, <1>6, <1>7

\* A step with a harvest in which shares move in or out of the position of u.
LEMMA LoanHarvestStep ==
    ASSUME FinanceInv, RevenueShareAddr \in Accounts, product = "loans",
           NEW u \in Borrowers, NEW p \in PositionType, NEW n \in Nat,
           \/ /\ HarvestAndSend(u, EscrowAddr, n)
              /\ rsHeld' = rsHeld + n /\ p.rsShares = positions[u].rsShares + n
           \/ /\ HarvestAndSend(EscrowAddr, u, n)
              /\ rsHeld' = rsHeld - n /\ p.rsShares = positions[u].rsShares - n,
           positions' = [positions EXCEPT ![u] = p], LoanCredit(p, AccAfter) >= 0,
           usdc' \in [Accounts -> Nat],
           usdc'[RevenueShareAddr] >= LedgerAfter[RevenueShareAddr],
           NEW paid \in Nat, NEW booked \in Nat, usdc'[EscrowAddr] >= LedgerAfter[EscrowAddr] - paid,
           LoanCredit(p, AccAfter) + Scaled(paid)
               <= LoanCredit(positions[u], AccAfter) + Scaled(booked),
           bookings' = bookings + booked, UNCHANGED <<notes, otherVars, rescued, product>>
    PROVE  FinanceCore' /\ Accrues
<1>1. /\ u \in Holders /\ u # EscrowAddr /\ EscrowAddr # u /\ EscrowAddr \in Holders
      /\ FinanceCore /\ ShareInv /\ HeldInv
    BY FinanceFacts, CoreFacts DEF FinanceInv
<1>2. usdc[RevenueShareAddr] >= Collected
    BY DEF HarvestAndSend, HarvestThenMove, CanMove
<1>3. /\ LedgerAfter \in [Accounts -> Nat] /\ LedgerAfter[EscrowAddr] \in Nat
      /\ Covers(AccAfter, LedgerAfter[EscrowAddr])
    BY <1>1, <1>2, CoreFacts, HarvestCollects, HarvestCovers
<1>4. /\ ShareInv' /\ accUsdcPerRawShare' = AccAfter
      /\ shares'[EscrowAddr] = shares[EscrowAddr] - positions[u].rsShares + p.rsShares
      /\ rsHeld' = rsHeld - positions[u].rsShares + p.rsShares
    <2>1. /\ rsHeld \in Nat /\ shares[EscrowAddr] \in Nat
          /\ positions[u].rsShares \in Nat /\ p.rsShares \in Nat
        BY <1>1, CoreFacts DEF HeldInv, PositionType
    <2>2. CASE /\ HarvestAndSend(u, EscrowAddr, n)
               /\ rsHeld' = rsHeld + n /\ p.rsShares = positions[u].rsShares + n
        <3>1. /\ ShareInv' /\ accUsdcPerRawShare' = AccAfter
              /\ shares'[EscrowAddr] = shares[EscrowAddr] + n
            BY <1>1, <2>2, SentAfterHarvest
        <3> QED BY <2>1, <2>2, <3>1
    <2>3. CASE /\ HarvestAndSend(EscrowAddr, u, n)
               /\ rsHeld' = rsHeld - n /\ p.rsShares = positions[u].rsShares - n
        <3>1. /\ ShareInv' /\ accUsdcPerRawShare' = AccAfter
              /\ shares'[EscrowAddr] = shares[EscrowAddr] - n
            BY <1>1, <2>3, SentAfterHarvest
        <3> QED BY <2>1, <2>3, <3>1
    <2> QED BY <2>2, <2>3
<1>5. LoanWeight(AccAfter)[u] = LoanCredit(positions[u], AccAfter)
    BY DEF LoanWeight
<1>6. FinanceCore'
    <2>1. shares'[EscrowAddr] >= shares[EscrowAddr] - positions[u].rsShares + p.rsShares
        <3>1. shares[EscrowAddr] \in Nat /\ positions[u].rsShares \in Nat /\ p.rsShares \in Nat
            BY <1>1, CoreFacts DEF PositionType
        <3> QED BY <1>4, <3>1
    <2>2. LoanCredit(p, AccAfter) + Scaled(paid) <= LoanWeight(AccAfter)[u] + Scaled(booked)
        BY <1>5
    <2> QED BY <1>1, <1>3, <1>4, <2>1, <2>2, CoreFacts, LoanStepCore
<1>7. Accrues
    BY <1>1, <1>4, <1>6, HarvestAccrues DEF FinanceCore, Books
<1> QED BY <1>6, <1>7

\* So do deposits and removals: all that is harvested stays.
LEMMA BookedStep ==
    ASSUME FinanceInv, RevenueShareAddr \in Accounts, product = "loans",
           NEW u \in Borrowers, NEW p \in PositionType, NEW q \in PositionType, NEW n \in Nat,
           \/ /\ HarvestAndSend(u, EscrowAddr, n)
              /\ rsHeld' = rsHeld + n /\ p.rsShares = positions[u].rsShares + n
           \/ /\ HarvestAndSend(EscrowAddr, u, n)
              /\ rsHeld' = rsHeld - n /\ p.rsShares = positions[u].rsShares - n,
           usdc' = LedgerAfter, positions' = [positions EXCEPT ![u] = q],
           EarnedBy(p, AccAfter) \in 0 .. EarnedBy(positions[u], AccAfter),
           q.rsShares = p.rsShares, q.rewardDebt = p.rewardDebt,
           bookings' = bookings + 1, UNCHANGED <<notes, otherVars, rescued, product>>
    PROVE  FinanceCore' /\ Accrues
<1>1. /\ FinanceCore /\ AccAfter \in Nat /\ positions[u] \in PositionType
      /\ LoanCredit(positions[u], AccAfter) \in Nat
    BY CoreFacts, LoanTypes DEF FinanceInv
<1>2. /\ LoanCredit(q, AccAfter) = LoanCredit(p, AccAfter)
      /\ LoanCredit(p, AccAfter) >= 0
      /\ LoanCredit(p, AccAfter) <= LoanCredit(positions[u], AccAfter) + Scaled(1)
    BY <1>1, Rebooked DEF LoanCredit
<1>3. usdc[RevenueShareAddr] >= Collected
    BY DEF HarvestAndSend, HarvestThenMove, CanMove
<1>4. /\ LedgerAfter \in [Accounts -> Nat] /\ EscrowAddr \in Accounts
      /\ LedgerAfter[EscrowAddr] \in Nat /\ LedgerAfter[RevenueShareAddr] \in Nat
    BY <1>1, <1>3, CoreFacts, HarvestCollects
<1>5. /\ usdc' \in [Accounts -> Nat] /\ usdc'[RevenueShareAddr] >= LedgerAfter[RevenueShareAddr]
      /\ usdc'[EscrowAddr] >= LedgerAfter[EscrowAddr] - 0
    BY <1>4
<1>6. /\ LoanCredit(q, AccAfter) + Scaled(0) <= LoanCredit(positions[u], AccAfter) + Scaled(1)
      /\ LoanCredit(q, AccAfter) >= 0 /\ 0 \in Nat /\ 1 \in Nat
    <2>1. Scaled(0) = 0 /\ Scaled(1) \in Nat
        BY FinanceFacts DEF Scaled
    <2>2. LoanCredit(p, AccAfter) \in Int
        BY <1>1, FinanceFacts DEF LoanCredit, Scaled, PositionType
    <2> QED BY <1>1, <1>2, <2>1, <2>2
<1>7. \/ /\ HarvestAndSend(u, EscrowAddr, n)
         /\ rsHeld' = rsHeld + n /\ q.rsShares = positions[u].rsShares + n
      \/ /\ HarvestAndSend(EscrowAddr, u, n)
         /\ rsHeld' = rsHeld - n /\ q.rsShares = positions[u].rsShares - n
    OBVIOUS
<1> QED BY <1>5, <1>6, <1>7, LoanHarvestStep

LEMMA LoanFacts ==
    ASSUME FinanceInv, NEW u \in Borrowers
    PROVE  /\ positions[u] \in PositionType
           /\ positions[u].rsShares \in Nat /\ positions[u].debt \in Nat
           /\ positions[u].rewardDebt \in Nat
           /\ LoanCredit(positions[u], AccAfter) >= 0
           /\ LoanCredit(positions[u], AccAfter) \in Nat
           /\ EarnedBy(positions[u], AccAfter) \in Nat
           /\ Scaled(EarnedBy(positions[u], AccAfter)) <= LoanCredit(positions[u], AccAfter)
           /\ DebtSafe(positions[u], AccAfter)
<1>1. /\ positions[u] \in PositionType /\ AccAfter \in Nat
      /\ LoanCredit(positions[u], AccAfter) \in Nat
    BY CoreFacts, LoanTypes DEF FinanceInv
<1>2. DebtSafe(positions[u], AccAfter)
    BY DEF FinanceInv, DebtWithinLTV, CollateralValue, DebtSafe
<1>3. LoanCredit(positions[u], AccAfter) >= 0
    BY <1>1
<1>4. /\ EarnedBy(positions[u], AccAfter) \in Nat
      /\ Scaled(EarnedBy(positions[u], AccAfter)) <= LoanCredit(positions[u], AccAfter)
    BY <1>1, <1>3, EarnedCovered
<1> QED BY <1>1, <1>2, <1>3, <1>4 DEF PositionType

LEMMA OpenStep ==
    ASSUME FinanceInv, RevenueShareAddr \in Accounts, product = "loans",
           NEW u \in Borrowers, NEW n \in Deposits, NEW m \in StableAmounts \cup {0},
           Open(u, n, m), UNCHANGED <<notes, otherVars, product>>
    PROVE  FinanceInv' /\ Accrues
<1> DEFINE p == [rsShares |-> n, debt |-> 0, rewardDebt |-> Gross(AccAfter, n)]
           q == IF m > 0 THEN WithDebt(p, m) ELSE p
<1>1. /\ HarvestAndSend(u, EscrowAddr, n) /\ usdc' = LedgerAfter /\ rsHeld' = rsHeld + n
      /\ positions[u].rsShares = 0 /\ bookings' = bookings + 1 /\ rescued' = rescued
      /\ IF m > 0 THEN MintDebt(u, p, m) ELSE positions' = [positions EXCEPT ![u] = p]
    BY DEF Open, Booked
<1>2. /\ n \in Nat /\ m \in Nat /\ FinanceCore /\ AccAfter \in Nat
    BY FinanceFacts, CoreFacts DEF FinanceInv
<1>3. Gross(AccAfter, n) \in Nat
    BY <1>2, GrossBounds
<1>4. /\ p \in PositionType /\ p.rsShares = n /\ p.debt = 0
      /\ p.rewardDebt = Gross(AccAfter, n)
    BY <1>2, <1>3 DEF PositionType
<1> HIDE DEF p
<1>5. EarnedBy(p, AccAfter) = 0
    BY <1>3, <1>4 DEF EarnedBy
<1>6. EarnedBy(p, AccAfter) \in 0 .. EarnedBy(positions[u], AccAfter)
    BY <1>5, LoanFacts
<1>7. LoanCredit(p, AccAfter) >= 0
    BY <1>2, <1>4, <1>6, LoanFacts, Rebooked
<1>8. /\ positions' = [positions EXCEPT ![u] = q] /\ q \in PositionType
      /\ q.rsShares = p.rsShares /\ q.rewardDebt = p.rewardDebt /\ DebtSafe(q, AccAfter)
    <2>1. CASE m > 0
        <3>1. /\ WithDebt(p, m).debt <= (EarnedBy(p, AccAfter) * LTV_BP) \div BP_SCALE
              /\ positions' = [positions EXCEPT ![u] = WithDebt(p, m)]
            BY <1>1, <2>1 DEF MintDebt
        <3> QED BY <1>2, <1>4, <1>7, <2>1, <3>1, MintedDebt
    <2>2. CASE ~(m > 0)
        BY <1>1, <1>4, <2>2 DEF DebtSafe
    <2> QED BY <2>1, <2>2
<1> HIDE DEF q
<1>9. p.rsShares = positions[u].rsShares + n
    BY <1>1, <1>2, <1>4
<1>10. FinanceCore' /\ Accrues
    BY <1>1, <1>2, <1>4, <1>6, <1>8, <1>9, BookedStep
<1>11. DebtsSafe
    BY <1>8, OthersSafe
<1> QED BY <1>10, <1>11, DebtsStaySafe DEF FinanceInv

LEMMA AddCollateralStep ==
    ASSUME FinanceInv, RevenueShareAddr \in Accounts, product = "loans",
           NEW u \in Borrowers, NEW n \in Deposits,
           AddCollateral(u, n), UNCHANGED <<notes, otherVars, product>>
    PROVE  FinanceInv' /\ Accrues
<1> DEFINE p == positions[u]
           total == p.rsShares + n
           e == EarnedBy(p, AccAfter)
           q == [[p EXCEPT !.rsShares = total] EXCEPT !.rewardDebt = Gross(AccAfter, total) - e]
<1>1. /\ HarvestAndSend(u, EscrowAddr, n) /\ usdc' = LedgerAfter /\ rsHeld' = rsHeld + n
      /\ bookings' = bookings + 1 /\ rescued' = rescued
      /\ positions' = [positions EXCEPT
               ![u].rsShares = total,
               ![u].rewardDebt = Gross(AccAfter, total) - e]
    BY DEF AddCollateral, Booked
<1>2. /\ n \in Nat /\ FinanceCore /\ AccAfter \in Nat
      /\ positions \in [Borrowers -> PositionType]
    BY FinanceFacts, CoreFacts DEF FinanceInv
<1>3. /\ p \in PositionType /\ p.rsShares \in Nat /\ p.rewardDebt \in Nat
      /\ e \in Nat /\ DebtSafe(p, AccAfter)
    BY LoanFacts
<1>4. total \in Nat /\ p.rsShares <= total
    BY <1>2, <1>3
<1>5. /\ Gross(AccAfter, p.rsShares) \in Nat /\ Gross(AccAfter, total) \in Nat
      /\ Gross(AccAfter, p.rsShares) <= Gross(AccAfter, total)
    <2> HIDE DEF total
    <2>1. AccAfter <= AccAfter
        BY <1>2
    <2> QED BY <1>2, <1>3, <1>4, <2>1, GrossBounds, GrossGrows
<1>6. Gross(AccAfter, total) - e \in Nat
    BY <1>3, <1>5 DEF EarnedBy
<1>7. positions' = [positions EXCEPT ![u] = q]
    BY <1>1, <1>2
<1>8. /\ q \in PositionType /\ q.rsShares = total /\ q.debt = p.debt
      /\ q.rewardDebt = Gross(AccAfter, total) - e
    <2> HIDE DEF total, e
    <2> QED BY <1>3, <1>4, <1>6 DEF PositionType
<1> HIDE DEF q
<1>9. EarnedBy(q, AccAfter) = e
    <2> HIDE DEF e, total
    <2> QED BY <1>3, <1>5, <1>8 DEF EarnedBy
<1>10. EarnedBy(q, AccAfter) \in 0 .. EarnedBy(positions[u], AccAfter)
    BY <1>3, <1>9
<1>11. DebtSafe(q, AccAfter)
    BY <1>3, <1>8, <1>9 DEF DebtSafe
<1>12. q.rsShares = positions[u].rsShares + n
    BY <1>8
<1> HIDE DEF p, total, e
<1>13. FinanceCore' /\ Accrues
    <2>1. /\ HarvestAndSend(u, EscrowAddr, n) /\ rsHeld' = rsHeld + n
          /\ usdc' = LedgerAfter /\ bookings' = bookings + 1
          /\ UNCHANGED <<notes, otherVars, rescued, product>>
        BY <1>1
    <2> QED BY <1>2, <1>7, <1>8, <1>10, <1>12, <2>1, BookedStep
<1>14. DebtsSafe
    BY <1>7, <1>8, <1>11, OthersSafe
<1> QED BY <1>13, <1>14, DebtsStaySafe DEF FinanceInv

\* What earns at least the debt over the ratio, rounded down, is safe.
LEMMA SufficientIsSafe ==
    ASSUME NEW d \in Nat, NEW e \in Nat, e >= (d * BP_SCALE) \div LTV_BP
    PROVE  d * BP_SCALE < (e + 1) * LTV_BP
<1> DEFINE x == d * BP_SCALE
           k == x \div LTV_BP
<1>1. LTV_BP \in Nat \ {0} /\ x \in Nat
    BY FinanceFacts
<1>2. k \in Nat /\ x < k * LTV_BP + LTV_BP /\ k <= e
    <2> HIDE DEF x
    <2>1. k \in Nat /\ x < k * LTV_BP + LTV_BP
        BY <1>1, FloorNear
    <2> QED BY <2>1 DEF x
<1> HIDE DEF k, x
<1>3. k * LTV_BP \in Nat /\ e * LTV_BP \in Nat /\ k * LTV_BP <= e * LTV_BP
    BY <1>1, <1>2, ProductOrder
<1>4. (e + 1) * LTV_BP = e * LTV_BP + LTV_BP
    BY <1>1
<1> QED BY <1>1, <1>2, <1>3, <1>4 DEF x

LEMMA RemoveCollateralStep ==
    ASSUME FinanceInv, RevenueShareAddr \in Accounts, product = "loans",
           NEW u \in Borrowers, NEW n \in Deposits,
           RemoveCollateral(u, n), UNCHANGED <<notes, otherVars, product>>
    PROVE  FinanceInv' /\ Accrues
<1> DEFINE p == positions[u]
           rest == p.rsShares - n
           e == EarnedBy(p, AccAfter)
           r == IF rest > 0 /\ Gross(AccAfter, rest) > e THEN Gross(AccAfter, rest) - e ELSE 0
           q == Reduced(p, n)
<1>1. /\ HarvestAndSend(EscrowAddr, u, n) /\ usdc' = LedgerAfter /\ rsHeld' = rsHeld - n
      /\ bookings' = bookings + 1 /\ rescued' = rescued
      /\ p.rsShares >= n /\ Sufficient(p, n)
      /\ positions' = [positions EXCEPT ![u] = q]
    BY DEF RemoveCollateral, Booked
<1>2. n \in Nat /\ FinanceCore /\ AccAfter \in Nat
    BY FinanceFacts, CoreFacts DEF FinanceInv
<1>3. p \in PositionType /\ p.rsShares \in Nat /\ e \in Nat /\ p.debt \in Nat
    BY LoanFacts
<1>4. rest \in Nat
    BY <1>1, <1>2, <1>3
<1>5. Gross(AccAfter, rest) \in Nat /\ (rest = 0 => Gross(AccAfter, rest) = 0)
    <2> HIDE DEF rest
    <2> QED BY <1>2, <1>4, GrossBounds
<1>6. q = [[p EXCEPT !.rsShares = rest] EXCEPT !.rewardDebt = r]
    BY DEF Reduced
<1> HIDE DEF q, e, rest
<1>7. r \in Nat /\ Gross(AccAfter, rest) - r \in 0 .. e
    BY <1>3, <1>4, <1>5
<1> HIDE DEF r
<1>8. q \in PositionType /\ q.rsShares = rest /\ q.debt = p.debt /\ q.rewardDebt = r
    BY <1>3, <1>4, <1>6, <1>7 DEF PositionType
<1>9. EarnedBy(q, AccAfter) \in 0 .. e
    BY <1>7, <1>8 DEF EarnedBy
<1>10. DebtSafe(q, AccAfter)
    <2>1. p.debt > 0 => EarnedBy(q, AccAfter) >= (p.debt * BP_SCALE) \div LTV_BP
        BY <1>1 DEF Sufficient, q
    <2>2. EarnedBy(q, AccAfter) \in Nat
        BY <1>3, <1>9
    <2> QED BY <1>3, <1>8, <2>1, <2>2, SufficientIsSafe DEF DebtSafe
<1>11. q.rsShares = positions[u].rsShares - n
    BY <1>8 DEF rest
<1>12. EarnedBy(q, AccAfter) \in 0 .. EarnedBy(positions[u], AccAfter)
    BY <1>9 DEF e
<1> HIDE DEF p
<1>13. FinanceCore' /\ Accrues
    BY <1>1, <1>2, <1>8, <1>11, <1>12, BookedStep
<1>14. DebtsSafe
    BY <1>1, <1>8, <1>10, OthersSafe
<1> QED BY <1>13, <1>14, DebtsStaySafe DEF FinanceInv

\* A step without a harvest that moves no shares of a note or a position.
LEMMA IdleStep ==
    ASSUME FinanceCore, ShareInv', UNCHANGED <<notes, otherVars, harvestVars, bookings>>,
           positions' \in [Borrowers -> PositionType],
           \A u \in Borrowers : /\ positions'[u].rsShares = positions[u].rsShares
                                /\ positions'[u].rewardDebt = positions[u].rewardDebt,
           ProductOK', usdc'[EscrowAddr] + rescued' >= usdc[EscrowAddr] + rescued,
           shares'[EscrowAddr] >= shares[EscrowAddr],
           Claimable[EscrowAddr]' >= Claimable[EscrowAddr]
    PROVE  FinanceCore' /\ Accrues
<1>1. /\ accUsdcPerRawShare' = accUsdcPerRawShare /\ rsHeld' = rsHeld
      /\ UNCHANGED <<notes, otherVars, rsHeld, bookings>>
    BY DEF harvestVars
<1>2. FinanceCore'
    BY <1>1, CoreFacts, KeptStepCore
<1>3. rsHeld \in Nat /\ rsHeld' <= rsHeld
    BY <1>1, CoreFacts DEF HeldInv
<1> QED BY <1>1, <1>2, <1>3, CoreFacts, AccruesSlowly DEF FinanceCore, Books

LEMMA MintMoreStep ==
    ASSUME FinanceInv, RevenueShareAddr \in Accounts, product = "loans",
           NEW u \in Borrowers, NEW m \in StableAmounts,
           MintMore(u, m), UNCHANGED <<notes, otherVars, product>>
    PROVE  FinanceInv' /\ Accrues
<1> DEFINE p == positions[u]
           q == WithDebt(p, m)
<1>1. /\ HarvestOnly /\ usdc' = LedgerAfter
      /\ q.debt <= (EarnedBy(p, AccAfter) * LTV_BP) \div BP_SCALE
      /\ positions' = [positions EXCEPT ![u] = q]
      /\ UNCHANGED <<notes, otherVars, rsHeld, rescued, bookings, product>>
    BY DEF MintMore, MintDebt, historyVars
<1>2. /\ m \in Nat /\ FinanceCore /\ AccAfter \in Nat
      /\ positions \in [Borrowers -> PositionType]
    BY FinanceFacts, CoreFacts DEF FinanceInv
<1>3. p \in PositionType /\ LoanCredit(p, AccAfter) >= 0
    BY LoanFacts
<1>4. /\ q \in PositionType /\ q.rsShares = p.rsShares /\ q.rewardDebt = p.rewardDebt
      /\ DebtSafe(q, AccAfter)
    <2> HIDE DEF p
    <2> QED BY <1>1, <1>2, <1>3, MintedDebt
<1> HIDE DEF q
<1>5. /\ positions' \in [Borrowers -> PositionType]
      /\ \A v \in Borrowers : /\ positions'[v].rsShares = positions[v].rsShares
                              /\ positions'[v].rewardDebt = positions[v].rewardDebt
    BY <1>1, <1>2, <1>4
<1>6. FinanceCore' /\ Accrues
    BY <1>1, <1>2, <1>5, HarvestOnlyStep
<1>7. DebtsSafe
    BY <1>1, <1>4, OthersSafe
<1> QED BY <1>6, <1>7, DebtsStaySafe DEF FinanceInv

LEMMA RepayStep ==
    ASSUME FinanceInv, RevenueShareAddr \in Accounts, product = "loans",
           NEW u \in Borrowers, NEW m \in StableAmounts,
           Repay(u, m), UNCHANGED <<notes, otherVars, product>>
    PROVE  FinanceInv' /\ Accrues
<1> DEFINE p == positions[u]
           q == [p EXCEPT !.debt = p.debt - m]
<1>1. /\ m \in 1 .. p.debt /\ UNCHANGED <<shareVars, harvestVars, rescued, bookings>>
      /\ positions' = [positions EXCEPT ![u].debt = @ - m]
    BY DEF Repay, historyVars
<1>2. FinanceCore /\ positions \in [Borrowers -> PositionType]
    BY CoreFacts DEF FinanceInv
<1>3. p \in PositionType /\ p.debt \in Nat /\ DebtSafe(p, AccAfter) /\ EarnedBy(p, AccAfter) \in Nat
    BY LoanFacts
<1>4. positions' = [positions EXCEPT ![u] = q]
    BY <1>1, <1>2
<1>5. p.debt - m \in Nat
    BY <1>1, <1>3
<1>6. /\ q \in PositionType /\ q.debt = p.debt - m
      /\ q.rsShares = p.rsShares /\ q.rewardDebt = p.rewardDebt
    <2> HIDE DEF p
    <2> QED BY <1>3, <1>5 DEF PositionType
<1> HIDE DEF q
<1>7. /\ positions' \in [Borrowers -> PositionType]
      /\ \A v \in Borrowers : /\ positions'[v].rsShares = positions[v].rsShares
                              /\ positions'[v].rewardDebt = positions[v].rewardDebt
    BY <1>2, <1>4, <1>6
<1>8. FinanceCore' /\ Accrues
    <2>1. ShareInv' /\ Claimable' = Claimable /\ usdc' = usdc /\ shares' = shares
        BY <1>1, <1>2, CoreFacts, QuietStep DEF shareVars, ownershipVars
    <2>2. ProductOK'
        BY <1>1, <1>2 DEF FinanceCore, Books, ProductOK, otherVars
    <2>3. /\ usdc'[EscrowAddr] + rescued' >= usdc[EscrowAddr] + rescued
          /\ shares'[EscrowAddr] >= shares[EscrowAddr]
          /\ Claimable[EscrowAddr]' >= Claimable[EscrowAddr]
        <3>1. Claimable[EscrowAddr] \in Nat /\ shares[EscrowAddr] \in Nat
            BY <1>2, CoreFacts, AccumulatorRises
        <3> QED BY <1>1, <1>2, <2>1, <3>1, CoreFacts
    <2>4. UNCHANGED <<notes, otherVars, harvestVars, bookings>>
        BY <1>1
    <2> QED BY <1>2, <1>7, <2>1, <2>2, <2>3, <2>4, IdleStep
<1>9. DebtSafe(q, AccAfter)
    <2> DEFINE d == p.debt
               e == (EarnedBy(p, AccAfter) + 1) * LTV_BP
    <2>1. EarnedBy(q, AccAfter) = EarnedBy(p, AccAfter)
        BY <1>6 DEF EarnedBy
    <2>2. d * BP_SCALE < e
        BY <1>1, <1>3 DEF DebtSafe
    <2>3. BP_SCALE \in Nat /\ e \in Nat
        BY <1>3, FinanceFacts
    <2>4. d \in Nat /\ d - m \in Nat /\ d - m <= d
        BY <1>1, <1>3
    <2> HIDE DEF d, e
    <2>5. /\ (d - m) * BP_SCALE \in Nat /\ d * BP_SCALE \in Nat
          /\ (d - m) * BP_SCALE <= d * BP_SCALE
        BY <2>3, <2>4, ProductOrder
    <2>6. (d - m) * BP_SCALE < e
        BY <2>2, <2>3, <2>5
    <2> QED BY <1>6, <2>1, <2>6 DEF DebtSafe, d, e
<1>10. DebtsSafe
    BY <1>4, <1>6, <1>9, OthersSafe
<1> QED BY <1>8, <1>10, DebtsStaySafe DEF FinanceInv

\* A position without shares weighs nothing.
LEMMA NoPositionFacts ==
    /\ NoPosition \in PositionType /\ NoPosition.rsShares = 0
    /\ \A acc \in Nat : LoanCredit(NoPosition, acc) = 0 /\ DebtSafe(NoPosition, acc)
<1>1. /\ NoPosition \in PositionType /\ NoPosition.rsShares = 0
      /\ NoPosition.debt = 0 /\ NoPosition.rewardDebt = 0
    BY DEF NoPosition, PositionType
<1>2. ASSUME NEW acc \in Nat
      PROVE  LoanCredit(NoPosition, acc) = 0 /\ DebtSafe(NoPosition, acc)
    <2>1. acc * 0 = 0 /\ PRECISION * 0 = 0
        BY FinanceFacts
    <2> QED BY <1>1, <2>1 DEF LoanCredit, Scaled, DebtSafe
<1> QED BY <1>1, <1>2

LEMMA CloseStep ==
    ASSUME FinanceInv, RevenueShareAddr \in Accounts, product = "loans",
           NEW u \in Borrowers, Close(u), UNCHANGED <<notes, otherVars, product>>
    PROVE  FinanceInv' /\ Accrues
<1> DEFINE s == positions[u].rsShares
           A == accUsdcPerRawShare
<1>1. /\ rsHeld' = rsHeld - s /\ positions' = [positions EXCEPT ![u] = NoPosition]
      /\ SendUnharvested(EscrowAddr, u, s) /\ UNCHANGED <<rescued, bookings>>
    BY DEF Close, historyVars
<1>2. /\ FinanceCore /\ AccAfter \in Nat /\ A \in Nat /\ rsHeld \in Nat
      /\ u \in Holders /\ EscrowAddr # u /\ shares[EscrowAddr] \in Nat
      /\ usdc[EscrowAddr] \in Nat /\ EscrowAddr \in Holders
    BY FinanceFacts, CoreFacts DEF FinanceInv, HeldInv
<1>3. s \in Nat
    BY LoanFacts
<1>4. /\ ShareInv' /\ Claimable' = Claimable /\ usdc' = usdc /\ accUsdcPerRawShare' = A
      /\ shares'[EscrowAddr] = shares[EscrowAddr] - s
    BY <1>1, <1>2, <1>3, CoreFacts, SentUnharvested
<1>5. LoanWeight(A)[u] \in Nat
    <2>1. A <= A
        BY <1>2
    <2> QED BY <1>2, <2>1, CoreFacts, LoanTypes
<1>6. FinanceCore'
    <2>1. /\ LoanCredit(NoPosition, A) >= 0 /\ 0 \in Nat
          /\ LoanCredit(NoPosition, A) + Scaled(0) <= LoanWeight(A)[u] + Scaled(0)
        <3>1. Scaled(0) = 0 /\ LoanCredit(NoPosition, A) = 0
            BY <1>2, FinanceFacts, NoPositionFacts DEF Scaled
        <3> QED BY <1>5, <3>1
    <2>2. /\ usdc'[EscrowAddr] >= usdc[EscrowAddr] - 0
          /\ rsHeld' = rsHeld - positions[u].rsShares + NoPosition.rsShares
          /\ shares'[EscrowAddr]
                >= shares[EscrowAddr] - positions[u].rsShares + NoPosition.rsShares
          /\ bookings' = bookings + 0
        <3>1. bookings \in Nat
            BY <1>2, CoreFacts
        <3> QED BY <1>1, <1>2, <1>3, <1>4, <3>1, NoPositionFacts
    <2>3. /\ A \in Nat /\ accUsdcPerRawShare <= A /\ Covers(A, usdc[EscrowAddr])
        BY <1>2, CoreFacts
    <2>4. UNCHANGED <<notes, otherVars, rescued, product>>
        BY <1>1
    <2> HIDE DEF A, s
    <2> QED BY <1>1, <1>2, <1>4, <2>1, <2>2, <2>3, <2>4, NoPositionFacts, LoanStepCore
<1>7. Accrues
    <2>1. Claimable[EscrowAddr] \in Nat /\ rsHeld' <= rsHeld
        BY <1>1, <1>2, <1>3, CoreFacts, AccumulatorRises
    <2>2. Claimable[EscrowAddr]' >= Claimable[EscrowAddr]
        BY <1>4, <2>1
    <2> QED BY <1>2, <1>4, <1>6, <2>1, <2>2, CoreFacts, AccruesSlowly DEF FinanceCore, Books
<1>8. DebtsSafe
    BY <1>1, <1>2, NoPositionFacts, OthersSafe
<1> QED BY <1>6, <1>7, <1>8, DebtsStaySafe DEF FinanceInv

LEMMA SeizedBounds ==
    ASSUME NEW e \in Nat, NEW d \in Nat
    PROVE  Seized(e, d) \in Nat /\ Seized(e, d) <= e
<1>1. d * LIQ_BONUS_BP \in Nat /\ BP_SCALE \in Nat \ {0}
    BY FinanceFacts
<1>2. (d * LIQ_BONUS_BP) \div BP_SCALE \in Nat
    BY <1>1, FloorDivision
<1> QED BY <1>2 DEF Seized

LEMMA LiquidateStep ==
    ASSUME FinanceInv, RevenueShareAddr \in Accounts, product = "loans",
           NEW liquidator \in Borrowers, NEW u \in Borrowers,
           Liquidate(liquidator, u), UNCHANGED <<notes, otherVars, product>>
    PROVE  FinanceInv' /\ Accrues
<1> DEFINE p == positions[u]
           n == p.rsShares
           e == EarnedBy(p, AccAfter)
           paid == Seized(e, p.debt)
<1>1. /\ LedgerAfter[EscrowAddr] >= paid
      /\ usdc' = Moved(LedgerAfter, EscrowAddr, liquidator, paid)
      /\ rsHeld' = rsHeld - n /\ positions' = [positions EXCEPT ![u] = NoPosition]
      /\ HarvestAndSend(EscrowAddr, u, n) /\ UNCHANGED <<rescued, bookings>>
    BY DEF Liquidate, CanMove, historyVars
<1>2. /\ FinanceCore /\ AccAfter \in Nat /\ liquidator \in Accounts
      /\ EscrowAddr # liquidator /\ RevenueShareAddr # EscrowAddr /\ EscrowAddr \in Accounts
      /\ bookings \in Nat
    BY FinanceFacts, CoreFacts DEF FinanceInv
<1>3. /\ p \in PositionType /\ n \in Nat /\ p.debt \in Nat /\ e \in Nat
      /\ LoanCredit(p, AccAfter) \in Nat /\ Scaled(e) <= LoanCredit(p, AccAfter)
    BY LoanFacts
<1>4. paid \in Nat /\ paid <= e
    <2> HIDE DEF e, p
    <2> QED BY <1>3, SeizedBounds
<1> HIDE DEF e, paid
<1>5. Scaled(paid) \in Nat /\ Scaled(paid) <= LoanCredit(p, AccAfter)
    <2>1. Scaled(paid) \in Nat /\ Scaled(e) \in Nat /\ Scaled(paid) <= Scaled(e)
        BY <1>3, <1>4, ScaledAdds
    <2> QED BY <1>3, <2>1
<1>6. usdc[RevenueShareAddr] >= Collected
    BY <1>1 DEF HarvestAndSend, HarvestThenMove, CanMove
<1>7. LedgerAfter \in [Accounts -> Nat]
    BY <1>2, <1>6, CoreFacts, HarvestCollects
<1>8. /\ usdc' \in [Accounts -> Nat]
      /\ usdc'[RevenueShareAddr] >= LedgerAfter[RevenueShareAddr]
      /\ usdc'[EscrowAddr] >= LedgerAfter[EscrowAddr] - paid
    BY <1>1, <1>2, <1>4, <1>7, MovedType
<1>9. /\ LoanCredit(NoPosition, AccAfter) >= 0 /\ 0 \in Nat /\ bookings' = bookings + 0
      /\ LoanCredit(NoPosition, AccAfter) + Scaled(paid)
            <= LoanCredit(positions[u], AccAfter) + Scaled(0)
      /\ NoPosition.rsShares = positions[u].rsShares - n
    <2>1. Scaled(0) = 0 /\ LoanCredit(NoPosition, AccAfter) = 0
        BY <1>2, FinanceFacts, NoPositionFacts DEF Scaled
    <2> QED BY <1>1, <1>2, <1>3, <1>5, <2>1, NoPositionFacts
<1>10. UNCHANGED <<notes, otherVars, rescued, product>>
    BY <1>1
<1> HIDE DEF n, p
<1>11. FinanceCore' /\ Accrues
    BY <1>1, <1>3, <1>4, <1>8, <1>9, <1>10, NoPositionFacts, LoanHarvestStep
<1>12. DebtsSafe
    BY <1>1, <1>2, NoPositionFacts, OthersSafe
<1> QED BY <1>11, <1>12, DebtsStaySafe DEF FinanceInv

LEMMA RescueStep ==
    ASSUME FinanceInv, RevenueShareAddr \in Accounts, product = "loans",
           NEW to \in FeeRecipients, NEW amount \in Payments,
           RescueUSDC(to, amount), UNCHANGED <<notes, otherVars, product>>
    PROVE  FinanceInv' /\ Accrues
<1>1. /\ usdc[EscrowAddr] >= amount /\ usdc' = Moved(usdc, EscrowAddr, to, amount)
      /\ rescued' = rescued + amount
      /\ UNCHANGED <<now, ownershipVars, accountVars, accumulatorVars, harvestVars>>
      /\ UNCHANGED <<positions, bookings>>
    BY DEF RescueUSDC, CanMove
<1>2. /\ FinanceCore /\ to \in Accounts /\ amount \in Nat /\ usdc \in [Accounts -> Nat]
      /\ EscrowAddr \in Accounts /\ RevenueShareAddr # EscrowAddr
      /\ usdc[EscrowAddr] \in Nat /\ rescued \in Nat /\ shares[EscrowAddr] \in Nat
      /\ Claimable[EscrowAddr] \in Nat /\ positions \in [Borrowers -> PositionType]
    BY FinanceFacts, CoreFacts, AccumulatorRises DEF FinanceInv
<1>3. /\ usdc' \in [Accounts -> Nat] /\ usdc'[RevenueShareAddr] >= usdc[RevenueShareAddr]
      /\ usdc'[EscrowAddr] >= usdc[EscrowAddr] - amount /\ usdc'[EscrowAddr] \in Nat
    BY <1>1, <1>2, MovedType
<1>4. ShareInv'
    BY <1>1, <1>2, <1>3, CoreFacts, CoinsComeIn
<1>5. shares' = shares /\ Claimable' = Claimable
    BY <1>1 DEF ownershipVars, accountVars, accumulatorVars, Claimable, ClaimableAt, Accrued
<1>6. FinanceCore' /\ Accrues
    <2>1. ProductOK'
        BY <1>1, <1>2 DEF FinanceCore, Books, ProductOK, otherVars
    <2>2. /\ usdc'[EscrowAddr] + rescued' >= usdc[EscrowAddr] + rescued
          /\ shares'[EscrowAddr] >= shares[EscrowAddr]
          /\ Claimable[EscrowAddr]' >= Claimable[EscrowAddr]
        BY <1>1, <1>2, <1>3, <1>5
    <2>3. UNCHANGED <<notes, otherVars, harvestVars, bookings>> /\ positions' = positions
        BY <1>1
    <2> QED BY <1>2, <1>4, <2>1, <2>2, <2>3, IdleStep
<1>7. DebtsSafe
    BY <1>1, LoanFacts DEF DebtsSafe
<1> QED BY <1>6, <1>7, DebtsStaySafe DEF FinanceInv

\* Transfers of APIUSD, the switches of the admin, and steps of nobody.
LEMMA StillStep ==
    ASSUME FinanceInv, UNCHANGED <<shareVars, harvestVars, notes, otherVars, positions, historyVars, product>>
    PROVE  FinanceInv' /\ Accrues
<1>1. /\ UNCHANGED <<notes, otherVars, harvestVars, positions, rescued, bookings, product>>
      /\ UNCHANGED <<usdc, ownershipVars, accountVars, accumulatorVars, shares>>
    BY DEF shareVars, historyVars, ownershipVars
<1>2. /\ FinanceCore /\ ShareInv /\ positions \in [Borrowers -> PositionType]
      /\ usdc[EscrowAddr] \in Nat /\ rescued \in Nat /\ shares[EscrowAddr] \in Nat
      /\ Claimable[EscrowAddr] \in Nat
    BY CoreFacts, AccumulatorRises DEF FinanceInv
<1>3. ShareInv' /\ Claimable' = Claimable
    BY <1>2, QuietStep
<1>4. FinanceCore' /\ Accrues
    <2>1. ProductOK'
        BY <1>1, <1>2 DEF FinanceCore, Books, ProductOK, otherVars
    <2>2. /\ usdc'[EscrowAddr] + rescued' >= usdc[EscrowAddr] + rescued
          /\ shares'[EscrowAddr] >= shares[EscrowAddr]
          /\ Claimable[EscrowAddr]' >= Claimable[EscrowAddr]
        BY <1>1, <1>2, <1>3
    <2> QED BY <1>1, <1>2, <1>3, <2>1, <2>2, IdleStep
<1>5. DebtsSafe
    BY <1>1, LoanFacts DEF DebtsSafe
<1> QED BY <1>4, <1>5, DebtsStaySafe DEF FinanceInv

LEMMA LoansStep ==
    ASSUME FinanceInv, RevenueShareAddr \in Accounts, product = "loans", CdpNext,
           UNCHANGED <<notes, otherVars, product>>
    PROVE  FinanceInv' /\ Accrues
<1>1. ASSUME NEW u \in Borrowers, NEW n \in Deposits, NEW m \in StableAmounts \cup {0},
             Open(u, n, m)
      PROVE  FinanceInv' /\ Accrues
    BY <1>1, OpenStep
<1>2. ASSUME NEW u \in Borrowers, NEW n \in Deposits, AddCollateral(u, n)
      PROVE  FinanceInv' /\ Accrues
    BY <1>2, AddCollateralStep
<1>3. ASSUME NEW u \in Borrowers, NEW n \in Deposits, RemoveCollateral(u, n)
      PROVE  FinanceInv' /\ Accrues
    BY <1>3, RemoveCollateralStep
<1>4. ASSUME NEW u \in Borrowers, NEW m \in StableAmounts, MintMore(u, m)
      PROVE  FinanceInv' /\ Accrues
    BY <1>4, MintMoreStep
<1>5. ASSUME NEW u \in Borrowers, NEW m \in StableAmounts, Repay(u, m)
      PROVE  FinanceInv' /\ Accrues
    BY <1>5, RepayStep
<1>6. ASSUME NEW u \in Borrowers, Close(u)
      PROVE  FinanceInv' /\ Accrues
    BY <1>6, CloseStep
<1>7. ASSUME NEW liquidator \in Borrowers, NEW u \in Borrowers, Liquidate(liquidator, u)
      PROVE  FinanceInv' /\ Accrues
    BY <1>7, LiquidateStep
<1>8. ASSUME NEW from, NEW to, NEW m, TradeStable(from, to, m)
      PROVE  FinanceInv' /\ Accrues
    BY <1>8, StillStep DEF TradeStable
<1>9. ASSUME NEW p, SetPaused(p)
      PROVE  FinanceInv' /\ Accrues
    BY <1>9, StillStep DEF SetPaused
<1>10. ASSUME NEW a, SetFeeRecipient(a)
       PROVE  FinanceInv' /\ Accrues
    BY <1>10, StillStep DEF SetFeeRecipient
<1>11. ASSUME NEW to \in FeeRecipients, NEW amount \in Payments, RescueUSDC(to, amount)
       PROVE  FinanceInv' /\ Accrues
    BY <1>11, RescueStep
<1> QED BY <1>1, <1>2, <1>3, <1>4, <1>5, <1>6, <1>7, <1>8, <1>9, <1>10, <1>11 DEF CdpNext

LEMMA NotesStep ==
    ASSUME FinanceInv, RevenueShareAddr \in Accounts, product = "notes", NotesNext,
           UNCHANGED <<otherVars, cdpVars, product>>
    PROVE  FinanceInv' /\ Accrues /\ NotesSteady
<1>1. FinanceCore /\ positions \in [Borrowers -> PositionType]
    BY CoreFacts DEF FinanceInv
<1>2. ASSUME NEW p \in Sellers, NEW face \in FaceValues, NEW price \in PurchasePrices, NEW term,
             NEW n \in Collaterals, CreateNote(p, face, price, term, n)
      PROVE  FinanceCore' /\ Accrues /\ NotesSteady
    BY <1>1, <1>2, CreateNoteStep
<1>3. ASSUME NEW id \in DOMAIN notes, NEW b \in Buyers, PurchaseNote(b, id)
      PROVE  FinanceCore' /\ Accrues /\ NotesSteady
    BY <1>1, <1>3, PurchaseNoteStep
<1>4. ASSUME NEW id \in DOMAIN notes, Settle(id)
      PROVE  FinanceCore' /\ Accrues /\ NotesSteady
    BY <1>1, <1>4, SettleStep
<1>5. ASSUME NEW id \in DOMAIN notes, ReclaimExpired(id)
      PROVE  FinanceCore' /\ Accrues /\ NotesSteady
    BY <1>1, <1>5, ReclaimStep
<1>6. ASSUME HarvestRS
      PROVE  FinanceCore' /\ Accrues /\ NotesSteady
    <2>1. /\ HarvestOnly /\ usdc' = LedgerAfter /\ positions' = positions
          /\ UNCHANGED <<notes, otherVars, rsHeld, rescued, bookings, product>>
        BY <1>6 DEF HarvestRS, cdpVars, historyVars
    <2>2. FinanceCore' /\ Accrues
        BY <1>1, <2>1, HarvestOnlyStep
    <2>3. NotesSteady
        BY <2>1 DEF NotesSteady
    <2> QED BY <2>2, <2>3
<1>7. FinanceCore' /\ Accrues /\ NotesSteady
    BY <1>2, <1>3, <1>4, <1>5, <1>6 DEF NotesNext
<1>8. DebtsSafe
    BY LoanFacts DEF DebtsSafe, cdpVars
<1> QED BY <1>7, <1>8, DebtsStaySafe DEF FinanceInv

(***************************************************************************)
(* Notes on other contracts.  Nothing becomes of the shares and of the     *)
(* other notes; what the claims bring in comes beside the coins there are, *)
(* and what a settlement pays out is counted.                              *)
(***************************************************************************)
LEMMA OthersQuietStep ==
    ASSUME FinanceInv, RevenueShareAddr \in Accounts, product = "notes", OthersOK',
           UNCHANGED <<now, ownershipVars, accountVars, accumulatorVars, harvestVars, notes,
                       cdpVars, product>>,
           usdc' \in [Accounts -> Nat], usdc'[RevenueShareAddr] >= usdc[RevenueShareAddr],
           NEW brought \in Nat, othersBrought' = othersBrought + brought,
           usdc'[EscrowAddr] + othersPaid' >= usdc[EscrowAddr] + othersPaid + brought
    PROVE  FinanceInv' /\ Accrues /\ NotesSteady
<1>1. /\ FinanceCore /\ ShareInv /\ positions \in [Borrowers -> PositionType]
      /\ usdc[EscrowAddr] \in Nat /\ accUsdcPerRawShare \in Nat /\ rsHeld \in Nat
      /\ shares[EscrowAddr] \in Nat /\ Claimable[EscrowAddr] \in Nat
      /\ Covers(accUsdcPerRawShare, usdc[EscrowAddr])
      /\ EscrowAddr \in Accounts /\ OthersOK /\ ProductOK
    BY CoreFacts, AccumulatorRises DEF FinanceInv, FinanceCore, Books, HeldInv
<1>2. /\ positions' = positions /\ rescued' = rescued /\ bookings' = bookings
      /\ rsHeld' = rsHeld /\ accUsdcPerRawShare' = accUsdcPerRawShare
      /\ shares' = shares /\ Claimable' = Claimable
    BY DEF cdpVars, historyVars, harvestVars, ownershipVars, accountVars, accumulatorVars,
           Claimable, ClaimableAt, Accrued
<1>3. ShareInv'
    BY <1>1, CoinsComeIn
<1>4. ProductOK'
    BY <1>1, <1>2 DEF ProductOK
<1>5. usdc'[EscrowAddr] + Elsewhere' >= usdc[EscrowAddr] + Elsewhere + brought
    <2>1. othersPaid \in Nat /\ othersPaid' \in Nat /\ rescued \in Nat /\ usdc'[EscrowAddr] \in Nat
        BY <1>1 DEF OthersOK, ProductOK
    <2> QED BY <1>1, <1>2, <2>1 DEF Elsewhere
<1>6. FinanceCore'
    <2>1. accUsdcPerRawShare <= accUsdcPerRawShare /\ shares'[EscrowAddr] >= shares[EscrowAddr]
        BY <1>1, <1>2
    <2>2. UNCHANGED <<notes, rsHeld, bookings>>
        BY <1>2
    <2> QED BY <1>1, <1>2, <1>3, <1>4, <1>5, <2>1, <2>2, QuietStepCore
<1>7. Accrues
    <2>1. Claimable[EscrowAddr]' >= Claimable[EscrowAddr] /\ rsHeld' <= rsHeld
        BY <1>1, <1>2
    <2> QED BY <1>1, <1>2, <1>6, <2>1, CoreFacts, AccruesSlowly DEF FinanceCore, Books
<1>8. DebtsSafe
    BY <1>2, LoanFacts DEF DebtsSafe
<1>9. NotesSteady
    BY DEF NotesSteady
<1> QED BY <1>6, <1>7, <1>8, <1>9, DebtsStaySafe DEF FinanceInv

\* A claim brings coins in.
LEMMA BroughtIn ==
    ASSUME FinanceInv, RevenueShareAddr \in Accounts, NEW payer \in Payers,
           NEW paid \in OtherClaims \cup {0}, OtherHarvest(payer, paid)
    PROVE  /\ paid \in Nat
           /\ Moved(usdc, payer, EscrowAddr, paid) \in [Accounts -> Nat]
           /\ Moved(usdc, payer, EscrowAddr, paid)[EscrowAddr] = usdc[EscrowAddr] + paid
           /\ Moved(usdc, payer, EscrowAddr, paid)[RevenueShareAddr] >= usdc[RevenueShareAddr]
           /\ othersBrought' = othersBrought + paid
           /\ UNCHANGED <<now, ownershipVars, accountVars, accumulatorVars, harvestVars, notes>>
<1>1. paid \in Nat
    BY FutureAssumption
<1>2. /\ payer \in Accounts \ {RevenueShareAddr} /\ payer # EscrowAddr /\ EscrowAddr \in Accounts
      /\ usdc \in [Accounts -> Nat]
    BY ShareAssumption, HarvestAssumption, CoreFacts DEF FinanceInv
<1>3. usdc[payer] >= paid
    BY DEF OtherHarvest, CanMove
<1> QED BY <1>1, <1>2, <1>3, MovedType DEF OtherHarvest

\* A note on another contract is written.
LEMMA OtherWritten ==
    ASSUME OthersOK, NEW id \in DOMAIN others, NEW note \in OtherType,
           note.status = "Active" => note.buyer \in Buyers,
           others' = [others EXCEPT ![id] = note],
           othersBrought' \in Nat, othersPaid' \in Nat
    PROVE  OthersOK'
<1>1. others \in Seq(OtherType)
    BY DEF OthersOK
<1>2. /\ others' \in Seq(OtherType) /\ DOMAIN others' = DOMAIN others /\ others'[id] = note
      /\ \A j \in DOMAIN others \ {id} : others'[j] = others[j]
    BY <1>1
<1> QED BY <1>2 DEF OthersOK

LEMMA CreateOtherStep ==
    ASSUME FinanceInv, RevenueShareAddr \in Accounts, product = "notes",
           NEW payer \in Payers, NEW paid \in OtherClaims \cup {0},
           NEW p \in Sellers, NEW face \in FaceValues, NEW price \in PurchasePrices, NEW term,
           NEW n, CreateOther(p, face, price, term, n, payer, paid), UNCHANGED <<cdpVars, product>>
    PROVE  FinanceInv' /\ Accrues /\ NotesSteady
<1> DEFINE note == [provider |-> p, buyer |-> NoAddress, faceValue |-> face,
                    purchasePrice |-> price, expiry |-> now + term, status |-> "Open"]
           k == Len(others) + 1
<1>1. /\ term \in MIN_TERM .. MAX_TERM /\ OtherHarvest(payer, paid)
      /\ usdc' = Moved(usdc, payer, EscrowAddr, paid)
      /\ others' = Append(others, note) /\ othersPaid' = othersPaid
    BY DEF CreateOther, NoteOffered
<1>2. /\ OthersOK /\ now \in Nat /\ usdc[EscrowAddr] \in Nat
      /\ others \in Seq(OtherType) /\ othersBrought \in Nat /\ othersPaid \in Nat
    BY CoreFacts DEF FinanceInv, OthersOK
<1>3. /\ paid \in Nat /\ usdc' \in [Accounts -> Nat]
      /\ usdc'[EscrowAddr] = usdc[EscrowAddr] + paid
      /\ usdc'[RevenueShareAddr] >= usdc[RevenueShareAddr]
      /\ othersBrought' = othersBrought + paid
      /\ UNCHANGED <<now, ownershipVars, accountVars, accumulatorVars, harvestVars, notes>>
    BY <1>1, BroughtIn
<1>4. note \in OtherType
    <2>1. face \in Nat /\ price \in Nat /\ now + term \in Nat
        BY <1>1, <1>2, FinanceFacts
    <2> QED BY <2>1 DEF OtherType
<1>5. OthersOK'
    <2>1. /\ others' \in Seq(OtherType) /\ DOMAIN others' = 1 .. k /\ others'[k] = note
          /\ DOMAIN others = 1 .. Len(others) /\ Len(others) \in Nat
          /\ \A j \in 1 .. Len(others) : others'[j] = others[j]
        <3> HIDE DEF note
        <3> QED BY <1>1, <1>2, <1>4
    <2>2. ASSUME NEW j \in DOMAIN others', others'[j].status = "Active"
          PROVE  others'[j].buyer \in Buyers
        <3>1. j \in DOMAIN others /\ others'[j] = others[j]
            BY <2>1, <2>2
        <3> QED BY <1>2, <2>2, <3>1 DEF OthersOK
    <2> QED BY <1>1, <1>2, <1>3, <2>1, <2>2 DEF OthersOK
<1> HIDE DEF note
<1>6. usdc'[EscrowAddr] + othersPaid' >= usdc[EscrowAddr] + othersPaid + paid
    BY <1>1, <1>2, <1>3
<1> QED BY <1>3, <1>5, <1>6, OthersQuietStep

LEMMA PurchaseOtherStep ==
    ASSUME FinanceInv, RevenueShareAddr \in Accounts, product = "notes",
           NEW id \in DOMAIN others, NEW b \in Buyers, PurchaseOther(b, id),
           UNCHANGED <<cdpVars, product>>
    PROVE  FinanceInv' /\ Accrues /\ NotesSteady
<1> DEFINE note == others[id]
           bought == [[note EXCEPT !.buyer = b] EXCEPT !.status = "Active"]
<1>1. /\ b # note.provider /\ CanMove(usdc, b, note.provider, note.purchasePrice)
      /\ usdc' = Moved(usdc, b, note.provider, note.purchasePrice)
      /\ others' = [others EXCEPT ![id].buyer = b, ![id].status = "Active"]
      /\ othersBrought' = othersBrought /\ othersPaid' = othersPaid
      /\ UNCHANGED <<now, ownershipVars, accountVars, accumulatorVars, harvestVars, notes>>
    BY DEF PurchaseOther, Purchase
<1>2. /\ OthersOK /\ others \in Seq(OtherType) /\ note \in OtherType
      /\ othersBrought \in Nat /\ othersPaid \in Nat /\ usdc[EscrowAddr] \in Nat
      /\ usdc \in [Accounts -> Nat] /\ EscrowAddr \in Accounts
    BY CoreFacts DEF FinanceInv, OthersOK
<1>3. others' = [others EXCEPT ![id] = bought] /\ bought \in OtherType /\ bought.buyer = b
    <2>1. others' = [others EXCEPT ![id] = bought]
        BY <1>1, <1>2
    <2> QED BY <1>2, <2>1 DEF OtherType
<1> HIDE DEF bought
<1>4. OthersOK'
    BY <1>1, <1>2, <1>3, OtherWritten
<1>5. /\ note.provider \in Accounts /\ note.provider \notin {EscrowAddr, RevenueShareAddr}
      /\ b \in Accounts /\ b \notin {EscrowAddr, RevenueShareAddr} /\ note.purchasePrice \in Nat
    <2>1. note.provider \in Sellers /\ note.purchasePrice \in Nat
        BY <1>2 DEF OtherType
    <2> QED BY <2>1, FinanceFacts
<1> HIDE DEF note
<1>6. /\ usdc' \in [Accounts -> Nat] /\ usdc'[EscrowAddr] >= usdc[EscrowAddr]
      /\ usdc'[RevenueShareAddr] >= usdc[RevenueShareAddr] /\ usdc'[EscrowAddr] \in Nat
    <2> DEFINE to == note.provider
               price == note.purchasePrice
    <2>1. /\ usdc[b] >= price /\ usdc' = Moved(usdc, b, to, price) /\ price \in Nat
          /\ to \in Accounts /\ b \in Accounts /\ EscrowAddr # b /\ RevenueShareAddr # b
        BY <1>1, <1>5 DEF CanMove
    <2> HIDE DEF to, price
    <2>2. /\ usdc' \in [Accounts -> Nat] /\ \A a \in Accounts \ {b} : usdc'[a] >= usdc[a]
        BY <1>2, <2>1, MovedType
    <2> QED BY <1>2, <2>1, <2>2
<1>7. /\ usdc'[EscrowAddr] + othersPaid' >= usdc[EscrowAddr] + othersPaid + 0
      /\ othersBrought' = othersBrought + 0 /\ 0 \in Nat
    BY <1>1, <1>2, <1>6
<1> QED BY <1>1, <1>4, <1>6, <1>7, OthersQuietStep

LEMMA SettleOtherStep ==
    ASSUME FinanceInv, RevenueShareAddr \in Accounts, product = "notes",
           NEW payer \in Payers, NEW paid \in OtherClaims \cup {0},
           NEW id \in DOMAIN others, NEW earned \in OtherEarnings,
           SettleOther(id, earned, payer, paid), UNCHANGED <<cdpVars, product>>
    PROVE  FinanceInv' /\ Accrues /\ NotesSteady
<1> DEFINE note == others[id]
           ledger == Moved(usdc, payer, EscrowAddr, paid)
           settled == [note EXCEPT !.status = Outcome(note, earned)]
<1>1. /\ note.status = "Active" /\ OtherHarvest(payer, paid) /\ ledger[EscrowAddr] >= earned
      /\ usdc' = PaidOut(ledger, note, earned) /\ othersPaid' = othersPaid + earned
      /\ others' = [others EXCEPT ![id].status = Outcome(note, earned)]
    BY DEF SettleOther, Expired
<1>2. /\ OthersOK /\ others \in Seq(OtherType) /\ note \in OtherType /\ note.buyer \in Buyers
      /\ othersBrought \in Nat /\ othersPaid \in Nat /\ usdc[EscrowAddr] \in Nat
      /\ usdc \in [Accounts -> Nat] /\ earned \in Nat
    <2>1. OthersOK /\ usdc[EscrowAddr] \in Nat /\ usdc \in [Accounts -> Nat]
        BY CoreFacts DEF FinanceInv
    <2>2. /\ others \in Seq(OtherType) /\ othersBrought \in Nat /\ othersPaid \in Nat
          /\ note.status = "Active" => note.buyer \in Buyers
        BY <2>1 DEF OthersOK
    <2>3. note \in OtherType /\ earned \in Nat
        BY <2>2, FutureAssumption
    <2> QED BY <1>1, <2>1, <2>2, <2>3
<1>3. /\ paid \in Nat /\ ledger \in [Accounts -> Nat]
      /\ ledger[EscrowAddr] = usdc[EscrowAddr] + paid
      /\ ledger[RevenueShareAddr] >= usdc[RevenueShareAddr]
      /\ othersBrought' = othersBrought + paid
      /\ UNCHANGED <<now, ownershipVars, accountVars, accumulatorVars, harvestVars, notes>>
    BY <1>1, BroughtIn
<1>4. others' = [others EXCEPT ![id] = settled] /\ settled \in OtherType /\ settled.status # "Active"
    <2>1. others' = [others EXCEPT ![id] = settled]
        BY <1>1, <1>2
    <2>2. Outcome(note, earned) \in {"Settled", "Defaulted"}
        BY DEF Outcome
    <2> QED BY <1>2, <2>1, <2>2 DEF OtherType
<1> HIDE DEF settled
<1>5. OthersOK'
    <2>1. othersBrought' \in Nat /\ othersPaid' \in Nat
        BY <1>1, <1>2, <1>3
    <2> QED BY <1>2, <1>4, <2>1, OtherWritten
<1>6. note.provider \in Sellers /\ note.faceValue \in Nat
    BY <1>2 DEF OtherType
<1> HIDE DEF note, ledger
<1>7. /\ usdc' \in [Accounts -> Nat] /\ usdc'[EscrowAddr] = ledger[EscrowAddr] - earned
      /\ usdc'[RevenueShareAddr] >= ledger[RevenueShareAddr]
    BY <1>1, <1>2, <1>3, <1>6, PaidOutLedger
<1>8. usdc'[RevenueShareAddr] >= usdc[RevenueShareAddr]
    <2>1. /\ usdc'[RevenueShareAddr] \in Nat /\ ledger[RevenueShareAddr] \in Nat
          /\ usdc[RevenueShareAddr] \in Nat
        BY <1>2, <1>3, <1>7
    <2> QED BY <1>3, <1>7, <2>1
<1>9. usdc'[EscrowAddr] + othersPaid' >= usdc[EscrowAddr] + othersPaid + paid
    <2>1. /\ usdc'[EscrowAddr] = (usdc[EscrowAddr] + paid) - earned
          /\ othersPaid' = othersPaid + earned
        BY <1>1, <1>3, <1>7
    <2>2. usdc[EscrowAddr] \in Nat /\ othersPaid \in Nat /\ paid \in Nat /\ earned \in Nat
        BY <1>2, <1>3
    <2> QED BY <2>1, <2>2
<1> QED BY <1>3, <1>5, <1>7, <1>8, <1>9, OthersQuietStep

LEMMA ReclaimOtherStep ==
    ASSUME FinanceInv, RevenueShareAddr \in Accounts, product = "notes",
           NEW id \in DOMAIN others, ReclaimOther(id), UNCHANGED <<cdpVars, product>>
    PROVE  FinanceInv' /\ Accrues /\ NotesSteady
<1> DEFINE note == others[id]
           expired == [note EXCEPT !.status = "Expired"]
<1>1. /\ others' = [others EXCEPT ![id].status = "Expired"]
      /\ othersBrought' = othersBrought /\ othersPaid' = othersPaid /\ usdc' = usdc
      /\ UNCHANGED <<now, ownershipVars, accountVars, accumulatorVars, harvestVars, notes>>
    BY DEF ReclaimOther, shareVars
<1>2. /\ OthersOK /\ others \in Seq(OtherType) /\ note \in OtherType
      /\ othersBrought \in Nat /\ othersPaid \in Nat /\ usdc[EscrowAddr] \in Nat
      /\ usdc \in [Accounts -> Nat]
    BY CoreFacts DEF FinanceInv, OthersOK
<1>3. others' = [others EXCEPT ![id] = expired] /\ expired \in OtherType /\ expired.status # "Active"
    <2>1. others' = [others EXCEPT ![id] = expired]
        BY <1>1, <1>2
    <2> QED BY <1>2, <2>1 DEF OtherType
<1> HIDE DEF note, expired
<1>4. OthersOK'
    BY <1>1, <1>2, <1>3, OtherWritten
<1>5. /\ usdc' \in [Accounts -> Nat] /\ usdc'[RevenueShareAddr] >= usdc[RevenueShareAddr]
      /\ usdc'[EscrowAddr] + othersPaid' >= usdc[EscrowAddr] + othersPaid + 0
      /\ othersBrought' = othersBrought + 0 /\ 0 \in Nat
    <2>1. usdc[RevenueShareAddr] \in Nat
        BY <1>2
    <2> QED BY <1>1, <1>2, <2>1
<1> QED BY <1>1, <1>4, <1>5, OthersQuietStep

LEMMA HarvestOtherStep ==
    ASSUME FinanceInv, RevenueShareAddr \in Accounts, product = "notes",
           NEW payer \in Payers, NEW paid \in OtherClaims \cup {0},
           HarvestOther(payer, paid), UNCHANGED <<cdpVars, product>>
    PROVE  FinanceInv' /\ Accrues /\ NotesSteady
<1>1. /\ OtherHarvest(payer, paid) /\ usdc' = Moved(usdc, payer, EscrowAddr, paid)
      /\ others' = others /\ othersPaid' = othersPaid
    BY DEF HarvestOther
<1>2. OthersOK /\ othersBrought \in Nat /\ othersPaid \in Nat /\ usdc[EscrowAddr] \in Nat
    BY CoreFacts DEF FinanceInv, OthersOK
<1>3. /\ paid \in Nat /\ usdc' \in [Accounts -> Nat]
      /\ usdc'[EscrowAddr] = usdc[EscrowAddr] + paid
      /\ usdc'[RevenueShareAddr] >= usdc[RevenueShareAddr]
      /\ othersBrought' = othersBrought + paid
      /\ UNCHANGED <<now, ownershipVars, accountVars, accumulatorVars, harvestVars, notes>>
    BY <1>1, BroughtIn
<1>4. OthersOK'
    BY <1>1, <1>2, <1>3 DEF OthersOK
<1>5. usdc'[EscrowAddr] + othersPaid' >= usdc[EscrowAddr] + othersPaid + paid
    BY <1>1, <1>2, <1>3
<1> QED BY <1>3, <1>4, <1>5, OthersQuietStep

LEMMA OthersStep ==
    ASSUME FinanceInv, RevenueShareAddr \in Accounts, product = "notes", OthersNext,
           UNCHANGED <<cdpVars, product>>
    PROVE  FinanceInv' /\ Accrues /\ NotesSteady
    BY CreateOtherStep, PurchaseOtherStep, SettleOtherStep, ReclaimOtherStep, HarvestOtherStep
       DEF OthersNext

\* Payments, claims and transfers of others.
LEMMA ShareStep ==
    ASSUME FinanceInv, RevenueShareAddr \in Accounts, ShareNext,
           UNCHANGED <<harvestVars, notes, otherVars, cdpVars, product>>
    PROVE  FinanceInv' /\ Accrues
<1>1. /\ FinanceCore /\ ShareInv /\ positions \in [Borrowers -> PositionType]
      /\ usdc[EscrowAddr] \in Nat /\ rescued \in Nat
      /\ EscrowAddr \in Holders \ Claimants
      /\ EscrowAddr \in Accounts \ (Payers \cup {RevenueShareAddr})
    BY FinanceFacts, CoreFacts DEF FinanceInv
<1>2. ShareInv'
    BY <1>1, ShareInvStep
<1>3. /\ usdc'[EscrowAddr] >= usdc[EscrowAddr] /\ shares'[EscrowAddr] >= shares[EscrowAddr]
      /\ Claimable[EscrowAddr]' >= Claimable[EscrowAddr]
    BY <1>1, SharesElsewhere, CoinsElsewhere, ClaimsElsewhere
<1>4. UNCHANGED <<notes, otherVars, harvestVars, positions, rescued, bookings, product>>
    BY DEF cdpVars, historyVars
<1>5. FinanceCore' /\ Accrues
    <2>1. ProductOK'
        BY <1>1, <1>4 DEF FinanceCore, Books, ProductOK, otherVars
    <2>2. usdc'[EscrowAddr] + rescued' >= usdc[EscrowAddr] + rescued
        <3>1. usdc'[EscrowAddr] \in Nat
            BY <1>1, <1>2 DEF ShareInv, ShareTypeOK
        <3> QED BY <1>1, <1>3, <1>4, <3>1
    <2> QED BY <1>1, <1>2, <1>3, <1>4, <2>1, <2>2, IdleStep
<1>6. DebtsSafe
    BY <1>4, LoanFacts DEF DebtsSafe
<1> QED BY <1>5, <1>6, DebtsStaySafe DEF FinanceInv

LEMMA FinanceInvStep ==
    ASSUME FinanceInv, RevenueShareAddr \in Accounts, [FinanceNext]_financeVars
    PROVE  FinanceInv' /\ Accrues /\ NotesSteady
<1>1. ASSUME UNCHANGED notes PROVE NotesSteady
    BY <1>1 DEF NotesSteady
<1>2. CASE ShareNext /\ UNCHANGED <<harvestVars, notes, otherVars, cdpVars, product>>
    BY <1>1, <1>2, ShareStep
<1>3. CASE product = "notes" /\ FutureNext /\ UNCHANGED <<cdpVars, product>>
    BY <1>3, NotesStep, OthersStep DEF FutureNext
<1>4. CASE product = "loans" /\ CdpNext /\ UNCHANGED <<notes, otherVars, product>>
    BY <1>1, <1>4, LoansStep
<1>5. CASE UNCHANGED financeVars
    <2>1. UNCHANGED <<shareVars, harvestVars, notes, otherVars, positions, historyVars, product>>
        BY <1>5 DEF financeVars, cdpVars
    <2> QED BY <1>1, <2>1, StillStep
<1> QED BY <1>2, <1>3, <1>4, <1>5 DEF FinanceNext

LEMMA FinanceInvInit ==
    ASSUME RevenueShareAddr \in Accounts, FinanceInit
    PROVE  FinanceInv
<1>1. /\ ShareInit /\ rsHeld = 0 /\ accUsdcPerRawShare = 0 /\ notes = << >>
      /\ positions = [u \in Borrowers |-> NoPosition] /\ rescued = 0 /\ bookings = 0
      /\ product \in {"notes", "loans"}
      /\ others = << >> /\ othersBrought = 0 /\ othersPaid = 0
    BY FinanceAssumption DEF FinanceInit, HarvestInit, FutureInit, CdpInit
<1>2. ShareInv
    BY <1>1, ShareInvInit
<1>3. /\ shares[EscrowAddr] \in Nat /\ usdc[EscrowAddr] \in Nat /\ MaxNotes \in Nat
      /\ PRECISION \in Nat
    BY <1>2, FinanceFacts DEF ShareInv, ShareTypeOK
<1>4. NotesOK /\ OthersOK /\ ProductOK
    BY <1>1, <1>3 DEF NotesOK, OthersOK, ProductOK
<1>5. PositionsOK
    BY <1>1, NoPositionFacts DEF PositionsOK
<1>6. /\ Total(NoteShares) = 0 /\ Total(NoteWeight(0)) = 0
    <2>1. NoteShares = [i \in Slots |-> 0] /\ NoteWeight(0) = [i \in Slots |-> 0]
        BY <1>1 DEF NoteShares, NoteWeight
    <2> QED BY <2>1, TotalZero
<1>7. /\ Total(LoanShares) = 0 /\ Total(LoanWeight(0)) = 0
    <2>1. LoanShares = [u \in Borrowers |-> 0] /\ LoanWeight(0) = [u \in Borrowers |-> 0]
        BY <1>1, NoPositionFacts DEF LoanShares, LoanWeight
    <2> QED BY <2>1, TotalZero
<1>8. HeldInv
    BY <1>1, <1>3, <1>6, <1>7 DEF HeldInv
<1>9. Backed
    <2>1. Scaled(usdc[EscrowAddr] + Elsewhere + bookings) \in Nat /\ Scaled(othersBrought) = 0
        BY <1>1, <1>3 DEF Scaled, Elsewhere
    <2> QED BY <1>1, <1>6, <1>7, <2>1 DEF Backed, Covers
<1>10. DebtWithinLTV
    <2>1. NoPosition.debt = 0
        BY DEF NoPosition
    <2> QED BY <1>1, <2>1 DEF DebtWithinLTV
<1> QED BY <1>2, <1>4, <1>5, <1>8, <1>9, <1>10 DEF FinanceInv, FinanceCore, Books

LEMMA FinanceInvHolds == RevenueShareAddr \in Accounts => (FinanceSpec => []FinanceInv)
<1> SUFFICES ASSUME RevenueShareAddr \in Accounts PROVE FinanceSpec => []FinanceInv
    OBVIOUS
<1>1. FinanceInit => FinanceInv
    BY FinanceInvInit
<1>2. FinanceInv /\ [FinanceNext]_financeVars => FinanceInv'
    BY FinanceInvStep
<1> QED BY <1>1, <1>2, PTL DEF FinanceSpec

-----------------------------------------------------------------------------
(***************************************************************************)
(* The properties of the runs.                                             *)
(***************************************************************************)
LEMMA PartCovered ==
    ASSUME NEW T, IsFiniteSet(T), NEW S \in SUBSET T, NEW g \in [T -> Nat], NEW f \in [S -> Nat],
           \A a \in S : f[a] <= g[a]
    PROVE  Total(f) \in Nat /\ Total(g) \in Nat /\ Total(f) <= Total(g)
<1>1. IsFiniteSet(S)
    BY FS_Subset
<1>2. /\ IsFiniteSet(Coins(g)) /\ Total(f) \in Nat /\ Total(g) \in Nat
    BY <1>1, CoinsFinite
<1>3. Coins(f) \subseteq Coins(g)
    <2>1. ASSUME NEW c \in Coins(f) PROVE c \in Coins(g)
        <3>1. c = <<c[1], c[2]>> /\ c[1] \in S /\ c[2] \in 1 .. f[c[1]]
            BY CoinsOf
        <3>2. f[c[1]] \in Nat /\ g[c[1]] \in Nat /\ f[c[1]] <= g[c[1]] /\ c[1] \in T
            BY <3>1
        <3>3. c[2] \in 1 .. g[c[1]]
            BY <3>1, <3>2
        <3> QED BY <3>1, <3>2, <3>3, CoinsOf
    <2> QED BY <2>1
<1> QED BY <1>2, <1>3, FS_Subset DEF Total

\* Coins whose scaled amounts are covered, and some more with them, are covered.
LEMMA ScaledCovers ==
    ASSUME NEW S, IsFiniteSet(S), NEW f \in [S -> Nat], NEW w \in [S -> Nat], NEW coins \in Nat,
           NEW more \in Nat,
           \A a \in S : Scaled(f[a]) <= w[a], Total(w) + Scaled(more) <= Scaled(coins)
    PROVE  Total(f) \in Nat /\ Total(f) + more <= coins
<1>1. PRECISION \in Nat \ {0} /\ Total(f) \in Nat /\ Total(w) \in Nat
    BY FinanceFacts, CoinsFinite
<1>2. \A a \in S : PRECISION * f[a] <= w[a]
    BY DEF Scaled
<1>3. PRECISION * Total(f) <= Total(w)
    <2>1. PRECISION \in Nat
        BY <1>1
    <2> QED BY <1>2, <2>1, TotalScaled
<1> DEFINE t == Total(f) + more
<1>4. PRECISION * t <= PRECISION * coins
    <2> DEFINE tf == Total(f)
    <2>1. tf \in Nat /\ PRECISION * tf <= Total(w)
        BY <1>1, <1>3
    <2> HIDE DEF tf
    <2>2. /\ PRECISION * tf \in Nat /\ PRECISION * more \in Nat /\ PRECISION * coins \in Nat
          /\ PRECISION * (tf + more) = PRECISION * tf + PRECISION * more
        BY <1>1, <2>1
    <2>3. PRECISION * (tf + more) <= PRECISION * coins
        BY <1>1, <2>1, <2>2 DEF Scaled
    <2> QED BY <2>3 DEF tf
<1>5. t \in Nat
    BY <1>1
<1> HIDE DEF t
<1>6. ASSUME t >= coins + 1
      PROVE  FALSE
    <2>1. /\ (coins + 1) * PRECISION \in Nat /\ t * PRECISION \in Nat
          /\ (coins + 1) * PRECISION <= t * PRECISION
        <3>1. coins + 1 \in Nat /\ coins + 1 <= t
            BY <1>5, <1>6
        <3> QED BY <1>1, <1>5, <3>1, ProductOrder
    <2>2. /\ (coins + 1) * PRECISION = PRECISION * coins + PRECISION
          /\ t * PRECISION = PRECISION * t /\ PRECISION * coins \in Nat
        BY <1>1, <1>5
    <2> QED BY <1>1, <1>4, <2>1, <2>2
<1> QED BY <1>1, <1>5, <1>6 DEF t

(***************************************************************************)
(* APIRevenueFuture: whatever order notes are created, sold, settled and   *)
(* reclaimed in, and however each harvest was rounded, the contract holds  *)
(* what noteEarned has credited to all notes on the revenue share, beside  *)
(* what the claims on other contracts brought in, and the shares to give   *)
(* back to their providers.  What is missing went to notes on other        *)
(* contracts.                                                              *)
(***************************************************************************)
THEOREM NotesAreCovered == RevenueShareAddr \in Accounts => (FinanceSpec => []NotesCovered)
<1>1. FinanceInv => NotesCovered
    <2> SUFFICES ASSUME FinanceInv PROVE NotesCovered
        OBVIOUS
    <2> DEFINE A == accUsdcPerRawShare
               f == [id \in DOMAIN notes |-> EarnedAt(id, A)]
               s == [id \in DOMAIN notes |-> notes[id].collateralShares]
    <2>1. /\ FinanceCore /\ A \in Nat /\ A <= A /\ NotesOK /\ OthersOK /\ PositionsOK /\ HeldInv
          /\ usdc[EscrowAddr] \in Nat /\ shares[EscrowAddr] \in Nat
          /\ Covers(A, usdc[EscrowAddr]) /\ IsFiniteSet(Slots) /\ IsFiniteSet(Borrowers)
          /\ PRECISION \in Nat \ {0}
        BY CoreFacts, FinanceFacts DEF FinanceInv
    <2>2. CASE notes = << >> /\ othersBrought = 0 /\ othersPaid = 0
        <3>1. DOMAIN notes = {}
            BY <2>2
        <3>2. f = [a \in {} |-> 0] /\ s = [a \in {} |-> 0]
            BY <3>1
        <3>3. Total(f) = 0 /\ Total(s) = 0
            <4> HIDE DEF f, s
            <4> QED BY <3>2, TotalZero
        <3> QED BY <2>1, <2>2, <3>3 DEF NotesCovered
    <2>3. CASE rescued = 0 /\ bookings = 0
        <3>1. /\ NoteShares \in [Slots -> Nat] /\ NoteWeight(A) \in [Slots -> Nat]
              /\ LoanShares \in [Borrowers -> Nat] /\ LoanWeight(A) \in [Borrowers -> Nat]
              /\ DOMAIN notes \in SUBSET Slots
              /\ \A i \in DOMAIN notes : /\ notes[i].collateralShares \in Nat
                                          /\ NoteCredit(notes[i], A) \in Nat
            BY <2>1, NoteTypes, LoanTypes
        <3>2. ASSUME NEW i \in DOMAIN notes
              PROVE  EarnedAt(i, A) \in Nat /\ Scaled(EarnedAt(i, A)) <= NoteCredit(notes[i], A)
            <4>1. EarnedAt(i, A) = NoteCredit(notes[i], A) \div PRECISION
                BY DEF EarnedAt, NoteCredit
            <4>2. NoteCredit(notes[i], A) \in Nat
                BY <3>1
            <4> QED BY <2>1, <4>1, <4>2, FloorDivision DEF Scaled
        <3> DEFINE F == [i \in Slots |-> IF i \in DOMAIN notes THEN EarnedAt(i, A) ELSE 0]
        <3>3. F \in [Slots -> Nat] /\ f \in [DOMAIN notes -> Nat] /\ \A i \in DOMAIN notes : f[i] <= F[i]
            BY <3>1, <3>2
        <3>4. Total(F) + othersBrought <= usdc[EscrowAddr] + othersPaid /\ Total(F) \in Nat
            <4>1. \A i \in Slots : Scaled(F[i]) <= NoteWeight(A)[i]
                <5>1. Scaled(0) = 0
                    BY <2>1 DEF Scaled
                <5> QED BY <3>2, <5>1 DEF NoteWeight
            <4> DEFINE coins == usdc[EscrowAddr] + othersPaid
            <4>2. coins \in Nat /\ othersBrought \in Nat
                BY <2>1 DEF OthersOK
            <4>3. Total(NoteWeight(A)) + Scaled(othersBrought) <= Scaled(coins)
                <5>1. Total(NoteWeight(A)) \in Nat /\ Total(LoanWeight(A)) \in Nat
                    BY <2>1, <3>1, CoinsFinite
                <5>2. Scaled(othersBrought) \in Nat /\ Scaled(coins) \in Nat
                    BY <4>2, ScaledAdds
                <5>3. usdc[EscrowAddr] + Elsewhere + bookings = coins
                    <6>1. usdc[EscrowAddr] \in Nat /\ othersPaid \in Nat
                        BY <2>1 DEF OthersOK
                    <6> QED BY <2>3, <6>1 DEF Elsewhere
                <5> HIDE DEF A, coins
                <5>4. Total(NoteWeight(A)) + (Total(LoanWeight(A)) + Scaled(othersBrought))
                          <= Scaled(coins)
                    BY <2>1, <5>3 DEF Covers
                <5> QED BY <5>1, <5>2, <5>4
            <4> HIDE DEF F, coins
            <4>4. Total(F) \in Nat /\ Total(F) + othersBrought <= coins
                BY <2>1, <3>1, <3>3, <4>1, <4>2, <4>3, ScaledCovers
            <4> QED BY <4>4 DEF coins
        <3>5. Total(f) \in Nat /\ Total(f) <= Total(F)
            <4> HIDE DEF f, F
            <4> QED BY <2>1, <3>1, <3>3, PartCovered
        <3>6. s \in [DOMAIN notes -> Nat] /\ \A i \in DOMAIN notes : s[i] <= NoteShares[i]
            BY <3>1 DEF NoteShares
        <3>7. Total(s) \in Nat /\ Total(s) <= Total(NoteShares) /\ Total(NoteShares) \in Nat
            <4> HIDE DEF s
            <4> QED BY <2>1, <3>1, <3>6, PartCovered
        <3>8. Total(NoteShares) <= shares[EscrowAddr]
            <4>1. Total(LoanShares) \in Nat
                BY <2>1, <3>1, CoinsFinite
            <4> QED BY <2>1, <3>7, <4>1 DEF HeldInv
        <3> HIDE DEF F
        <3>9. /\ Total(f) + othersBrought <= usdc[EscrowAddr] + othersPaid
              /\ Total(s) <= shares[EscrowAddr]
            <4>1. othersBrought \in Nat /\ othersPaid \in Nat
                BY <2>1 DEF OthersOK
            <4> HIDE DEF f, s
            <4> QED BY <2>1, <3>4, <3>5, <3>7, <3>8, <4>1
        <3> QED BY <3>9 DEF NotesCovered
    <2> QED BY <2>1, <2>2, <2>3 DEF FinanceCore, Books, ProductOK, otherVars
<1> QED BY <1>1, FinanceInvHolds, PTL

(***************************************************************************)
(* APIUSD: every position can be evaluated without an underflow, and what  *)
(* all positions count as collateral is in the contract, but for less than *)
(* a coin per deposit or removal and for what rescueERC20 took.            *)
(***************************************************************************)
THEOREM EarningsAreBacked == RevenueShareAddr \in Accounts => (FinanceSpec => []EarningsBacked)
<1>1. FinanceInv => EarningsBacked
    <2> SUFFICES ASSUME FinanceInv PROVE EarningsBacked
        OBVIOUS
    <2> DEFINE A == accUsdcPerRawShare
               f == [u \in Borrowers |-> EarnedBy(positions[u], A)]
               coins == usdc[EscrowAddr] + rescued + bookings
    <2>1. /\ FinanceCore /\ A \in Nat /\ A <= A /\ NotesOK /\ PositionsOK
          /\ usdc[EscrowAddr] \in Nat /\ rescued \in Nat /\ bookings \in Nat
          /\ Covers(A, usdc[EscrowAddr]) /\ IsFiniteSet(Slots) /\ IsFiniteSet(Borrowers)
        BY CoreFacts, FinanceFacts DEF FinanceInv
    <2>2. /\ NoteWeight(A) \in [Slots -> Nat] /\ LoanWeight(A) \in [Borrowers -> Nat]
        BY <2>1, NoteTypes, LoanTypes
    <2>3. ASSUME NEW u \in Borrowers
          PROVE  /\ EarnedBy(positions[u], A) \in Nat
                 /\ Scaled(EarnedBy(positions[u], A)) <= LoanWeight(A)[u]
        <3>1. positions[u] \in PositionType /\ LoanCredit(positions[u], A) >= 0
            BY <2>1 DEF PositionsOK
        <3> QED BY <2>1, <3>1, EarnedCovered DEF LoanWeight
    <2>4. Total(LoanWeight(A)) <= Scaled(coins) /\ coins \in Nat
        <3>1. Total(NoteWeight(A)) \in Nat /\ Total(LoanWeight(A)) \in Nat
            BY <2>1, <2>2, CoinsFinite
        <3>2. coins \in Nat
            BY <2>1
        <3>3. Scaled(coins) \in Nat
            BY <3>2, ScaledAdds
        <3>4. CASE othersBrought = 0 /\ othersPaid = 0
            <4>1. Scaled(0) = 0
                BY FinanceFacts DEF Scaled
            <4>2. usdc[EscrowAddr] + Elsewhere + bookings = coins
                BY <2>1, <3>4 DEF Elsewhere
            <4> HIDE DEF A, coins
            <4>3. Total(NoteWeight(A)) + (Total(LoanWeight(A)) + 0) <= Scaled(coins)
                BY <2>1, <3>4, <4>1, <4>2 DEF Covers
            <4> QED BY <3>1, <3>2, <3>3, <4>3
        <3>5. CASE positions = [u \in Borrowers |-> NoPosition]
            <4>1. LoanWeight(A) = [u \in Borrowers |-> 0]
                BY <2>1, <3>5, NoPositionFacts DEF LoanWeight
            <4>2. Total(LoanWeight(A)) = 0
                <5> HIDE DEF A
                <5> QED BY <4>1, TotalZero
            <4> HIDE DEF A, coins
            <4> QED BY <3>2, <3>3, <4>2
        <3> QED BY <2>1, <3>4, <3>5 DEF FinanceCore, Books, ProductOK
    <2>5. f \in [Borrowers -> Nat] /\ \A u \in Borrowers : Scaled(f[u]) <= LoanWeight(A)[u]
        BY <2>3
    <2>6. Total(f) <= coins
        <3> HIDE DEF f, coins
        <3>1. Scaled(0) = 0 /\ 0 \in Nat
            BY FinanceFacts DEF Scaled
        <3>2. Total(LoanWeight(A)) + Scaled(0) <= Scaled(coins)
            <4>1. Total(LoanWeight(A)) \in Nat
                BY <2>1, <2>2, CoinsFinite
            <4> QED BY <2>4, <3>1, <4>1
        <3>3. Total(f) \in Nat /\ Total(f) + 0 <= coins
            BY <2>1, <2>2, <2>4, <2>5, <3>1, <3>2, ScaledCovers
        <3> QED BY <2>4, <3>3
    <2>7. \A u \in Borrowers : EarnedBy(positions[u], A) >= 0
        BY <2>3
    <2> QED BY <2>6, <2>7 DEF EarningsBacked
<1> QED BY <1>1, FinanceInvHolds, PTL

(***************************************************************************)
(* APIUSD: no sequence of opening, minting, repaying and moving shares     *)
(* leaves a debt beyond the ratio by more than the rounding of one coin.   *)
(***************************************************************************)
THEOREM DebtsStayWithinLTV == RevenueShareAddr \in Accounts => (FinanceSpec => []DebtWithinLTV)
    BY FinanceInvHolds, PTL DEF FinanceInv

(***************************************************************************)
(* Both contracts: no step, of whomever, takes away what an unsettled note *)
(* or an untouched position would be credited by a harvest: shares that    *)
(* come in later take no part of it.  Who gets the dividends of shares     *)
(* that left without a harvest is not said.                                *)
(***************************************************************************)
THEOREM EarningsAreKept == RevenueShareAddr \in Accounts => (FinanceSpec => EarningsKept)
<1> SUFFICES ASSUME RevenueShareAddr \in Accounts PROVE FinanceSpec => EarningsKept
    OBVIOUS
<1> DEFINE Keeps ==
        /\ \A id \in DOMAIN notes :
               notes'[id].collateralShares > 0 => NoteEarned(id)' >= NoteEarned(id)
        /\ \A u \in Borrowers :
               positions'[u] = positions[u] => CollateralValue(u)' >= CollateralValue(u)
<1>1. FinanceInv /\ [FinanceNext]_financeVars => Keeps
    <2> SUFFICES ASSUME FinanceInv, [FinanceNext]_financeVars PROVE Keeps
        OBVIOUS
    <2>1. /\ FinanceCore /\ FinanceCore' /\ Accrues /\ NotesSteady
          /\ AccAfter \in Nat /\ accUsdcPerRawShare \in Nat /\ accUsdcPerRawShare <= AccAfter
          /\ NotesOK /\ PRECISION \in Nat \ {0}
        BY FinanceInvStep, CoreFacts, FinanceFacts DEF FinanceInv
    <2>2. AccAfter' \in Nat
        BY <2>1, NextAccumulatorRises DEF FinanceCore, Books
    <2>3. ASSUME NEW id \in DOMAIN notes, notes'[id].collateralShares > 0
          PROVE  NoteEarned(id)' >= NoteEarned(id)
        <3> DEFINE n == notes[id].collateralShares
                   a == notes[id].accAtDeposit
                   x == (AccAfter - a) * n
                   y == (AccAfter' - a) * n
        <3>1. /\ id \in DOMAIN notes' /\ notes'[id].collateralShares = n
              /\ notes'[id].accAtDeposit = a
            BY <2>1, <2>3 DEF NotesSteady
        <3>2. AccAfter' >= AccAfter
            <4>1. rsHeld' # 0
                <5>1. rsHeld' = 0 => notes'[id].collateralShares = 0
                    BY <2>1, <3>1, NoneHeldNext
                <5> QED BY <2>3, <5>1
            <4> QED BY <2>1, <4>1 DEF Accrues
        <3>3. n \in Nat /\ a \in Nat /\ AccAfter - a \in Nat
            BY <2>1, NoteTypes
        <3>4. NoteEarned(id) = x \div PRECISION /\ NoteEarned(id)' = y \div PRECISION
            BY <3>1 DEF NoteEarned, EarnedAt
        <3>5. x \in Nat /\ y \in Nat /\ x <= y
            <4> DEFINE b == AccAfter - a
                       c == AccAfter' - a
            <4>1. b \in Nat /\ c \in Nat /\ b <= c
                BY <2>1, <2>2, <3>2, <3>3
            <4> HIDE DEF b, c, n
            <4>2. b * n \in Nat /\ c * n \in Nat /\ b * n <= c * n
                BY <3>3, <4>1, ProductOrder
            <4> QED BY <4>2 DEF b, c
        <3> HIDE DEF x, y
        <3>6. x \div PRECISION <= y \div PRECISION
            BY <2>1, <3>5, FloorMonotone
        <3>7. x \div PRECISION \in Nat /\ y \div PRECISION \in Nat
            BY <2>1, <3>5, FloorDivision
        <3> QED BY <3>4, <3>6, <3>7
    <2>4. ASSUME NEW u \in Borrowers, positions'[u] = positions[u]
          PROVE  CollateralValue(u)' >= CollateralValue(u)
        <3>1. positions[u] \in PositionType
            BY LoanFacts
        <3>2. AccAfter <= AccAfter' \/ positions[u].rsShares = 0
            <4>1. rsHeld' = 0 => positions'[u].rsShares = 0
                BY <2>1, NoneHeldNext
            <4> QED BY <2>1, <2>2, <2>4, <4>1 DEF Accrues
        <3>3. /\ EarnedBy(positions[u], AccAfter) \in Int
              /\ EarnedBy(positions[u], AccAfter') \in Int
              /\ EarnedBy(positions[u], AccAfter) <= EarnedBy(positions[u], AccAfter')
            BY <2>1, <2>2, <3>1, <3>2, EarnedGrows
        <3>4. CollateralValue(u)' = EarnedBy(positions[u], AccAfter')
            BY <2>4 DEF CollateralValue, EarnedBy, Gross
        <3> QED BY <3>3, <3>4 DEF CollateralValue
    <2> QED BY <2>3, <2>4
<1>2. Keeps => [Keeps]_financeVars
    OBVIOUS
<1> QED BY <1>1, FinanceInvHolds, PTL DEF FinanceSpec, EarningsKept
=============================================================================
