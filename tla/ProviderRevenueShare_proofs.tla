--------------------- MODULE ProviderRevenueShare_proofs --------------------
(***************************************************************************)
(* The revenue share owes its holders no more than it holds, whatever the  *)
(* number of holders, the scale of the accumulator and the payments.       *)
(*                                                                         *)
(* Solvent by itself is not inductive: a holder's claim is a rounded       *)
(* quotient, and shares that move take it along.  What is, is the same     *)
(* bound before the division: the weight of a holder is SCALE times what   *)
(* it may claim plus what the division drops.                              *)
(***************************************************************************)
EXTENDS ProviderRevenueShare, USDC_proofs, WellFoundedInduction

WeightAt(rps) ==
    [h \in Holders |-> SCALE * pendingClaims[h] + (rps - checkpoint[h]) * shares[h]]

Weight == WeightAt(revenuePerShare)

\* totalDistributed after a _distribute.
DistributedNow(ledger) ==
    IF Credits(ledger) THEN totalDistributed + Undistributed(ledger) ELSE totalDistributed

Covered == totalDistributed - totalClaimed <= usdc[RevenueShareAddr]

NoSupplyYet == ~genesisComplete => totalSupply = 0

Earned == Total(Weight) <= SCALE * (totalDistributed - totalClaimed)

ShareInv == ShareTypeOK /\ NoSupplyYet /\ Earned /\ Covered

-----------------------------------------------------------------------------
(***************************************************************************)
(* Arithmetic of the floor divisions.                                      *)
(***************************************************************************)
LEMMA FloorDivision ==
    ASSUME NEW x \in Nat, NEW d \in Nat \ {0}
    PROVE  /\ x \div d \in Nat
           /\ d * (x \div d) <= x
<1> DEFINE q == x \div d
           r == x % d
<1>1. q \in Nat /\ r \in Nat /\ x = d * q + r
    OBVIOUS
<1>2. d * q \in Nat
    BY <1>1
<1> HIDE DEF q, r
<1>3. d * q <= x
    BY <1>1, <1>2
<1> QED BY <1>1, <1>3 DEF q

(***************************************************************************)
(* The floor of a quotient is less than one below it.                      *)
(***************************************************************************)
LEMMA FloorNear ==
    ASSUME NEW x \in Nat, NEW d \in Nat \ {0}
    PROVE  /\ x \div d \in Nat
           /\ (x \div d) * d <= x
           /\ x < (x \div d) * d + d
<1> DEFINE q == x \div d
           r == x % d
<1>1. q \in Nat /\ r \in 0 .. d - 1 /\ x = d * q + r
    OBVIOUS
<1>2. d * q \in Nat /\ d * q = q * d
    BY <1>1
<1> HIDE DEF q, r
<1>3. q * d <= x /\ x < q * d + d
    BY <1>1, <1>2
<1> QED BY <1>1, <1>3 DEF q

LEMMA ProductOrder ==
    ASSUME NEW a \in Nat, NEW b \in Nat, NEW c \in Nat, a <= b
    PROVE  a * c \in Nat /\ b * c \in Nat /\ a * c <= b * c
    OBVIOUS

(***************************************************************************)
(* What a holder may claim, at any value the accumulator may have now or   *)
(* later, is a natural number that its weight covers.                      *)
(***************************************************************************)
LEMMA ClaimableCovered ==
    ASSUME ShareTypeOK, NEW rps \in Nat, revenuePerShare <= rps, NEW h \in Holders
    PROVE  /\ WeightAt(rps)[h] \in Nat
           /\ Accrued(h, rps) \in Nat
           /\ SCALE * Accrued(h, rps) <= (rps - checkpoint[h]) * shares[h]
           /\ ClaimableAt(h, rps) \in Nat
           /\ SCALE * ClaimableAt(h, rps) <= WeightAt(rps)[h]
<1> DEFINE x == (rps - checkpoint[h]) * shares[h]
<1>1. SCALE \in Nat \ {0}
    BY ShareAssumption
<1>2. /\ rps - checkpoint[h] \in Nat
      /\ shares[h] \in Nat
      /\ pendingClaims[h] \in Nat
    <2>1. checkpoint[h] \in 0 .. revenuePerShare /\ revenuePerShare \in Nat
        BY DEF ShareTypeOK
    <2> QED BY <2>1 DEF ShareTypeOK
<1>3. x \in Nat
    BY <1>2
<1>4. Accrued(h, rps) \in Nat /\ SCALE * Accrued(h, rps) <= x
    <2>1. x \div SCALE \in Nat /\ SCALE * (x \div SCALE) <= x
        BY <1>1, <1>3, FloorDivision
    <2> QED BY <2>1 DEF Accrued
<1>5. SCALE * pendingClaims[h] \in Nat
    BY <1>1, <1>2
<1>6. WeightAt(rps)[h] = SCALE * pendingClaims[h] + x
    BY DEF WeightAt
<1>7. /\ ClaimableAt(h, rps) = pendingClaims[h] + Accrued(h, rps)
      /\ ClaimableAt(h, rps) \in Nat
    BY <1>2, <1>4 DEF ClaimableAt
<1>8. SCALE * ClaimableAt(h, rps) = SCALE * pendingClaims[h] + SCALE * Accrued(h, rps)
    BY <1>1, <1>2, <1>4, <1>7
<1>9. SCALE * Accrued(h, rps) \in Nat
    BY <1>1, <1>4
<1> HIDE DEF x
<1>10. SCALE * ClaimableAt(h, rps) <= WeightAt(rps)[h]
    BY <1>3, <1>4, <1>5, <1>6, <1>8, <1>9
<1>11. WeightAt(rps)[h] \in Nat
    BY <1>3, <1>5, <1>6
<1> QED BY <1>4, <1>7, <1>10, <1>11 DEF x

LEMMA WeightType ==
    ASSUME ShareTypeOK, NEW rps \in Nat, revenuePerShare <= rps
    PROVE  WeightAt(rps) \in [Holders -> Nat]
<1>1. \A h \in Holders : WeightAt(rps)[h] \in Nat
    BY ClaimableCovered
<1> QED BY <1>1 DEF WeightAt

(***************************************************************************)
(* _distribute credits the holders with no more than what arrived: the     *)
(* bound on the weights holds at the new value of the accumulator, and     *)
(* what is distributed and not claimed is at most the balance.             *)
(***************************************************************************)
LEMMA DistributionCovered ==
    ASSUME ShareTypeOK, Earned, NEW ledger \in [Accounts -> Nat],
           RevenueShareAddr \in Accounts, Readable(ledger)
    PROVE  /\ RevenuePerShareNow(ledger) \in Nat
           /\ revenuePerShare <= RevenuePerShareNow(ledger)
           /\ DistributedNow(ledger) \in Nat
           /\ totalDistributed <= DistributedNow(ledger)
           /\ DistributedNow(ledger) - totalClaimed <= ledger[RevenueShareAddr]
           /\ Total(WeightAt(RevenuePerShareNow(ledger)))
                 <= SCALE * (DistributedNow(ledger) - totalClaimed)
<1>1. /\ SCALE \in Nat \ {0} /\ IsFiniteSet(Holders)
      /\ totalDistributed \in Nat /\ totalClaimed \in Nat
      /\ revenuePerShare \in Nat
      /\ shares \in [Holders -> Nat]
      /\ totalSupply = Total(shares)
      /\ ledger[RevenueShareAddr] \in Nat
    BY ShareAssumption DEF ShareTypeOK
<1>2. /\ Undistributed(ledger) = ledger[RevenueShareAddr] - (totalDistributed - totalClaimed)
      /\ Undistributed(ledger) \in Nat
    BY <1>1 DEF Readable, Undistributed
<1>3. CASE ~Credits(ledger)
    <2>1. /\ RevenuePerShareNow(ledger) = revenuePerShare
          /\ DistributedNow(ledger) = totalDistributed
        BY <1>3 DEF RevenuePerShareNow, DistributedNow
    <2>2. totalDistributed - totalClaimed <= ledger[RevenueShareAddr]
        BY <1>1, <1>2
    <2> QED BY <1>1, <2>1, <2>2 DEF Earned, Weight
<1>4. CASE Credits(ledger)
    <2> DEFINE u == Undistributed(ledger)
               d == (u * SCALE) \div totalSupply
               rps == revenuePerShare + d
    <2>1. totalSupply \in Nat \ {0}
        BY <1>1, <1>4, CoinsFinite DEF Credits
    <2>2. d \in Nat /\ totalSupply * d <= u * SCALE
        <3>1. u * SCALE \in Nat
            BY <1>1, <1>2
        <3> QED BY <2>1, <3>1, FloorDivision
    <2>3. RevenuePerShareNow(ledger) = rps /\ DistributedNow(ledger) = totalDistributed + u
        BY <1>4 DEF RevenuePerShareNow, DistributedNow
    <2> HIDE DEF d
    <2>4. rps \in Nat /\ revenuePerShare <= rps
        BY <1>1, <2>2
    <2> HIDE DEF rps
    <2>5. Weight \in [Holders -> Nat] /\ WeightAt(rps) \in [Holders -> Nat]
        BY <1>1, <2>4, WeightType DEF Weight
    <2>6. ASSUME NEW h \in Holders
          PROVE  WeightAt(rps)[h] <= Weight[h] + d * shares[h]
        <3> DEFINE a == revenuePerShare - checkpoint[h]
                   p == SCALE * pendingClaims[h]
        <3>1. shares[h] \in Nat /\ a \in Int /\ rps - checkpoint[h] = a + d /\ p \in Int
            BY <1>1, <2>2 DEF ShareTypeOK, rps
        <3>2. (a + d) * shares[h] = a * shares[h] + d * shares[h]
            BY <2>2, <3>1
        <3>3. a * shares[h] \in Int /\ d * shares[h] \in Int
            BY <2>2, <3>1
        <3>4. WeightAt(rps)[h] = p + (rps - checkpoint[h]) * shares[h]
            BY DEF WeightAt
        <3>5. Weight[h] = p + a * shares[h]
            BY DEF WeightAt, Weight
        <3> HIDE DEF a, p
        <3> QED BY <3>1, <3>2, <3>3, <3>4, <3>5
    <2>7. Total(WeightAt(rps)) <= Total(Weight) + d * totalSupply
        BY <1>1, <2>2, <2>5, <2>6, TotalGrowth
    <2>8. Total(WeightAt(rps)) \in Nat /\ Total(Weight) \in Nat
        BY <1>1, <2>5, CoinsFinite
    <2>9. d * totalSupply = totalSupply * d /\ d * totalSupply \in Nat
        BY <2>1, <2>2
    <2>10. /\ totalDistributed + u - totalClaimed = (totalDistributed - totalClaimed) + u
           /\ SCALE * ((totalDistributed - totalClaimed) + u)
                 = SCALE * (totalDistributed - totalClaimed) + u * SCALE
           /\ SCALE * (totalDistributed - totalClaimed) \in Int /\ u * SCALE \in Nat
        BY <1>1, <1>2
    <2>11. Total(WeightAt(rps)) <= SCALE * (totalDistributed + u - totalClaimed)
        BY <2>2, <2>7, <2>8, <2>9, <2>10 DEF Earned
    <2>12. totalDistributed + u - totalClaimed <= ledger[RevenueShareAddr]
        BY <1>1, <1>2
    <2> QED BY <1>1, <1>2, <2>3, <2>4, <2>11, <2>12
<1> QED BY <1>3, <1>4

(***************************************************************************)
(* What InternalDistribute leaves behind.                                  *)
(***************************************************************************)
LEMMA Distributed ==
    ASSUME ShareTypeOK, NEW ledger \in [Accounts -> Nat], InternalDistribute(ledger)
    PROVE  /\ Readable(ledger)
           /\ revenuePerShare' = RevenuePerShareNow(ledger)
           /\ totalDistributed' = DistributedNow(ledger)
    BY DEF InternalDistribute, RevenuePerShareNow, DistributedNow, accumulatorVars, snapshotVars

LEMMA SnapshotTypes ==
    ASSUME ShareTypeOK, NEW rps \in Nat, TakeSnapshotIfNeeded(rps) \/ UNCHANGED snapshotVars
    PROVE  /\ recentSnapshots' \in [0 .. MAX_SNAPSHOTS - 1 -> [revenuePerShare : Nat, timestamp : Nat]]
           /\ snapshotIndex' \in 0 .. MAX_SNAPSHOTS - 1
           /\ totalSnapshotCount' \in Nat \ {0}
           /\ lastSnapshotTime' \in Nat
<1>1. CASE UNCHANGED snapshotVars
    BY <1>1 DEF snapshotVars, ShareTypeOK
<1>2. CASE TakeSnapshotIfNeeded(rps) /\ ~(UNCHANGED snapshotVars)
    <2> DEFINE next == (snapshotIndex + 1) % MAX_SNAPSHOTS
    <2>1. next \in 0 .. MAX_SNAPSHOTS - 1
        BY ShareAssumption DEF ShareTypeOK
    <2>2. /\ snapshotIndex' = next
          /\ recentSnapshots' = [recentSnapshots EXCEPT
                 ![next] = [revenuePerShare |-> rps, timestamp |-> now]]
          /\ totalSnapshotCount' = totalSnapshotCount + 1
          /\ lastSnapshotTime' = now
        BY <1>2 DEF TakeSnapshotIfNeeded
    <2> HIDE DEF next
    <2> QED BY <2>1, <2>2 DEF ShareTypeOK
<1> QED BY <1>1, <1>2

-----------------------------------------------------------------------------
LEMMA ShareInvInit ==
    ASSUME ShareInit, RevenueShareAddr \in Accounts
    PROVE  ShareInv
<1> USE ShareAssumption
<1>1. shares = [h \in Holders |-> 0] /\ totalSupply = 0 /\ Total(shares) = 0
    BY TotalZero DEF ShareInit
<1>2. ShareTypeOK
    <2>1. usdc \in [Accounts -> Nat] /\ now \in Nat
        BY DEF ShareInit
    <2>2. shares \in [Holders -> Nat] /\ totalSupply = Total(shares)
        <3>1. shares = [h \in Holders |-> 0] /\ totalSupply = Total(shares)
            BY <1>1
        <3> QED BY <3>1
    <2>5. genesisComplete \in BOOLEAN
        BY DEF ShareInit
    <2>4. /\ revenuePerShare \in Nat /\ checkpoint \in [Holders -> 0 .. revenuePerShare]
          /\ pendingClaims \in [Holders -> Nat]
          /\ totalDistributed \in Nat /\ totalClaimed \in 0 .. totalDistributed
        BY DEF ShareInit
    <2>3. /\ recentSnapshots \in [0 .. MAX_SNAPSHOTS - 1 -> [revenuePerShare : Nat, timestamp : Nat]]
          /\ snapshotIndex \in 0 .. MAX_SNAPSHOTS - 1
          /\ totalSnapshotCount \in Nat \ {0} /\ lastSnapshotTime \in Nat
        BY DEF ShareInit
    <2> QED BY <2>1, <2>2, <2>3, <2>4, <2>5 DEF ShareTypeOK
<1>3. Weight = [h \in Holders |-> 0]
    BY DEF ShareInit, Weight, WeightAt
<1>4. Total(Weight) = 0
    BY <1>3, TotalZero
<1>5. Earned
    BY <1>4 DEF ShareInit, Earned
<1>6. NoSupplyYet /\ Covered
    BY DEF ShareInit, NoSupplyYet, Covered
<1> QED BY <1>2, <1>5, <1>6 DEF ShareInv

(***************************************************************************)
(* The recipient of the genesis shares held none before: what it weighs    *)
(* stays what it was.                                                      *)
(***************************************************************************)
LEMMA GenesisMintStep ==
    ASSUME ShareInv, NEW to \in Holders, NEW n \in GenesisShares, GenesisMint(to, n)
    PROVE  ShareInv' /\ Claimable' = Claimable
<1> USE DEF ShareInv
<1>1. /\ shares \in [Holders -> Nat] /\ shares' = [shares EXCEPT ![to] = shares[to] + n]
      /\ n \in Nat /\ totalSupply = 0 /\ totalSupply' = n
      /\ revenuePerShare \in Nat /\ revenuePerShare' = revenuePerShare
      /\ checkpoint' = [checkpoint EXCEPT ![to] = revenuePerShare]
      /\ checkpoint \in [Holders -> 0 .. revenuePerShare]
      /\ pendingClaims \in [Holders -> Nat] /\ pendingClaims' = pendingClaims
      /\ UNCHANGED <<usdc, now, totalClaimed, accumulatorVars>>
    BY ShareAssumption DEF GenesisMint, ShareTypeOK, NoSupplyYet, accumulatorVars
<1>2. Total(shares) = 0 /\ Total(shares) = shares[to] + Cardinality(OtherCoins(shares, to))
    BY <1>1, ShareAssumption, TotalSplit DEF ShareTypeOK
<1>3. shares[to] = 0
    BY <1>1, <1>2, ShareAssumption, TotalSplit
<1>4. Total(shares') = n
    <2>1. shares[to] + n = n /\ shares' = [shares EXCEPT ![to] = n]
        BY <1>1, <1>3
    <2>2. Total([shares EXCEPT ![to] = n]) = Total(shares) - shares[to] + n
        <3>1. shares \in [Holders -> Nat] /\ n \in Nat /\ IsFiniteSet(Holders)
            BY <1>1, ShareAssumption
        <3> QED BY <3>1, TotalUpdate
    <2> QED BY <1>1, <1>2, <1>3, <2>1, <2>2
<1>5. ASSUME NEW h \in Holders
      PROVE  (revenuePerShare - checkpoint'[h]) * shares'[h]
                = (revenuePerShare - checkpoint[h]) * shares[h]
    <2>1. CASE h = to
        <3>1. revenuePerShare - checkpoint'[h] = 0 /\ shares'[h] = n /\ shares[h] = 0
            BY <1>1, <1>3, <2>1
        <3>2. revenuePerShare - checkpoint[h] \in Int
            BY <1>1
        <3> QED BY <1>1, <3>1, <3>2
    <2>2. CASE h # to
        BY <1>1, <2>2
    <2> QED BY <2>1, <2>2
<1>6. Weight' = Weight
    BY <1>1, <1>5 DEF Weight, WeightAt
<1>7. Claimable' = Claimable
    BY <1>1, <1>5 DEF Claimable, ClaimableAt, Accrued
<1>8. ShareTypeOK'
    <2>1. shares' \in [Holders -> Nat] /\ totalSupply' = Total(shares')
        BY <1>1, <1>4
    <2>2. checkpoint' \in [Holders -> 0 .. revenuePerShare']
        BY <1>1
    <2>3. /\ genesisComplete' \in BOOLEAN
          /\ UNCHANGED <<usdc, now, pendingClaims, totalClaimed, accumulatorVars>>
        BY DEF GenesisMint
    <2> QED BY <2>1, <2>2, <2>3 DEF ShareTypeOK, accumulatorVars, snapshotVars
<1>9. NoSupplyYet'
    BY DEF GenesisMint, NoSupplyYet
<1>10. Earned' /\ Covered'
    BY <1>1, <1>6 DEF Earned, Covered, accumulatorVars
<1> QED BY <1>7, <1>8, <1>9, <1>10

(***************************************************************************)
(* Whatever ledger it is told about, InternalDistribute keeps the types of *)
(* what it writes.                                                         *)
(***************************************************************************)
LEMMA DistributedTypes ==
    ASSUME ShareTypeOK, Earned, NEW ledger \in [Accounts -> Nat],
           RevenueShareAddr \in Accounts, InternalDistribute(ledger)
    PROVE  /\ revenuePerShare' \in Nat /\ revenuePerShare <= revenuePerShare'
           /\ totalDistributed' \in Nat /\ totalDistributed <= totalDistributed'
           /\ totalDistributed' - totalClaimed <= ledger[RevenueShareAddr]
           /\ Total(WeightAt(revenuePerShare')) <= SCALE * (totalDistributed' - totalClaimed)
           /\ WeightAt(revenuePerShare') \in [Holders -> Nat]
           /\ checkpoint \in [Holders -> 0 .. revenuePerShare']
           /\ recentSnapshots' \in [0 .. MAX_SNAPSHOTS - 1 -> [revenuePerShare : Nat, timestamp : Nat]]
           /\ snapshotIndex' \in 0 .. MAX_SNAPSHOTS - 1
           /\ totalSnapshotCount' \in Nat \ {0}
           /\ lastSnapshotTime' \in Nat
<1>1. /\ Readable(ledger)
      /\ revenuePerShare' = RevenuePerShareNow(ledger)
      /\ totalDistributed' = DistributedNow(ledger)
    BY Distributed
<1>2. /\ revenuePerShare' \in Nat /\ revenuePerShare <= revenuePerShare'
      /\ totalDistributed' \in Nat /\ totalDistributed <= totalDistributed'
      /\ totalDistributed' - totalClaimed <= ledger[RevenueShareAddr]
      /\ Total(WeightAt(revenuePerShare')) <= SCALE * (totalDistributed' - totalClaimed)
    BY <1>1, DistributionCovered
<1>3. checkpoint \in [Holders -> 0 .. revenuePerShare']
    <2>1. checkpoint \in [Holders -> 0 .. revenuePerShare] /\ revenuePerShare \in Nat
        BY DEF ShareTypeOK
    <2> QED BY <1>2, <2>1
<1>4. WeightAt(revenuePerShare') \in [Holders -> Nat]
    BY <1>2, WeightType
<1>5. TakeSnapshotIfNeeded(RevenuePerShareNow(ledger)) \/ UNCHANGED snapshotVars
    BY DEF InternalDistribute, accumulatorVars
<1> QED BY <1>1, <1>2, <1>3, <1>4, <1>5, SnapshotTypes

(***************************************************************************)
(* A distribution over a ledger keeps the invariant of any state that      *)
(* holds at least that ledger's coins: what moved before _distribute       *)
(* (a split) is part of the ledger.                                        *)
(***************************************************************************)
LEMMA DistributeOverStep ==
    ASSUME ShareInv, RevenueShareAddr \in Accounts,
           NEW ledger \in [Accounts -> Nat], InternalDistribute(ledger), usdc' = ledger,
           UNCHANGED <<now, ownershipVars, accountVars>>
    PROVE  ShareInv'
<1> USE DEF ShareInv
<1>1. UNCHANGED <<now, shares, totalSupply, genesisComplete, checkpoint, pendingClaims, totalClaimed>>
    BY DEF ownershipVars, accountVars
<1>2. totalClaimed' \in 0 .. totalDistributed'
    <2>1. /\ totalDistributed' \in Nat /\ totalDistributed \in Nat
          /\ totalDistributed <= totalDistributed' /\ totalClaimed \in 0 .. totalDistributed
        BY DistributedTypes DEF ShareTypeOK
    <2> QED BY <1>1, <2>1
<1>3. ShareTypeOK'
    <2>1. /\ revenuePerShare' \in Nat /\ totalDistributed' \in Nat
          /\ checkpoint' \in [Holders -> 0 .. revenuePerShare']
        BY <1>1, DistributedTypes
    <2>2. /\ recentSnapshots' \in [0 .. MAX_SNAPSHOTS - 1 -> [revenuePerShare : Nat, timestamp : Nat]]
          /\ snapshotIndex' \in 0 .. MAX_SNAPSHOTS - 1
          /\ totalSnapshotCount' \in Nat \ {0} /\ lastSnapshotTime' \in Nat
        BY DistributedTypes
    <2> QED BY <1>1, <1>2, <2>1, <2>2 DEF ShareTypeOK
<1>4. Weight' = WeightAt(revenuePerShare')
    BY <1>1 DEF Weight, WeightAt
<1>5. Earned'
    BY <1>1, <1>4, DistributedTypes DEF Earned
<1>6. Covered'
    BY <1>1, DistributedTypes DEF Covered
<1>7. NoSupplyYet'
    BY <1>1 DEF NoSupplyYet
<1> QED BY <1>3, <1>5, <1>6, <1>7

LEMMA DistributeStep ==
    ASSUME ShareInv, RevenueShareAddr \in Accounts, Distribute
    PROVE  ShareInv'
<1>1. usdc \in [Accounts -> Nat] /\ InternalDistribute(usdc) /\ usdc' = usdc
    BY DEF ShareInv, ShareTypeOK, Distribute
<1>2. UNCHANGED <<now, ownershipVars, accountVars>>
    BY DEF Distribute
<1> QED BY <1>1, <1>2, DistributeOverStep

LEMMA WeightCleared ==
    ASSUME NEW f \in [Holders -> Nat], NEW h \in Holders
    PROVE  Total(f) \in Nat /\ Total([f EXCEPT ![h] = 0]) = Total(f) - f[h]
<1>1. IsFiniteSet(Holders)
    BY ShareAssumption
<1>2. ASSUME NEW n \in Nat
      PROVE  Total(f) \in Nat /\ Total([f EXCEPT ![h] = n]) = Total(f) - f[h] + n
    BY <1>1, TotalUpdate
<1>3. Total(f) \in Nat /\ Total([f EXCEPT ![h] = 0]) = Total(f) - f[h] + 0
    BY <1>2
<1> QED BY <1>3

(***************************************************************************)
(* One holder is paid what it may claim after a _distribute, and its       *)
(* weight is gone with it; shares may move in the same step as long as no  *)
(* other weight grows.  The others stay covered by what is left.           *)
(***************************************************************************)
LEMMA PaidOutStep ==
    ASSUME ShareInv, RevenueShareAddr \in Accounts, InternalDistribute(usdc),
           NEW h \in Holders, NEW owed \in Nat, owed = ClaimableAt(h, revenuePerShare'),
           totalClaimed' = totalClaimed + owed,
           usdc' \in [Accounts -> Nat],
           usdc'[RevenueShareAddr] >= usdc[RevenueShareAddr] - owed,
           shares' \in [Holders -> Nat], Total(shares') = Total(shares),
           checkpoint' \in [Holders -> 0 .. revenuePerShare'],
           pendingClaims' \in [Holders -> Nat],
           Weight' \in [Holders -> Nat], Weight'[h] = 0,
           \A g \in Holders \ {h} : Weight'[g] <= WeightAt(revenuePerShare')[g],
           UNCHANGED <<now, totalSupply, genesisComplete>>
    PROVE  ShareInv'
<1> USE DEF ShareInv
<1>2. /\ usdc \in [Accounts -> Nat]
      /\ totalClaimed \in Nat /\ SCALE \in Nat \ {0} /\ IsFiniteSet(Holders)
    BY ShareAssumption DEF ShareTypeOK
<1>3. /\ revenuePerShare' \in Nat /\ revenuePerShare <= revenuePerShare'
      /\ totalDistributed' \in Nat
      /\ totalDistributed' - totalClaimed <= usdc[RevenueShareAddr]
      /\ Total(WeightAt(revenuePerShare')) <= SCALE * (totalDistributed' - totalClaimed)
      /\ WeightAt(revenuePerShare') \in [Holders -> Nat]
    BY <1>2, DistributedTypes
<1>4. SCALE * owed <= WeightAt(revenuePerShare')[h]
    BY <1>3, ClaimableCovered
<1>7. /\ Total(WeightAt(revenuePerShare')) \in Nat
      /\ Total(Weight') \in Nat
      /\ Total(Weight') <= Total(WeightAt(revenuePerShare')) - WeightAt(revenuePerShare')[h]
    <2> DEFINE W == WeightAt(revenuePerShare')
               R == [W EXCEPT ![h] = 0]
    <2>1. W \in [Holders -> Nat] /\ IsFiniteSet(Holders)
        BY <1>2, <1>3
    <2>2. /\ R \in [Holders -> Nat]
          /\ \A g \in Holders : Weight'[g] <= R[g]
        BY <2>1
    <2> HIDE DEF W, R
    <2>3. Total(W) \in Nat /\ Total(R) = Total(W) - W[h]
        BY <2>1, WeightCleared DEF R
    <2>4. Total(Weight') <= Total(R) /\ Total(Weight') \in Nat /\ Total(R) \in Nat
        BY <2>1, <2>2, TotalMonotone, CoinsFinite
    <2> QED BY <2>1, <2>3, <2>4 DEF W
<1>9. /\ totalDistributed' - totalClaimed' = (totalDistributed' - totalClaimed) - owed
      /\ SCALE * ((totalDistributed' - totalClaimed) - owed)
            = SCALE * (totalDistributed' - totalClaimed) - SCALE * owed
      /\ SCALE * (totalDistributed' - totalClaimed) \in Int /\ SCALE * owed \in Nat
    BY <1>2, <1>3
<1>10. Total(Weight') <= SCALE * (totalDistributed' - totalClaimed')
    <2>1. WeightAt(revenuePerShare')[h] \in Nat
        BY <1>3
    <2> QED BY <1>3, <1>4, <1>7, <1>9, <2>1
<1>11. totalClaimed' \in 0 .. totalDistributed'
    <2> DEFINE left == totalDistributed' - totalClaimed'
    <2>1. totalDistributed' \in Int /\ totalClaimed' \in Nat /\ left \in Int
        BY <1>2, <1>3
    <2>3. 0 <= SCALE * left
        <3>1. SCALE * left \in Int
            BY <1>2, <2>1
        <3> QED BY <1>7, <1>10, <3>1
    <2> HIDE DEF left
    <2>2. 0 <= left
        <3> SUFFICES ASSUME left <= -1 PROVE FALSE
            BY <2>1
        <3>1. SCALE * left <= SCALE * (-1)
            BY <1>2, <2>1
        <3> QED BY <1>2, <2>1, <2>3, <3>1
    <2>4. totalDistributed' - totalClaimed' >= 0
        BY <2>2 DEF left
    <2>5. totalDistributed' \in Int /\ totalClaimed' \in Nat
        BY <1>2, <1>3
    <2>6. \A c \in Nat, d \in Int : d - c >= 0 => c \in 0 .. d
        OBVIOUS
    <2> QED BY <2>4, <2>5, <2>6
<1>13. Covered'
    <2>1. usdc[RevenueShareAddr] \in Nat /\ usdc'[RevenueShareAddr] \in Nat
        BY <1>2
    <2> QED BY <1>2, <1>3, <1>9, <2>1 DEF Covered
<1>14. ShareTypeOK'
    <2>1. /\ recentSnapshots' \in [0 .. MAX_SNAPSHOTS - 1 -> [revenuePerShare : Nat, timestamp : Nat]]
          /\ snapshotIndex' \in 0 .. MAX_SNAPSHOTS - 1
          /\ totalSnapshotCount' \in Nat \ {0} /\ lastSnapshotTime' \in Nat
        BY <1>2, DistributedTypes
    <2>2. totalSupply' = Total(shares')
        BY DEF ShareTypeOK
    <2> QED BY <1>3, <1>11, <2>1, <2>2 DEF ShareTypeOK
<1>15. NoSupplyYet'
    BY DEF NoSupplyYet
<1>16. Earned'
    BY <1>10 DEF Earned
<1> QED BY <1>13, <1>14, <1>15, <1>16

(***************************************************************************)
(* A claim pays the claimant all it may claim.                             *)
(***************************************************************************)
LEMMA ClaimStep ==
    ASSUME ShareInv, RevenueShareAddr \in Accounts,
           NEW h \in Holders, NEW to \in Accounts, Claim(h, to)
    PROVE  /\ ShareInv'
           /\ \E owed \in Nat \ {0} :
                 /\ owed = ClaimableAt(h, revenuePerShare')
                 /\ usdc' = Moved(usdc, RevenueShareAddr, to, owed)
                 /\ owed <= usdc[RevenueShareAddr]
<1> USE DEF ShareInv
<1> DEFINE owed == ClaimableAt(h, RevenuePerShareNow(usdc))
<1>1. /\ InternalDistribute(usdc)
      /\ owed > 0
      /\ usdc[RevenueShareAddr] >= owed
      /\ usdc' = Moved(usdc, RevenueShareAddr, to, owed)
      /\ pendingClaims' = [pendingClaims EXCEPT ![h] = 0]
      /\ checkpoint' = [checkpoint EXCEPT ![h] = RevenuePerShareNow(usdc)]
      /\ totalClaimed' = totalClaimed + owed
      /\ UNCHANGED <<now, shares, totalSupply, genesisComplete>>
    BY DEF Claim, CanMove, ownershipVars
<1>2. /\ usdc \in [Accounts -> Nat] /\ shares \in [Holders -> Nat]
      /\ pendingClaims \in [Holders -> Nat] /\ SCALE \in Nat \ {0}
    BY ShareAssumption DEF ShareTypeOK
<1>3. /\ revenuePerShare' = RevenuePerShareNow(usdc)
      /\ revenuePerShare' \in Nat /\ revenuePerShare <= revenuePerShare'
      /\ WeightAt(revenuePerShare') \in [Holders -> Nat]
      /\ checkpoint \in [Holders -> 0 .. revenuePerShare']
    BY <1>1, <1>2, Distributed, DistributedTypes
<1>4. owed \in Nat
    BY <1>3, ClaimableCovered
<1>5. owed = ClaimableAt(h, revenuePerShare')
    BY <1>3
<1> HIDE DEF owed
<1>6. /\ Weight' \in [Holders -> Nat]
      /\ Weight'[h] = 0
      /\ \A g \in Holders \ {h} : Weight'[g] = WeightAt(revenuePerShare')[g]
    <2>1. /\ Weight' = [g \in Holders |-> SCALE * pendingClaims'[g]
                           + (revenuePerShare' - checkpoint'[g]) * shares'[g]]
          /\ WeightAt(revenuePerShare') = [g \in Holders |-> SCALE * pendingClaims[g]
                           + (revenuePerShare' - checkpoint[g]) * shares[g]]
        BY DEF Weight, WeightAt
    <2>2. ASSUME NEW g \in Holders, g # h
          PROVE  Weight'[g] = WeightAt(revenuePerShare')[g]
        BY <1>1, <2>1, <2>2
    <2>3. Weight'[h] = 0
        <3>1. /\ pendingClaims'[h] = 0 /\ revenuePerShare' - checkpoint'[h] = 0
              /\ shares'[h] \in Nat
            BY <1>1, <1>2, <1>3
        <3>2. Weight'[h] = SCALE * pendingClaims'[h] + (revenuePerShare' - checkpoint'[h]) * shares'[h]
            BY <2>1
        <3> QED BY <1>2, <3>1, <3>2
    <2>4. \A g \in Holders : Weight'[g] \in Nat
        BY <1>3, <2>2, <2>3
    <2> QED BY <2>1, <2>2, <2>3, <2>4
<1>7. /\ usdc' \in [Accounts -> Nat]
      /\ usdc'[RevenueShareAddr] >= usdc[RevenueShareAddr] - owed
    BY <1>1, <1>2, <1>4, MovedType
<1>8. /\ checkpoint' \in [Holders -> 0 .. revenuePerShare']
      /\ pendingClaims' \in [Holders -> Nat]
    BY <1>1, <1>2, <1>3
<1>9. \A g \in Holders \ {h} : Weight'[g] <= WeightAt(revenuePerShare')[g]
    BY <1>3, <1>6
<1>10. ShareInv'
    BY <1>1, <1>2, <1>4, <1>5, <1>6, <1>7, <1>8, <1>9, PaidOutStep
<1> QED BY <1>1, <1>4, <1>5, <1>10

(***************************************************************************)
(* A transfer turns what both sides have earned into pending claims,       *)
(* rounded down, and leaves the rest as it is; coins may move in the same  *)
(* step as long as the debts stay covered.                                 *)
(***************************************************************************)
LEMMA SharesMoveStep ==
    ASSUME ShareInv, NEW from \in Holders, NEW to \in Holders, NEW n \in Nat,
           MoveShares(from, to, n),
           usdc' \in [Accounts -> Nat], Covered',
           UNCHANGED <<now, totalSupply, genesisComplete, totalClaimed, accumulatorVars>>
    PROVE  ShareInv' /\ Claimable' = Claimable
<1> USE DEF ShareInv
<1>1. /\ shares[from] >= n
      /\ shares' = Moved(shares, from, to, n)
      /\ UNCHANGED <<now, totalSupply, genesisComplete, totalClaimed, revenuePerShare,
                     totalDistributed, recentSnapshots, snapshotIndex, totalSnapshotCount,
                     lastSnapshotTime>>
    BY DEF MoveShares, accumulatorVars, snapshotVars
<1>2. /\ shares \in [Holders -> Nat] /\ IsFiniteSet(Holders)
      /\ totalSupply = Total(shares) /\ revenuePerShare \in Nat
      /\ checkpoint \in [Holders -> 0 .. revenuePerShare]
      /\ pendingClaims \in [Holders -> Nat] /\ SCALE \in Nat \ {0}
    BY ShareAssumption DEF ShareTypeOK
<1>3. shares' \in [Holders -> Nat] /\ totalSupply' = Total(shares')
    <2>1. Moved(shares, from, to, n) \in [Holders -> Nat]
        BY <1>1, <1>2, MovedType
    <2>2. Total(Moved(shares, from, to, n)) = Total(shares)
        BY <1>1, <1>2, MovedTotal
    <2> QED BY <1>1, <1>2, <2>1, <2>2
<1>4. \A h \in Holders : Accrued(h, revenuePerShare) \in Nat
    BY <1>2, ClaimableCovered
<1>5. /\ checkpoint' \in [Holders -> 0 .. revenuePerShare]
      /\ pendingClaims' \in [Holders -> Nat]
      /\ \A h \in {from, to} : /\ checkpoint'[h] = revenuePerShare
                               /\ pendingClaims'[h] = pendingClaims[h] + Accrued(h, revenuePerShare)
      /\ \A h \in Holders \ {from, to} : /\ checkpoint'[h] = checkpoint[h]
                                         /\ pendingClaims'[h] = pendingClaims[h]
                                         /\ shares'[h] = shares[h]
    BY <1>1, <1>2, <1>4 DEF MoveShares, Settled, Moved
<1>6. ASSUME NEW h \in Holders
      PROVE  Claimable'[h] = Claimable[h] /\ Weight'[h] <= Weight[h]
    <2>1. /\ Claimable'[h] = pendingClaims'[h]
                + ((revenuePerShare - checkpoint'[h]) * shares'[h]) \div SCALE
          /\ Weight'[h] = SCALE * pendingClaims'[h] + (revenuePerShare - checkpoint'[h]) * shares'[h]
        BY <1>1 DEF Claimable, ClaimableAt, Accrued, Weight, WeightAt
    <2>2. /\ Claimable[h] = pendingClaims[h] + Accrued(h, revenuePerShare)
          /\ Accrued(h, revenuePerShare)
                = ((revenuePerShare - checkpoint[h]) * shares[h]) \div SCALE
          /\ Weight[h] = SCALE * pendingClaims[h] + (revenuePerShare - checkpoint[h]) * shares[h]
        BY DEF Claimable, ClaimableAt, Accrued, Weight, WeightAt
    <2>3. CASE h \in {from, to}
        <3>1. /\ (revenuePerShare - checkpoint'[h]) * shares'[h] = 0
              /\ pendingClaims'[h] = pendingClaims[h] + Accrued(h, revenuePerShare)
            <4>1. shares'[h] \in Nat /\ revenuePerShare - checkpoint'[h] = 0
                BY <1>2, <1>3, <1>5, <2>3
            <4> QED BY <1>5, <2>3, <4>1
        <3>2. 0 \div SCALE = 0
            BY <1>2
        <3>3. Claimable'[h] = Claimable[h]
            BY <1>2, <1>4, <2>1, <2>2, <3>1, <3>2
        <3>4. SCALE * ClaimableAt(h, revenuePerShare) <= Weight[h]
            BY <1>2, ClaimableCovered DEF Weight
        <3>5. ClaimableAt(h, revenuePerShare) = pendingClaims'[h] /\ pendingClaims'[h] \in Nat
            BY <1>5, <3>1 DEF ClaimableAt
        <3>6. Weight'[h] = SCALE * pendingClaims'[h]
            <4>1. SCALE * pendingClaims'[h] \in Nat
                BY <1>2, <3>5
            <4> QED BY <2>1, <3>1, <4>1
        <3> QED BY <3>3, <3>4, <3>5, <3>6
    <2>4. CASE h \notin {from, to}
        <3>1. /\ checkpoint'[h] = checkpoint[h] /\ pendingClaims'[h] = pendingClaims[h]
              /\ shares'[h] = shares[h]
            BY <1>5, <2>4
        <3>2. Weight[h] \in Nat
            BY <1>2, ClaimableCovered DEF Weight
        <3> QED BY <2>1, <2>2, <3>1, <3>2
    <2> QED BY <2>3, <2>4
<1>7. Claimable' = Claimable
    BY <1>6 DEF Claimable
<1>8. ShareTypeOK'
    BY <1>1, <1>3, <1>5 DEF ShareTypeOK
<1>9. Weight \in [Holders -> Nat] /\ Weight' \in [Holders -> Nat]
    <2>1. ASSUME NEW h \in Holders PROVE Weight'[h] \in Nat
        <3>1. /\ shares'[h] \in Nat /\ revenuePerShare - checkpoint'[h] \in Nat
              /\ pendingClaims'[h] \in Nat
            BY <1>2, <1>3, <1>5
        <3>2. Weight'[h] = SCALE * pendingClaims'[h] + (revenuePerShare - checkpoint'[h]) * shares'[h]
            BY <1>1 DEF Weight, WeightAt
        <3>3. /\ SCALE * pendingClaims'[h] \in Nat
              /\ (revenuePerShare - checkpoint'[h]) * shares'[h] \in Nat
            BY <1>2, <3>1
        <3> QED BY <3>2, <3>3
    <2> QED BY <1>2, <2>1, WeightType DEF Weight, WeightAt
<1>10. Earned'
    <2>1. Total(Weight) \in Nat /\ Total(Weight') \in Nat
        BY <1>2, <1>9, CoinsFinite
    <2>2. Total(Weight') <= Total(Weight)
        BY <1>2, <1>6, <1>9, TotalMonotone
    <2>3. /\ SCALE * (totalDistributed - totalClaimed) \in Int
          /\ SCALE * (totalDistributed' - totalClaimed') = SCALE * (totalDistributed - totalClaimed)
        BY <1>1, <1>2 DEF ShareTypeOK
    <2> QED BY <2>1, <2>2, <2>3 DEF Earned
<1>11. NoSupplyYet'
    BY <1>1 DEF NoSupplyYet
<1> QED BY <1>7, <1>8, <1>10, <1>11

LEMMA TransferStep ==
    ASSUME ShareInv, NEW from \in Holders, NEW to \in Holders, NEW n \in ShareAmounts,
           Transfer(from, to, n)
    PROVE  ShareInv' /\ Claimable' = Claimable
<1>1. /\ n \in Nat /\ MoveShares(from, to, n)
      /\ UNCHANGED <<usdc, now, totalSupply, genesisComplete, totalClaimed, accumulatorVars>>
    BY ShareAssumption DEF Transfer
<1>2. usdc' \in [Accounts -> Nat] /\ Covered'
    BY <1>1 DEF ShareInv, ShareTypeOK, Covered, accumulatorVars
<1> QED BY <1>1, <1>2, SharesMoveStep

(***************************************************************************)
(* Coins that come to the share by themselves keep its invariant: they are *)
(* undistributed.                                                          *)
(***************************************************************************)
LEMMA CoinsComeIn ==
    ASSUME ShareInv, RevenueShareAddr \in Accounts, usdc' \in [Accounts -> Nat],
           usdc'[RevenueShareAddr] >= usdc[RevenueShareAddr],
           UNCHANGED <<now, ownershipVars, accountVars, accumulatorVars>>
    PROVE  ShareInv'
<1> USE DEF ShareInv
<1>1. UNCHANGED <<now, shares, totalSupply, genesisComplete, checkpoint, pendingClaims, totalClaimed,
                  revenuePerShare, totalDistributed, recentSnapshots, snapshotIndex,
                  totalSnapshotCount, lastSnapshotTime>>
    BY DEF ownershipVars, accountVars, accumulatorVars, snapshotVars
<1>2. ShareTypeOK'
    BY <1>1 DEF ShareTypeOK
<1>3. Weight' = Weight
    BY <1>1 DEF Weight, WeightAt
<1>4. Earned' /\ NoSupplyYet'
    BY <1>1, <1>3 DEF Earned, NoSupplyYet
<1>5. Covered'
    <2>1. /\ usdc[RevenueShareAddr] \in Nat /\ usdc'[RevenueShareAddr] \in Nat
          /\ totalDistributed - totalClaimed \in Int
        BY DEF ShareTypeOK
    <2>2. totalDistributed' - totalClaimed' = totalDistributed - totalClaimed
        BY <1>1
    <2> QED BY <2>1, <2>2 DEF Covered
<1> QED BY <1>2, <1>4, <1>5

LEMMA ReceiveStep ==
    ASSUME ShareInv, RevenueShareAddr \in Accounts,
           NEW payer \in Accounts \ {RevenueShareAddr}, NEW amount \in Nat, Receive(payer, amount)
    PROVE  /\ ShareInv'
           /\ Claimable' = Claimable
           /\ usdc'[RevenueShareAddr] = usdc[RevenueShareAddr] + amount
           /\ amount > 0
<1> USE DEF ShareInv
<1>1. /\ usdc[payer] >= amount /\ amount > 0
      /\ usdc' = Moved(usdc, payer, RevenueShareAddr, amount)
      /\ UNCHANGED <<now, ownershipVars, accountVars, accumulatorVars>>
    BY DEF Receive, CanMove
<1>2. usdc \in [Accounts -> Nat]
    BY DEF ShareTypeOK
<1>3. /\ usdc' \in [Accounts -> Nat]
      /\ usdc'[RevenueShareAddr] = usdc[RevenueShareAddr] + amount
    BY <1>1, <1>2, MovedType
<1>4. ShareTypeOK'
    BY <1>1, <1>3 DEF ShareTypeOK, ownershipVars, accountVars, accumulatorVars, snapshotVars
<1>5. Claimable' = Claimable /\ Weight' = Weight
    BY <1>1 DEF Claimable, ClaimableAt, Accrued, Weight, WeightAt, ownershipVars, accountVars,
                accumulatorVars
<1>6. Earned' /\ NoSupplyYet'
    BY <1>1, <1>5 DEF Earned, NoSupplyYet, ownershipVars, accountVars, accumulatorVars
<1>7. Covered'
    <2>1. usdc[RevenueShareAddr] \in Nat /\ totalDistributed - totalClaimed \in Int
        BY <1>2 DEF ShareTypeOK
    <2>2. totalDistributed' - totalClaimed' = totalDistributed - totalClaimed
        BY <1>1 DEF accountVars, accumulatorVars
    <2> QED BY <1>1, <1>3, <2>1, <2>2 DEF Covered
<1> QED BY <1>1, <1>3, <1>4, <1>5, <1>6, <1>7

(***************************************************************************)
(* Snapshots and the passing of time touch no coins and no claims.         *)
(***************************************************************************)
LEMMA QuietStep ==
    ASSUME ShareInv, TakeSnapshot \/ Tick \/ UNCHANGED shareVars
    PROVE  ShareInv' /\ Claimable' = Claimable /\ usdc' = usdc
<1> USE DEF ShareInv
<1>1. /\ UNCHANGED <<usdc, shares, totalSupply, genesisComplete>>
      /\ UNCHANGED <<checkpoint, pendingClaims, totalClaimed, revenuePerShare, totalDistributed>>
      /\ now' \in Nat
    BY DEF TakeSnapshot, Tick, shareVars, ownershipVars, accountVars, accumulatorVars, ShareTypeOK
<1>2. TakeSnapshotIfNeeded(revenuePerShare) \/ UNCHANGED snapshotVars
    BY DEF TakeSnapshot, Tick, shareVars, accumulatorVars
<1>3. revenuePerShare \in Nat
    BY DEF ShareTypeOK
<1>4. ShareTypeOK'
    <2>1. /\ recentSnapshots' \in [0 .. MAX_SNAPSHOTS - 1 -> [revenuePerShare : Nat, timestamp : Nat]]
          /\ snapshotIndex' \in 0 .. MAX_SNAPSHOTS - 1
          /\ totalSnapshotCount' \in Nat \ {0} /\ lastSnapshotTime' \in Nat
        BY <1>2, <1>3, SnapshotTypes
    <2> QED BY <1>1, <2>1 DEF ShareTypeOK
<1>5. Claimable' = Claimable /\ Weight' = Weight
    BY <1>1 DEF Claimable, ClaimableAt, Accrued, Weight, WeightAt
<1> QED BY <1>1, <1>4, <1>5 DEF Earned, Covered, NoSupplyYet

LEMMA ShareInvStep ==
    ASSUME ShareInv, RevenueShareAddr \in Accounts, [ShareNext]_shareVars
    PROVE  ShareInv'
<1>1. ASSUME NEW to \in Holders, NEW n \in GenesisShares, GenesisMint(to, n) PROVE ShareInv'
    BY <1>1, GenesisMintStep
<1>2. ASSUME Distribute PROVE ShareInv'
    BY <1>2, DistributeStep
<1>3. ASSUME NEW h \in Holders, NEW to \in Accounts, Claim(h, to) PROVE ShareInv'
    BY <1>3, ClaimStep
<1>4. ASSUME NEW from \in Holders, NEW to \in Holders, NEW n \in ShareAmounts,
             Transfer(from, to, n)
      PROVE  ShareInv'
    BY <1>4, TransferStep
<1>5. ASSUME NEW payer \in Payers, NEW amount \in Payments, Receive(payer, amount) PROVE ShareInv'
    <2>1. payer \in Accounts \ {RevenueShareAddr} /\ amount \in Nat
        BY ShareAssumption
    <2> QED BY <1>5, <2>1, ReceiveStep
<1>6. ASSUME TakeSnapshot \/ Tick \/ UNCHANGED shareVars PROVE ShareInv'
    BY <1>6, QuietStep
<1> QED BY <1>1, <1>2, <1>3, <1>4, <1>5, <1>6, ShareAssumption DEF ShareNext, HolderStep

LEMMA ShareInvHolds == RevenueShareAddr \in Accounts => (ShareSpec => []ShareInv)
<1> SUFFICES ASSUME RevenueShareAddr \in Accounts PROVE ShareSpec => []ShareInv
    OBVIOUS
<1>1. ShareInit => ShareInv
    BY ShareInvInit
<1>2. ShareInv /\ [ShareNext]_shareVars => ShareInv'
    BY ShareInvStep
<1> QED BY <1>1, <1>2, PTL DEF ShareSpec

-----------------------------------------------------------------------------
(***************************************************************************)
(* The storage keeps its types, and the supply stays the sum of the        *)
(* balances, whoever transfers what to whom, to oneself included.          *)
(***************************************************************************)
THEOREM ShareTypeCorrect == RevenueShareAddr \in Accounts => (ShareSpec => []ShareTypeOK)
<1>1. ShareInv => ShareTypeOK
    BY DEF ShareInv
<1> QED BY <1>1, ShareInvHolds, PTL

(***************************************************************************)
(* Back from weights to claims: what SCALE times an amount covers of the   *)
(* weights, the amount covers of the claims.                               *)
(***************************************************************************)
LEMMA ClaimsCovered ==
    ASSUME ShareTypeOK, NEW rps \in Nat, revenuePerShare <= rps, NEW d \in Nat,
           Total(WeightAt(rps)) <= SCALE * d
    PROVE  /\ [h \in Holders |-> ClaimableAt(h, rps)] \in [Holders -> Nat]
           /\ Total([h \in Holders |-> ClaimableAt(h, rps)]) <= d
<1> DEFINE claims == [h \in Holders |-> ClaimableAt(h, rps)]
           W == WeightAt(rps)
           t == Total(claims)
<1>1. IsFiniteSet(Holders) /\ SCALE \in Nat \ {0}
    BY ShareAssumption
<1>2. claims \in [Holders -> Nat] /\ W \in [Holders -> Nat]
    BY ClaimableCovered, WeightType
<1>3. \A h \in Holders : SCALE * claims[h] <= W[h]
    BY ClaimableCovered
<1> HIDE DEF claims, W
<1>4. SCALE * t <= Total(W)
    BY <1>1, <1>2, <1>3, TotalScaled
<1>5. t \in Nat /\ Total(W) \in Nat /\ SCALE * d \in Nat /\ SCALE * t \in Nat
    BY <1>1, <1>2, CoinsFinite
<1>6. SCALE * t <= SCALE * d
    BY <1>4, <1>5 DEF W
<1> HIDE DEF t
<1>7. t <= d
    <2> SUFFICES ASSUME d + 1 <= t PROVE FALSE
        BY <1>5
    <2>1. SCALE * (d + 1) <= SCALE * t /\ SCALE * (d + 1) = SCALE * d + SCALE
        BY <1>1, <1>5
    <2> QED BY <1>1, <1>5, <1>6, <2>1
<1> QED BY <1>2, <1>7 DEF t, claims

LEMMA InvImpliesSolvent == ShareInv => Solvent
<1> SUFFICES ASSUME ShareInv PROVE Solvent
    OBVIOUS
<1>1. /\ ShareTypeOK /\ revenuePerShare \in Nat
      /\ totalDistributed - totalClaimed \in Nat
      /\ Total(WeightAt(revenuePerShare)) <= SCALE * (totalDistributed - totalClaimed)
    BY DEF ShareInv, ShareTypeOK, Earned, Weight
<1>2. Total([h \in Holders |-> ClaimableAt(h, revenuePerShare)]) <= totalDistributed - totalClaimed
    BY <1>1, ClaimsCovered
<1> QED BY <1>2 DEF ShareInv, Solvent, Covered, Claimable

(***************************************************************************)
(* ProviderRevenueShare.sol:249: the holders together can never claim more *)
(* than was distributed and not claimed, and the contract holds that much, *)
(* however the divisions round and the shares move between payments.       *)
(***************************************************************************)
THEOREM EarningsAreCovered == RevenueShareAddr \in Accounts => (ShareSpec => []Solvent)
    BY ShareInvHolds, InvImpliesSolvent, PTL

\* What TransferKeepsEarnings says of a step.
KeepsEarnings == UNCHANGED <<totalDistributed, totalClaimed>> => Claimable' = Claimable

LEMMA SameEarnings ==
    ASSUME UNCHANGED <<shares, pendingClaims, checkpoint, revenuePerShare>>
    PROVE  Claimable' = Claimable
    BY DEF Claimable, ClaimableAt, Accrued

\* Whatever it credits, _distribute counts.
LEMMA NothingDistributed ==
    ASSUME ShareTypeOK, NEW ledger, Undistributed(ledger) \in Int,
           InternalDistribute(ledger), totalDistributed' = totalDistributed
    PROVE  revenuePerShare' = revenuePerShare
<1>1. totalDistributed \in Nat
    BY DEF ShareTypeOK
<1>2. ~Credits(ledger)
    BY <1>1 DEF InternalDistribute, Credits
<1> QED BY <1>2 DEF InternalDistribute, accumulatorVars

\* Whatever it pays, claim counts.
LEMMA ClaimIsCounted ==
    ASSUME ShareInv, RevenueShareAddr \in Accounts,
           NEW h \in Holders, NEW to \in Accounts, Claim(h, to)
    PROVE  totalClaimed' # totalClaimed
<1> DEFINE owed == ClaimableAt(h, RevenuePerShareNow(usdc))
<1>1. totalClaimed' = totalClaimed + owed /\ totalClaimed \in Nat
    BY DEF Claim, ShareInv, ShareTypeOK
<1>2. owed \in Nat \ {0}
    <2>1. InternalDistribute(usdc) /\ owed > 0
        BY DEF Claim
    <2>2. revenuePerShare' = RevenuePerShareNow(usdc)
        BY <2>1, Distributed DEF ShareInv, ShareTypeOK
    <2>3. \E paid \in Nat \ {0} : paid = ClaimableAt(h, revenuePerShare')
        BY ClaimStep
    <2> QED BY <2>2, <2>3
<1> HIDE DEF owed
<1> QED BY <1>1, <1>2

LEMMA ShareStepKeepsEarnings ==
    ASSUME ShareInv, RevenueShareAddr \in Accounts, ShareNext
    PROVE  KeepsEarnings
<1>1. ShareTypeOK /\ Undistributed(usdc) \in Int
    BY DEF ShareInv, ShareTypeOK, Undistributed
<1>2. ASSUME NEW to \in Holders, NEW n \in GenesisShares, GenesisMint(to, n)
      PROVE  KeepsEarnings
    BY <1>2, GenesisMintStep DEF KeepsEarnings
<1>3. ASSUME NEW from \in Holders, NEW to \in Holders, NEW n \in ShareAmounts,
             Transfer(from, to, n)
      PROVE  KeepsEarnings
    BY <1>3, TransferStep DEF KeepsEarnings
<1>4. ASSUME NEW h \in Holders, NEW to \in Accounts, Claim(h, to)
      PROVE  KeepsEarnings
    BY <1>4, ClaimIsCounted DEF KeepsEarnings
<1>5. CASE Distribute
    <2>1. totalDistributed' = totalDistributed => revenuePerShare' = revenuePerShare
        BY <1>1, <1>5, NothingDistributed DEF Distribute
    <2>2. UNCHANGED <<shares, pendingClaims, checkpoint>>
        BY <1>5 DEF Distribute, ownershipVars, accountVars
    <2> QED BY <2>1, <2>2, SameEarnings DEF KeepsEarnings
<1>6. ASSUME \/ \E p \in Payers, amount \in Payments : Receive(p, amount)
             \/ TakeSnapshot \/ Tick
      PROVE  KeepsEarnings
    <2>1. UNCHANGED <<shares, pendingClaims, checkpoint, revenuePerShare>>
        BY <1>6 DEF Receive, TakeSnapshot, Tick, ownershipVars, accountVars, accumulatorVars
    <2> QED BY <2>1, SameEarnings DEF KeepsEarnings
<1> QED BY <1>2, <1>3, <1>4, <1>5, <1>6, ShareAssumption DEF ShareNext, HolderStep

(***************************************************************************)
(* ProviderRevenueShare.sol:264-268: _update settles both sides            *)
(* before the balances move, so that no earnings move along, for any       *)
(* amount, zero included, and any two holders, the same one twice          *)
(* included: only a distribution or a claim changes what may be claimed.   *)
(***************************************************************************)
THEOREM EarningsStayPut == RevenueShareAddr \in Accounts => (ShareSpec => TransferKeepsEarnings)
<1> SUFFICES ASSUME RevenueShareAddr \in Accounts PROVE ShareSpec => TransferKeepsEarnings
    OBVIOUS
<1>1. ShareInv /\ [ShareNext]_shareVars =>
          [UNCHANGED <<totalDistributed, totalClaimed>> => Claimable' = Claimable]_shareVars
    BY ShareStepKeepsEarnings DEF KeepsEarnings
<1> QED BY <1>1, ShareInvHolds, PTL DEF ShareSpec, TransferKeepsEarnings

-----------------------------------------------------------------------------
(***************************************************************************)
(* What the revenue share itself does takes no shares but a claimant's and *)
(* no coins but a payer's or its own.                                      *)
(***************************************************************************)
LEMMA SharesElsewhere ==
    ASSUME ShareInv, ShareNext
    PROVE  \A h \in Holders \ Claimants : shares'[h] >= shares[h]
<1>1. shares \in [Holders -> Nat]
    BY DEF ShareInv, ShareTypeOK
<1>2. ASSUME NEW to \in Holders, NEW n \in GenesisShares, GenesisMint(to, n)
      PROVE  \A h \in Holders : shares'[h] >= shares[h]
    <2>1. n \in Nat /\ shares' = [shares EXCEPT ![to] = @ + n]
        BY <1>2, ShareAssumption DEF GenesisMint
    <2> QED BY <1>1, <2>1
<1>3. ASSUME NEW from \in Claimants, NEW to \in Holders, NEW n \in ShareAmounts,
             Transfer(from, to, n)
      PROVE  \A h \in Holders \ Claimants : shares'[h] >= shares[h]
    <2>1. /\ from \in Holders /\ n \in Nat /\ shares[from] >= n
          /\ shares' = Moved(shares, from, to, n)
        BY <1>3, ShareAssumption DEF Transfer, MoveShares
    <2>2. \A h \in Holders \ {from} : Moved(shares, from, to, n)[h] >= shares[h]
        BY <1>1, <2>1, MovedType
    <2> QED BY <2>1, <2>2
<1>4. CASE shares' = shares
    BY <1>1, <1>4
<1> QED BY <1>2, <1>3, <1>4, ShareAssumption
        DEF ShareNext, HolderStep, Distribute, TakeSnapshot, Claim, Receive, Tick, ownershipVars

LEMMA CoinsElsewhere ==
    ASSUME ShareInv, RevenueShareAddr \in Accounts, ShareNext
    PROVE  \A a \in Accounts \ (Payers \cup {RevenueShareAddr}) : usdc'[a] >= usdc[a]
<1>1. usdc \in [Accounts -> Nat]
    BY DEF ShareInv, ShareTypeOK
<1>2. ASSUME NEW h \in Holders, NEW to \in Accounts, Claim(h, to)
      PROVE  \A a \in Accounts \ {RevenueShareAddr} : usdc'[a] >= usdc[a]
    <2>1. PICK owed \in Nat \ {0} : /\ usdc' = Moved(usdc, RevenueShareAddr, to, owed)
                                    /\ owed <= usdc[RevenueShareAddr]
        BY <1>2, ClaimStep
    <2>2. usdc[RevenueShareAddr] >= owed
        BY <1>1, <2>1
    <2>3. \A a \in Accounts \ {RevenueShareAddr} :
              Moved(usdc, RevenueShareAddr, to, owed)[a] >= usdc[a]
        BY <1>1, <2>1, <2>2, MovedType
    <2> QED BY <2>1, <2>3
<1>3. ASSUME NEW payer \in Payers, NEW amount \in Payments, Receive(payer, amount)
      PROVE  \A a \in Accounts \ Payers : usdc'[a] >= usdc[a]
    <2>1. /\ payer \in Accounts /\ amount \in Nat /\ usdc[payer] >= amount
          /\ usdc' = Moved(usdc, payer, RevenueShareAddr, amount)
        BY <1>3, ShareAssumption DEF Receive, CanMove
    <2>2. \A a \in Accounts \ {payer} : Moved(usdc, payer, RevenueShareAddr, amount)[a] >= usdc[a]
        BY <1>1, <2>1, MovedType
    <2> QED BY <2>1, <2>2
<1>4. CASE usdc' = usdc
    BY <1>1, <1>4
<1> QED BY <1>2, <1>3, <1>4, ShareAssumption
        DEF ShareNext, HolderStep, GenesisMint, Distribute, TakeSnapshot, Transfer, Tick

-----------------------------------------------------------------------------
\* The pool counts as the ledger does.
LEMMA PoolTotal == ASSUME NEW f PROVE Pool!Total(f) = Total(f)
    BY DEF Pool!Total, Pool!Coins, Total, Coins, Pool!Cardinality, Cardinality

LEMMA FloorMonotone ==
    ASSUME NEW x \in Nat, NEW y \in Nat, x <= y, NEW d \in Nat \ {0}
    PROVE  x \div d <= y \div d
<1> DEFINE q == x \div d
           p == y \div d
<1>1. q \in Nat /\ p \in Nat /\ d * q <= x /\ y < d * p + d
    OBVIOUS
<1> HIDE DEF q, p
<1>2. q <= p
    <2> SUFFICES ASSUME p + 1 <= q PROVE FALSE
        BY <1>1
    <2>1. d * (p + 1) <= d * q /\ d * (p + 1) = d * p + d
        BY <1>1
    <2>2. d * p \in Nat /\ d * q \in Nat
        BY <1>1
    <2> QED BY <1>1, <2>1, <2>2
<1> QED BY <1>2 DEF q, p

(***************************************************************************)
(* No claim shrinks when the accumulator rises.                            *)
(***************************************************************************)
LEMMA ClaimsGrow ==
    ASSUME ShareTypeOK, NEW rps \in Nat, revenuePerShare <= rps, NEW h \in Holders
    PROVE  /\ Claimable[h] \in Nat /\ ClaimableAt(h, rps) \in Nat
           /\ Claimable[h] <= ClaimableAt(h, rps)
<1> DEFINE x == (revenuePerShare - checkpoint[h]) * shares[h]
           y == (rps - checkpoint[h]) * shares[h]
<1>1. /\ revenuePerShare \in Nat /\ SCALE \in Nat \ {0}
      /\ revenuePerShare - checkpoint[h] \in Nat /\ rps - checkpoint[h] \in Nat
      /\ shares[h] \in Nat /\ pendingClaims[h] \in Nat
    <2>1. checkpoint[h] \in 0 .. revenuePerShare /\ revenuePerShare \in Nat
        BY DEF ShareTypeOK
    <2> QED BY <2>1, ShareAssumption DEF ShareTypeOK
<1>2. x \in Nat /\ y \in Nat /\ x <= y
    <2> DEFINE a == revenuePerShare - checkpoint[h]
               b == rps - checkpoint[h]
    <2>1. a \in Nat /\ b \in Nat /\ a <= b /\ shares[h] \in Nat
        <3>1. checkpoint[h] \in 0 .. revenuePerShare
            BY DEF ShareTypeOK
        <3> QED BY <1>1, <3>1
    <2> HIDE DEF a, b
    <2>2. a * shares[h] \in Nat /\ b * shares[h] \in Nat /\ a * shares[h] <= b * shares[h]
        BY <2>1, ProductOrder
    <2> QED BY <2>2 DEF a, b
<1>3. x \div SCALE <= y \div SCALE
    BY <1>1, <1>2, FloorMonotone
<1>4. /\ Claimable[h] = pendingClaims[h] + x \div SCALE
      /\ ClaimableAt(h, rps) = pendingClaims[h] + y \div SCALE
    BY DEF Claimable, ClaimableAt, Accrued
<1>5. x \div SCALE \in Nat /\ y \div SCALE \in Nat
    BY <1>1, <1>2, FloorDivision
<1> HIDE DEF x, y
<1> QED BY <1>1, <1>3, <1>4, <1>5

(***************************************************************************)
(* After a _distribute, what is distributed and not claimed covers the     *)
(* claims and is covered by the balance.                                   *)
(***************************************************************************)
LEMMA DistributedCovers ==
    ASSUME ShareTypeOK, Earned, NEW ledger \in [Accounts -> Nat],
           RevenueShareAddr \in Accounts, InternalDistribute(ledger)
    PROVE  LET claims == [h \in Holders |-> ClaimableAt(h, revenuePerShare')]
           IN  /\ claims \in [Holders -> Nat]
               /\ Total(claims) <= ledger[RevenueShareAddr]
<1> DEFINE claims == [h \in Holders |-> ClaimableAt(h, revenuePerShare')]
           left == totalDistributed' - totalClaimed
<1>1. /\ revenuePerShare' \in Nat /\ revenuePerShare <= revenuePerShare'
      /\ totalDistributed' \in Nat /\ totalDistributed <= totalDistributed'
      /\ left <= ledger[RevenueShareAddr]
      /\ Total(WeightAt(revenuePerShare')) <= SCALE * left
    BY DistributedTypes
<1>2. left \in Nat
    <2>1. totalDistributed \in Nat /\ totalClaimed \in 0 .. totalDistributed
        BY DEF ShareTypeOK
    <2>2. \A d, c, e \in Int : d \in Nat /\ c \in 0 .. d /\ e \in Nat /\ d <= e => e - c \in Nat
        OBVIOUS
    <2>3. totalDistributed \in Int /\ totalClaimed \in Int /\ totalDistributed' \in Int
        BY <1>1, <2>1
    <2> QED BY <1>1, <2>1, <2>2, <2>3 DEF left
<1> HIDE DEF left
<1>3. claims \in [Holders -> Nat] /\ Total(claims) <= left
    BY <1>1, <1>2, ClaimsCovered
<1> HIDE DEF claims
<1>4. Total(claims) \in Nat /\ ledger[RevenueShareAddr] \in Nat
    BY <1>3, ShareAssumption, CoinsFinite
<1>5. Total(claims) <= ledger[RevenueShareAddr]
    BY <1>1, <1>2, <1>3, <1>4
<1> QED BY <1>3, <1>5 DEF claims

(***************************************************************************)
(* Coins may come in by the transaction that distributes them.             *)
(***************************************************************************)
LEMMA DistributionIsCredit ==
    ASSUME ShareInv, RevenueShareAddr \in Accounts, NEW ledger \in [Accounts -> Nat],
           ledger[RevenueShareAddr] >= usdc[RevenueShareAddr], usdc' = ledger,
           InternalDistribute(ledger), UNCHANGED <<shares, checkpoint, pendingClaims>>
    PROVE  Pool!Credit
<1>1. ShareTypeOK /\ Earned
    BY DEF ShareInv
<1>2. revenuePerShare' \in Nat /\ revenuePerShare <= revenuePerShare'
    BY <1>1, DistributedTypes
<1>3. \A h \in Holders : Claimable'[h] = ClaimableAt(h, revenuePerShare')
    BY DEF Claimable, ClaimableAt, Accrued
<1>4. \A h \in Holders : Claimable'[h] >= Claimable[h]
    BY <1>1, <1>2, <1>3, ClaimsGrow
<1>5. Total(Claimable') <= ledger[RevenueShareAddr]
    <2>1. Claimable' = [h \in Holders |-> ClaimableAt(h, revenuePerShare')]
        BY <1>3 DEF Claimable
    <2> QED BY <1>1, <2>1, DistributedCovers
<1> QED BY <1>4, <1>5, PoolTotal DEF Pool!Credit, Pool!GrownTo

LEMMA DistributeIsCredit ==
    ASSUME ShareInv, RevenueShareAddr \in Accounts, Distribute
    PROVE  Pool!Credit
<1>1. /\ usdc \in [Accounts -> Nat] /\ InternalDistribute(usdc)
      /\ UNCHANGED <<usdc, shares, checkpoint, pendingClaims>>
    BY DEF Distribute, ShareInv, ShareTypeOK, ownershipVars, accountVars
<1>2. usdc[RevenueShareAddr] >= usdc[RevenueShareAddr]
    BY <1>1
<1> QED BY <1>1, <1>2, DistributionIsCredit

LEMMA ClaimIsPayOut ==
    ASSUME ShareInv, RevenueShareAddr \in Accounts,
           NEW h \in Holders, NEW to \in Accounts, Claim(h, to)
    PROVE  Pool!PayOut
<1>1. PICK owed \in Nat \ {0} :
          /\ owed = ClaimableAt(h, revenuePerShare')
          /\ usdc' = Moved(usdc, RevenueShareAddr, to, owed)
          /\ owed <= usdc[RevenueShareAddr]
    BY ClaimStep
<1>2. /\ usdc \in [Accounts -> Nat] /\ InternalDistribute(usdc) /\ ShareTypeOK /\ Earned
      /\ UNCHANGED shares
      /\ pendingClaims' = [pendingClaims EXCEPT ![h] = 0]
      /\ checkpoint' = [checkpoint EXCEPT ![h] = RevenuePerShareNow(usdc)]
    BY DEF Claim, ShareInv, ShareTypeOK, ownershipVars
<1>3. /\ revenuePerShare' \in Nat /\ revenuePerShare <= revenuePerShare'
      /\ revenuePerShare' = RevenuePerShareNow(usdc)
      /\ SCALE \in Nat \ {0} /\ shares[h] \in Nat
    BY <1>2, Distributed, DistributedTypes, ShareAssumption DEF ShareTypeOK
<1>4. Claimable'[h] = 0
    <2>1. /\ pendingClaims'[h] = 0 /\ revenuePerShare' - checkpoint'[h] = 0
          /\ shares'[h] = shares[h]
        BY <1>2, <1>3 DEF ShareTypeOK
    <2>2. (revenuePerShare' - checkpoint'[h]) * shares'[h] = 0 /\ 0 \div SCALE = 0
        BY <1>3, <2>1
    <2>3. Claimable'[h] = pendingClaims'[h]
              + ((revenuePerShare' - checkpoint'[h]) * shares'[h]) \div SCALE
        BY DEF Claimable, ClaimableAt, Accrued
    <2> QED BY <2>1, <2>2, <2>3
<1> DEFINE debts == [Claimable' EXCEPT ![h] = owed]
<1>5. debts = [g \in Holders |-> ClaimableAt(g, revenuePerShare')]
    <2>1. ASSUME NEW g \in Holders, g # h
          PROVE  Claimable'[g] = ClaimableAt(g, revenuePerShare')
        <3>1. pendingClaims'[g] = pendingClaims[g] /\ checkpoint'[g] = checkpoint[g]
            BY <1>2, <2>1 DEF ShareTypeOK
        <3> QED BY <1>2, <3>1 DEF Claimable, ClaimableAt, Accrued
    <2>2. DOMAIN Claimable' = Holders /\ Claimable' = [g \in Holders |-> Claimable'[g]]
        BY DEF Claimable
    <2> QED BY <1>1, <2>1, <2>2
<1>6. \A g \in Holders : debts[g] >= Claimable[g]
    BY <1>2, <1>3, <1>5, ClaimsGrow
<1>7. Total(debts) <= usdc[RevenueShareAddr]
    BY <1>2, <1>5, DistributedCovers
<1>8. usdc'[RevenueShareAddr] \in {usdc[RevenueShareAddr], usdc[RevenueShareAddr] - owed}
    <2>1. CASE to = RevenueShareAddr
        BY <1>1, <1>2, <2>1 DEF Moved
    <2>2. CASE to # RevenueShareAddr
        BY <1>1, <1>2, <2>2, MovedType
    <2> QED BY <2>1, <2>2
<1>9. owed \in 1 .. usdc[RevenueShareAddr]
    BY <1>1, <1>2
<1> HIDE DEF debts
<1>10. Pool!Total(debts) <= usdc[RevenueShareAddr]
    BY <1>7, PoolTotal
<1> QED BY <1>4, <1>6, <1>8, <1>9, <1>10 DEF Pool!PayOut, Pool!GrownTo, debts

(***************************************************************************)
(* Nothing the revenue share itself does takes from a claim, but for the   *)
(* claimant's own.                                                         *)
(***************************************************************************)
LEMMA ClaimsElsewhere ==
    ASSUME ShareInv, RevenueShareAddr \in Accounts, [ShareNext]_shareVars
    PROVE  \A g \in Holders \ Claimants : Claimable'[g] >= Claimable[g]
<1>1. ShareTypeOK /\ revenuePerShare \in Nat
    BY DEF ShareInv, ShareTypeOK
<1>2. \A g \in Holders : Claimable[g] \in Nat
    <2>1. revenuePerShare <= revenuePerShare
        BY <1>1
    <2> QED BY <1>1, <2>1, ClaimsGrow
<1>3. CASE Claimable' = Claimable
    BY <1>2, <1>3
<1>4. ASSUME NEW to \in Holders, NEW n \in GenesisShares, GenesisMint(to, n)
      PROVE  Claimable' = Claimable
    BY <1>4, GenesisMintStep
<1>5. ASSUME Distribute PROVE \A g \in Holders : Claimable'[g] >= Claimable[g]
    BY <1>5, DistributeIsCredit DEF Pool!Credit, Pool!GrownTo
<1>6. ASSUME NEW h \in Claimants, NEW to \in Accounts, Claim(h, to)
      PROVE  \A g \in Holders \ Claimants : Claimable'[g] >= Claimable[g]
    <2>1. /\ usdc \in [Accounts -> Nat] /\ InternalDistribute(usdc) /\ Earned
          /\ UNCHANGED shares
          /\ pendingClaims' = [pendingClaims EXCEPT ![h] = 0]
          /\ checkpoint' = [checkpoint EXCEPT ![h] = RevenuePerShareNow(usdc)]
        BY <1>6 DEF Claim, ShareInv, ShareTypeOK, ownershipVars
    <2>2. revenuePerShare' \in Nat /\ revenuePerShare <= revenuePerShare'
        BY <1>1, <2>1, DistributedTypes
    <2>3. ASSUME NEW g \in Holders \ Claimants
          PROVE  Claimable'[g] = ClaimableAt(g, revenuePerShare')
        <3>1. g # h /\ pendingClaims'[g] = pendingClaims[g] /\ checkpoint'[g] = checkpoint[g]
            BY <1>1, <2>1 DEF ShareTypeOK
        <3> QED BY <2>1, <3>1 DEF Claimable, ClaimableAt, Accrued
    <2> QED BY <1>1, <2>2, <2>3, ClaimsGrow
<1>7. ASSUME NEW from \in Holders, NEW to \in Holders, NEW n \in ShareAmounts,
             Transfer(from, to, n)
      PROVE  Claimable' = Claimable
    BY <1>7, TransferStep
<1>8. ASSUME NEW payer \in Payers, NEW amount \in Payments, Receive(payer, amount)
      PROVE  Claimable' = Claimable
    <2>1. payer \in Accounts \ {RevenueShareAddr} /\ amount \in Nat
        BY ShareAssumption
    <2> QED BY <1>8, <2>1, ReceiveStep
<1>9. ASSUME TakeSnapshot \/ Tick \/ UNCHANGED shareVars PROVE Claimable' = Claimable
    BY <1>9, QuietStep
<1> QED BY <1>3, <1>4, <1>5, <1>6, <1>7, <1>8, <1>9, ShareAssumption DEF ShareNext, HolderStep

LEMMA ShareInitIsPoolInit == ShareInit /\ RevenueShareAddr \in Accounts => Pool!PoolInit
<1> SUFFICES ASSUME ShareInit, RevenueShareAddr \in Accounts PROVE Pool!PoolInit
    OBVIOUS
<1>1. usdc[RevenueShareAddr] = 0
    BY ShareAssumption DEF ShareInit
<1>2. ASSUME NEW h \in Holders PROVE ClaimableAt(h, revenuePerShare) = 0
    <2>1. pendingClaims[h] = 0 /\ revenuePerShare = 0 /\ checkpoint[h] = 0 /\ shares[h] = 0
        BY DEF ShareInit
    <2>2. (0 - 0) * 0 = 0 /\ 0 \div SCALE = 0
        BY ShareAssumption
    <2> QED BY <2>1, <2>2 DEF ClaimableAt, Accrued
<1> QED BY <1>1, <1>2 DEF Pool!PoolInit, Claimable

LEMMA ShareStepIsPoolStep ==
    ASSUME ShareInv, RevenueShareAddr \in Accounts, [ShareNext]_shareVars
    PROVE  [Pool!PoolNext]_<<usdc[RevenueShareAddr], Claimable>>
<1> DEFINE poolVars == <<usdc[RevenueShareAddr], Claimable>>
<1>1. ASSUME NEW to \in Holders, NEW n \in GenesisShares, GenesisMint(to, n)
      PROVE  UNCHANGED poolVars
    BY <1>1, GenesisMintStep DEF GenesisMint
<1>2. ASSUME Distribute PROVE Pool!PoolNext
    BY <1>2, DistributeIsCredit DEF Pool!PoolNext
<1>3. ASSUME NEW h \in Holders, NEW to \in Accounts, Claim(h, to) PROVE Pool!PoolNext
    BY <1>3, ClaimIsPayOut DEF Pool!PoolNext
<1>4. ASSUME NEW from \in Holders, NEW to \in Holders, NEW n \in ShareAmounts,
             Transfer(from, to, n)
      PROVE  UNCHANGED poolVars
    BY <1>4, TransferStep DEF Transfer, MoveShares
<1>5. ASSUME NEW payer \in Payers, NEW amount \in Payments, Receive(payer, amount)
      PROVE  Pool!PoolNext
    <2>1. payer \in Accounts \ {RevenueShareAddr} /\ amount \in Nat
        BY ShareAssumption
    <2>2. /\ Claimable' = Claimable /\ amount > 0
          /\ usdc'[RevenueShareAddr] = usdc[RevenueShareAddr] + amount
        BY <1>5, <2>1, ReceiveStep
    <2>3. usdc[RevenueShareAddr] \in Nat
        BY DEF ShareInv, ShareTypeOK
    <2> QED BY <2>1, <2>2, <2>3 DEF Pool!PoolNext, Pool!Arrive
<1>6. ASSUME TakeSnapshot \/ Tick \/ UNCHANGED shareVars PROVE UNCHANGED poolVars
    BY <1>6, QuietStep
<1> HIDE DEF poolVars
<1>7. [Pool!PoolNext]_poolVars
    BY <1>1, <1>2, <1>3, <1>4, <1>5, <1>6, ShareAssumption DEF ShareNext, HolderStep
<1> QED BY <1>7 DEF poolVars

(***************************************************************************)
(* The revenue share implements the dividend pool of DividendPool.tla:     *)
(* debts are covered whenever they grow, and disappear only by being paid  *)
(* in full, for any number of holders and any rounding.                    *)
(***************************************************************************)
THEOREM SharesImplementPool == RevenueShareAddr \in Accounts => (ShareSpec => ImplementsPool)
<1> SUFFICES ASSUME RevenueShareAddr \in Accounts PROVE ShareSpec => Pool!PoolSpec
    BY DEF ImplementsPool
<1>1. ShareInit => Pool!PoolInit
    BY ShareInitIsPoolInit
<1>2. ShareInv /\ [ShareNext]_shareVars => [Pool!PoolNext]_<<usdc[RevenueShareAddr], Claimable>>
    BY ShareStepIsPoolStep
<1> QED BY <1>1, <1>2, ShareInvHolds, PTL DEF ShareSpec, Pool!PoolSpec

-----------------------------------------------------------------------------
(***************************************************************************)
(* The ring of snapshots, for a ring of any size: walked back from the     *)
(* newest entry it goes back in time, and the search stops at the latest   *)
(* snapshot that is old enough.                                            *)
(*                                                                         *)
(* A snapshot written at the next index shifts the walk by one and         *)
(* overwrites its last entry: that is the only place where the modulus of  *)
(* the code and the two cases of RingIndex have to agree.                  *)
(***************************************************************************)
\* RingIndex from any newest index.
IndexFrom(k, i) == IF i <= k THEN k - i ELSE MAX_SNAPSHOTS - (i - k)

Walk(i) == recentSnapshots[RingIndex(i)]

NewestIsLast ==
    /\ Walk(0).timestamp = lastSnapshotTime
    /\ Walk(0).revenuePerShare <= revenuePerShare

Sorted ==
    \A i, j \in 0 .. AvailableSnapshots - 1 : i <= j => Walk(j).timestamp <= Walk(i).timestamp

TakenOrBlank ==
    \A i \in 0 .. MAX_SNAPSHOTS - 1 : Walk(i).timestamp > 0 <=> i < AvailableSnapshots

RingInv ==
    /\ now > 0
    /\ NewestIsLast
    /\ Sorted
    /\ TakenOrBlank
    /\ SnapshotsOrdered

-----------------------------------------------------------------------------
LEMMA NextIndex ==
    ASSUME NEW k \in 0 .. MAX_SNAPSHOTS - 1
    PROVE  (k + 1) % MAX_SNAPSHOTS = IF k = MAX_SNAPSHOTS - 1 THEN 0 ELSE k + 1
<1> DEFINE M == MAX_SNAPSHOTS
           r == (k + 1) % M
           q == (k + 1) \div M
<1>1. M \in Nat \ {0} /\ k \in Nat /\ k + 1 <= M
    BY ShareAssumption
<1>2. q \in Nat /\ r \in 0 .. M - 1 /\ k + 1 = M * q + r
    BY <1>1
<1> HIDE DEF q, r
<1>3. q = 0 \/ q >= 1
    BY <1>2
<1>4. q = 0 => r = k + 1
    BY <1>1, <1>2
<1>5. q >= 1 => r = 0 /\ k + 1 = M
    <2>1. SUFFICES ASSUME q >= 1 PROVE r = 0 /\ k + 1 = M
        OBVIOUS
    <2>2. 1 * M <= q * M /\ q * M = M * q /\ M * q \in Nat
        BY <1>1, <1>2, <2>1, ProductOrder
    <2> QED BY <1>1, <1>2, <2>2
<1>6. r = IF k = M - 1 THEN 0 ELSE k + 1
    BY <1>1, <1>2, <1>3, <1>4, <1>5
<1> QED BY <1>6 DEF r

(***************************************************************************)
(* From the next index on, the walk is what it was, one entry later; the   *)
(* entries it still reaches are not the one overwritten.                   *)
(***************************************************************************)
LEMMA WalkShifts ==
    ASSUME NEW k \in 0 .. MAX_SNAPSHOTS - 1, NEW next \in Nat, next = (k + 1) % MAX_SNAPSHOTS
    PROVE  /\ next \in 0 .. MAX_SNAPSHOTS - 1
           /\ IndexFrom(next, 0) = next
           /\ \A i \in 1 .. MAX_SNAPSHOTS - 1 : /\ IndexFrom(next, i) = IndexFrom(k, i - 1)
                                                /\ IndexFrom(k, i - 1) # next
<1>1. MAX_SNAPSHOTS \in Nat \ {0}
    BY ShareAssumption
<1>2. next = IF k = MAX_SNAPSHOTS - 1 THEN 0 ELSE k + 1
    BY NextIndex
<1>3. next \in 0 .. MAX_SNAPSHOTS - 1
    BY <1>1, <1>2
<1>4. ASSUME NEW i \in 1 .. MAX_SNAPSHOTS - 1
      PROVE  IndexFrom(next, i) = IndexFrom(k, i - 1) /\ IndexFrom(k, i - 1) # next
    <2>1. CASE k = MAX_SNAPSHOTS - 1
        BY <1>1, <1>2, <2>1 DEF IndexFrom
    <2>2. CASE k < MAX_SNAPSHOTS - 1
        BY <1>1, <1>2, <2>2 DEF IndexFrom
    <2> QED BY <1>1, <2>1, <2>2
<1>5. IndexFrom(next, 0) = next
    BY <1>1, <1>3 DEF IndexFrom
<1> QED BY <1>3, <1>4, <1>5

(***************************************************************************)
(* The walk visits every index of the ring.                                *)
(***************************************************************************)
LEMMA WalkVisitsAll ==
    ASSUME NEW k \in 0 .. MAX_SNAPSHOTS - 1
    PROVE  /\ \A i \in 0 .. MAX_SNAPSHOTS - 1 : IndexFrom(k, i) \in 0 .. MAX_SNAPSHOTS - 1
           /\ \A j \in 0 .. MAX_SNAPSHOTS - 1 :
                  \E i \in 0 .. MAX_SNAPSHOTS - 1 : IndexFrom(k, i) = j
<1>1. MAX_SNAPSHOTS \in Nat \ {0}
    BY ShareAssumption
<1>2. ASSUME NEW j \in 0 .. MAX_SNAPSHOTS - 1
      PROVE  \E i \in 0 .. MAX_SNAPSHOTS - 1 : IndexFrom(k, i) = j
    <2>1. CASE j <= k
        <3>1. k - j \in 0 .. MAX_SNAPSHOTS - 1 /\ IndexFrom(k, k - j) = j
            BY <1>1, <2>1 DEF IndexFrom
        <3> QED BY <3>1
    <2>2. CASE j > k
        <3>1. /\ MAX_SNAPSHOTS - (j - k) \in 0 .. MAX_SNAPSHOTS - 1
              /\ IndexFrom(k, MAX_SNAPSHOTS - (j - k)) = j
            BY <1>1, <2>2 DEF IndexFrom
        <3> QED BY <3>1
    <2> QED BY <2>1, <2>2
<1>3. \A i \in 0 .. MAX_SNAPSHOTS - 1 : IndexFrom(k, i) \in 0 .. MAX_SNAPSHOTS - 1
    BY <1>1 DEF IndexFrom
<1> QED BY <1>2, <1>3

LEMMA WalkTypes ==
    ASSUME ShareTypeOK
    PROVE  /\ AvailableSnapshots \in 1 .. MAX_SNAPSHOTS
           /\ \A i \in 0 .. MAX_SNAPSHOTS - 1 :
                  /\ RingIndex(i) \in 0 .. MAX_SNAPSHOTS - 1
                  /\ Walk(i).timestamp \in Nat
                  /\ Walk(i).revenuePerShare \in Nat
<1>1. /\ MAX_SNAPSHOTS \in Nat \ {0} /\ totalSnapshotCount \in Nat \ {0}
      /\ snapshotIndex \in 0 .. MAX_SNAPSHOTS - 1
      /\ recentSnapshots \in [0 .. MAX_SNAPSHOTS - 1 -> [revenuePerShare : Nat, timestamp : Nat]]
    BY ShareAssumption DEF ShareTypeOK
<1>2. AvailableSnapshots \in 1 .. MAX_SNAPSHOTS
    BY <1>1 DEF AvailableSnapshots
<1>3. ASSUME NEW i \in 0 .. MAX_SNAPSHOTS - 1
      PROVE  /\ RingIndex(i) \in 0 .. MAX_SNAPSHOTS - 1
             /\ Walk(i).timestamp \in Nat
             /\ Walk(i).revenuePerShare \in Nat
    <2>1. RingIndex(i) \in 0 .. MAX_SNAPSHOTS - 1
        <3>1. RingIndex(i) = IndexFrom(snapshotIndex, i)
            BY DEF RingIndex, IndexFrom
        <3> QED BY <1>1, <3>1, WalkVisitsAll
    <2>2. recentSnapshots[RingIndex(i)] \in [revenuePerShare : Nat, timestamp : Nat]
        BY <1>1, <2>1
    <2> QED BY <2>1, <2>2 DEF Walk
<1> QED BY <1>2, <1>3

-----------------------------------------------------------------------------
LEMMA RingInvInit ==
    ASSUME ShareInit
    PROVE  RingInv
<1>1. /\ MAX_SNAPSHOTS \in Nat \ {0} /\ now = 1 /\ lastSnapshotTime = 1 /\ revenuePerShare = 0
      /\ snapshotIndex = 0 /\ totalSnapshotCount = 1
      /\ recentSnapshots = [i \in 0 .. MAX_SNAPSHOTS - 1 |->
                                [revenuePerShare |-> 0, timestamp |-> IF i = 0 THEN 1 ELSE 0]]
    BY ShareAssumption DEF ShareInit
<1>2. AvailableSnapshots = 1
    BY <1>1 DEF AvailableSnapshots
<1>3. /\ RingIndex(0) = 0
      /\ \A i \in 1 .. MAX_SNAPSHOTS - 1 : RingIndex(i) \in 1 .. MAX_SNAPSHOTS - 1
    BY <1>1 DEF RingIndex
<1>4. Walk(0).timestamp = 1 /\ Walk(0).revenuePerShare = 0
    BY <1>1, <1>3 DEF Walk
<1>5. \A i \in 1 .. MAX_SNAPSHOTS - 1 : Walk(i).timestamp = 0
    BY <1>1, <1>3 DEF Walk
<1>6. TakenOrBlank
    BY <1>1, <1>2, <1>4, <1>5 DEF TakenOrBlank
<1>7. Sorted
    BY <1>2, <1>4 DEF Sorted
<1>8. SnapshotsOrdered
    BY <1>2 DEF SnapshotsOrdered
<1> QED BY <1>1, <1>4, <1>6, <1>7, <1>8 DEF RingInv, NewestIsLast

(***************************************************************************)
(* While the ring stays as it is, the accumulator may grow.                *)
(***************************************************************************)
LEMMA RingUntouched ==
    ASSUME ShareTypeOK, RingInv, UNCHANGED snapshotVars, now' > 0,
           revenuePerShare' \in Nat, revenuePerShare <= revenuePerShare'
    PROVE  RingInv'
<1>1. UNCHANGED <<recentSnapshots, snapshotIndex, totalSnapshotCount, lastSnapshotTime>>
    BY DEF snapshotVars
<1>2. AvailableSnapshots' = AvailableSnapshots
    BY <1>1 DEF AvailableSnapshots
<1>3. \A i : RingIndex(i)' = RingIndex(i) /\ Walk(i)' = Walk(i)
    BY <1>1 DEF Walk, RingIndex
<1>4. NewestIsLast'
    <2>1. Walk(0).revenuePerShare \in Nat /\ revenuePerShare \in Nat
        BY WalkTypes, ShareAssumption DEF ShareTypeOK
    <2> QED BY <1>1, <1>3, <2>1 DEF RingInv, NewestIsLast
<1>5. Sorted' /\ TakenOrBlank'
    BY <1>2, <1>3 DEF RingInv, Sorted, TakenOrBlank
<1>6. SnapshotsOrdered'
    BY <1>1 DEF RingInv, SnapshotsOrdered, AvailableSnapshots, RingIndex
<1> QED BY <1>4, <1>5, <1>6 DEF RingInv

(***************************************************************************)
(* A snapshot is taken.                                                    *)
(***************************************************************************)
LEMMA RingAdvances ==
    ASSUME ShareTypeOK, RingInv, NEW rps \in Nat, revenuePerShare <= rps,
           revenuePerShare' = rps, now' = now,
           now >= lastSnapshotTime + MIN_SNAPSHOT_INTERVAL,
           NEW next, next = (snapshotIndex + 1) % MAX_SNAPSHOTS,
           snapshotIndex' = next,
           recentSnapshots' = [recentSnapshots EXCEPT
               ![next] = [revenuePerShare |-> rps, timestamp |-> now]],
           totalSnapshotCount' = totalSnapshotCount + 1,
           lastSnapshotTime' = now
    PROVE  RingInv'
<1>1. /\ MAX_SNAPSHOTS \in Nat \ {0} /\ MIN_SNAPSHOT_INTERVAL \in Nat
      /\ totalSnapshotCount \in Nat \ {0} /\ now \in Nat \ {0} /\ lastSnapshotTime \in Nat
      /\ snapshotIndex \in 0 .. MAX_SNAPSHOTS - 1 /\ revenuePerShare \in Nat
      /\ recentSnapshots \in [0 .. MAX_SNAPSHOTS - 1 -> [revenuePerShare : Nat, timestamp : Nat]]
    BY ShareAssumption DEF ShareTypeOK, RingInv
<1>2. /\ next \in 0 .. MAX_SNAPSHOTS - 1 /\ IndexFrom(next, 0) = next
      /\ \A i \in 1 .. MAX_SNAPSHOTS - 1 : /\ IndexFrom(next, i) = IndexFrom(snapshotIndex, i - 1)
                                           /\ IndexFrom(snapshotIndex, i - 1) # next
    <2>1. snapshotIndex \in 0 .. MAX_SNAPSHOTS - 1
        BY <1>1
    <2>2. next \in Nat
        BY <1>1
    <2> QED BY <2>1, <2>2, WalkShifts
<1>3. \A i : /\ RingIndex(i) = IndexFrom(snapshotIndex, i)
             /\ RingIndex(i)' = IndexFrom(next, i)
    BY DEF RingIndex, IndexFrom
<1>4. Walk(0)' = [revenuePerShare |-> rps, timestamp |-> now]
    BY <1>1, <1>2, <1>3 DEF Walk
<1>5. ASSUME NEW i \in 1 .. MAX_SNAPSHOTS - 1 PROVE Walk(i)' = Walk(i - 1)
    <2>1. i - 1 \in 0 .. MAX_SNAPSHOTS - 1
        BY <1>1
    <2>2. RingIndex(i)' = RingIndex(i - 1) /\ RingIndex(i - 1) # next
        BY <1>2, <1>3
    <2>3. RingIndex(i - 1) \in 0 .. MAX_SNAPSHOTS - 1
        BY <2>1, WalkTypes
    <2>4. Walk(i)' = recentSnapshots'[RingIndex(i)']
        BY DEF Walk
    <2> QED BY <1>1, <2>2, <2>3, <2>4 DEF Walk
<1> DEFINE A == AvailableSnapshots
           B == AvailableSnapshots'
<1>6. A \in 1 .. MAX_SNAPSHOTS /\ B \in 1 .. MAX_SNAPSHOTS
      /\ B - 1 <= A /\ \A i \in 1 .. MAX_SNAPSHOTS - 1 : i < B <=> i - 1 < A
    BY <1>1 DEF AvailableSnapshots
<1> HIDE DEF A, B
<1>7. \A i \in 0 .. MAX_SNAPSHOTS - 1 : Walk(i).timestamp \in Nat
    BY WalkTypes
<1>8. Walk(0).timestamp = lastSnapshotTime /\ Walk(0).revenuePerShare <= revenuePerShare
      /\ Walk(0).revenuePerShare \in Nat
    BY <1>1, WalkTypes DEF RingInv, NewestIsLast
<1>9. NewestIsLast'
    <2>1. Walk(0)'.timestamp = now /\ Walk(0)'.revenuePerShare = rps
        BY <1>4
    <2> QED BY <2>1 DEF NewestIsLast
<1>10. TakenOrBlank'
    <2>1. ASSUME NEW i \in 0 .. MAX_SNAPSHOTS - 1 PROVE Walk(i)'.timestamp > 0 <=> i < B
        <3>1. CASE i = 0
            BY <1>1, <1>4, <1>6, <3>1
        <3>2. CASE i # 0
            <4>1. i \in 1 .. MAX_SNAPSHOTS - 1 /\ i - 1 \in 0 .. MAX_SNAPSHOTS - 1
                BY <1>1, <3>2
            <4>2. Walk(i - 1).timestamp > 0 <=> i - 1 < A
                BY <4>1 DEF RingInv, TakenOrBlank, A
            <4> QED BY <1>5, <1>6, <4>1, <4>2
        <3> QED BY <3>1, <3>2
    <2> QED BY <2>1 DEF TakenOrBlank, B
<1>11. Sorted'
    <2>1. ASSUME NEW i \in 0 .. B - 1, NEW j \in 0 .. B - 1, i <= j
          PROVE  Walk(j)'.timestamp <= Walk(i)'.timestamp
        <3>1. \A a, b \in 0 .. A - 1 : a <= b => Walk(b).timestamp <= Walk(a).timestamp
            BY DEF RingInv, Sorted, A
        <3>2. CASE j = 0
            <4>1. i = 0 /\ Walk(0)'.timestamp = now
                BY <1>4, <1>6, <2>1, <3>2
            <4> QED BY <1>1, <3>2, <4>1
        <3>3. CASE i = 0 /\ j # 0
            <4>1. j \in 1 .. MAX_SNAPSHOTS - 1 /\ j - 1 \in 0 .. A - 1 /\ 0 \in 0 .. A - 1
                  /\ j - 1 \in 0 .. MAX_SNAPSHOTS - 1
                BY <1>1, <1>6, <3>3
            <4>2. Walk(j - 1).timestamp <= Walk(0).timestamp
                BY <3>1, <4>1
            <4>3. Walk(j)' = Walk(j - 1) /\ Walk(j - 1).timestamp \in Nat
                BY <1>5, <1>7, <4>1
            <4> QED BY <1>1, <1>4, <1>8, <3>3, <4>2, <4>3
        <3>4. CASE i # 0 /\ j # 0
            <4>1. /\ i \in 1 .. MAX_SNAPSHOTS - 1 /\ j \in 1 .. MAX_SNAPSHOTS - 1
                  /\ i - 1 \in 0 .. A - 1 /\ j - 1 \in 0 .. A - 1 /\ i - 1 <= j - 1
                BY <1>1, <1>6, <2>1, <3>4
            <4> QED BY <1>5, <3>1, <4>1
        <3> QED BY <3>2, <3>3, <3>4
    <2> QED BY <2>1 DEF Sorted, B
<1>12. SnapshotsOrdered'
    <2>1. ASSUME NEW i \in 1 .. B - 1
          PROVE  /\ Walk(i - 1)'.timestamp >= Walk(i)'.timestamp + MIN_SNAPSHOT_INTERVAL
                 /\ Walk(i - 1)'.revenuePerShare >= Walk(i)'.revenuePerShare
        <3>1. i \in 1 .. MAX_SNAPSHOTS - 1 /\ Walk(i)' = Walk(i - 1)
            BY <1>1, <1>5, <1>6
        <3>2. CASE i = 1
            <4>1. i - 1 = 0 /\ Walk(1)' = Walk(0)
                BY <3>1, <3>2
            <4> QED BY <1>1, <1>4, <1>8, <3>2, <4>1, SMTT(20)
        <3>3. CASE i # 1
            <4>1. i - 1 \in 1 .. A - 1 /\ i - 1 \in 1 .. MAX_SNAPSHOTS - 1 /\ (i - 1) - 1 = i - 2
                BY <1>1, <1>6, <3>1, <3>3
            <4>2. Walk(i - 1)' = Walk(i - 2)
                BY <1>5, <4>1
            <4>3. /\ Walk(i - 2).timestamp >= Walk(i - 1).timestamp + MIN_SNAPSHOT_INTERVAL
                  /\ Walk(i - 2).revenuePerShare >= Walk(i - 1).revenuePerShare
                <5>1. \A n \in 1 .. A - 1 :
                          /\ Walk(n - 1).timestamp >= Walk(n).timestamp + MIN_SNAPSHOT_INTERVAL
                          /\ Walk(n - 1).revenuePerShare >= Walk(n).revenuePerShare
                    BY DEF RingInv, SnapshotsOrdered, Walk, A
                <5> QED BY <4>1, <5>1
            <4> QED BY <3>1, <4>2, <4>3
        <3> QED BY <3>2, <3>3
    <2> QED BY <2>1 DEF SnapshotsOrdered, Walk, B
<1> QED BY <1>1, <1>9, <1>10, <1>11, <1>12 DEF RingInv

LEMMA RingOverSnapshot ==
    ASSUME ShareTypeOK, RingInv, NEW rps \in Nat, revenuePerShare <= rps,
           revenuePerShare' = rps, now' = now, TakeSnapshotIfNeeded(rps)
    PROVE  RingInv'
<1>1. CASE now < lastSnapshotTime + MIN_SNAPSHOT_INTERVAL
    BY <1>1, RingUntouched DEF TakeSnapshotIfNeeded, RingInv
<1>2. CASE ~(now < lastSnapshotTime + MIN_SNAPSHOT_INTERVAL)
    <2>1. now >= lastSnapshotTime + MIN_SNAPSHOT_INTERVAL
        BY <1>2, ShareAssumption DEF ShareTypeOK
    <2> QED BY <1>2, <2>1, RingAdvances DEF TakeSnapshotIfNeeded
<1> QED BY <1>1, <1>2

LEMMA RingOverDistribution ==
    ASSUME ShareTypeOK, Earned, RingInv, RevenueShareAddr \in Accounts,
           NEW ledger \in [Accounts -> Nat], InternalDistribute(ledger), now' = now
    PROVE  RingInv'
<1>1. /\ revenuePerShare' = RevenuePerShareNow(ledger)
      /\ revenuePerShare' \in Nat /\ revenuePerShare <= revenuePerShare'
    BY Distributed, DistributedTypes
<1>2. CASE Credits(ledger)
    <2>1. TakeSnapshotIfNeeded(RevenuePerShareNow(ledger))
        BY <1>2 DEF InternalDistribute
    <2> QED BY <1>1, <2>1, RingOverSnapshot
<1>3. CASE ~Credits(ledger)
    <2>1. UNCHANGED snapshotVars
        BY <1>3 DEF InternalDistribute, accumulatorVars
    <2> QED BY <1>1, <2>1, RingUntouched DEF RingInv
<1> QED BY <1>2, <1>3

LEMMA RingStaysAsItIs ==
    ASSUME ShareTypeOK, RingInv, UNCHANGED accumulatorVars, now' > 0
    PROVE  RingInv'
<1>1. /\ revenuePerShare' = revenuePerShare /\ UNCHANGED snapshotVars
      /\ revenuePerShare \in Nat /\ revenuePerShare <= revenuePerShare
    BY DEF accumulatorVars, ShareTypeOK
<1> QED BY <1>1, RingUntouched

LEMMA RingStep ==
    ASSUME ShareInv, RingInv, RevenueShareAddr \in Accounts, [ShareNext]_shareVars
    PROVE  RingInv'
<1>1. ShareTypeOK /\ Earned /\ usdc \in [Accounts -> Nat] /\ now \in Nat /\ now > 0
      /\ revenuePerShare \in Nat
    BY DEF ShareInv, ShareTypeOK, RingInv
<1>2. ASSUME NEW to \in Holders, NEW n \in GenesisShares, GenesisMint(to, n) PROVE RingInv'
    BY <1>1, <1>2, RingStaysAsItIs DEF GenesisMint
<1>3. ASSUME Distribute PROVE RingInv'
    BY <1>1, <1>3, RingOverDistribution DEF Distribute
<1>4. ASSUME NEW h \in Holders, NEW to \in Accounts, Claim(h, to) PROVE RingInv'
    BY <1>1, <1>4, RingOverDistribution DEF Claim
<1>5. ASSUME NEW from \in Holders, NEW to \in Holders, NEW n \in ShareAmounts,
             Transfer(from, to, n)
      PROVE  RingInv'
    BY <1>1, <1>5, RingStaysAsItIs DEF Transfer, MoveShares
<1>6. ASSUME NEW payer \in Payers, NEW amount \in Payments, Receive(payer, amount) PROVE RingInv'
    BY <1>1, <1>6, RingStaysAsItIs DEF Receive
<1>7. ASSUME TakeSnapshot PROVE RingInv'
    BY <1>1, <1>7, RingOverSnapshot DEF TakeSnapshot
<1>8. ASSUME Tick \/ UNCHANGED shareVars PROVE RingInv'
    <2>1. UNCHANGED accumulatorVars
        BY <1>8 DEF Tick, shareVars
    <2>2. now' > 0
        BY <1>1, <1>8 DEF Tick, shareVars
    <2> QED BY <1>1, <2>1, <2>2, RingStaysAsItIs
<1> QED BY <1>2, <1>3, <1>4, <1>5, <1>6, <1>7, <1>8, ShareAssumption DEF ShareNext, HolderStep

LEMMA RingInvHolds == RevenueShareAddr \in Accounts => (ShareSpec => [](ShareInv /\ RingInv))
<1> SUFFICES ASSUME RevenueShareAddr \in Accounts PROVE ShareSpec => [](ShareInv /\ RingInv)
    OBVIOUS
<1>1. ShareInit => ShareInv /\ RingInv
    BY ShareInvInit, RingInvInit
<1>2. (ShareInv /\ RingInv) /\ [ShareNext]_shareVars => (ShareInv /\ RingInv)'
    BY ShareInvStep, RingStep
<1> QED BY <1>1, <1>2, PTL DEF ShareSpec

-----------------------------------------------------------------------------
(***************************************************************************)
(* For a ring of any size, entries are at least the minimum interval apart *)
(* and the accumulator never falls from an older entry to a newer one.     *)
(***************************************************************************)
THEOREM RingIsOrdered == RevenueShareAddr \in Accounts => (ShareSpec => []SnapshotsOrdered)
<1>1. ShareInv /\ RingInv => SnapshotsOrdered
    BY DEF RingInv
<1> QED BY <1>1, RingInvHolds, PTL

LEMMA LeastNumber ==
    ASSUME NEW T, T \subseteq Nat, T # {}
    PROVE  \E n \in T : \A m \in T : n <= m
<1>1. PICK n \in T : \A m \in T : ~(<<m, n>> \in OpToRel(<, Nat))
    BY NatLessThanWellFounded, WFMin
<1>2. \A m \in T : ~(m < n)
    BY <1>1 DEF OpToRel
<1> QED BY <1>2

LEMMA SearchIsRight ==
    ASSUME ShareTypeOK, RingInv
    PROVE  FindsLatest
<1>1. /\ MAX_SNAPSHOTS \in Nat \ {0} /\ AvailableSnapshots \in 1 .. MAX_SNAPSHOTS
      /\ \A i \in 0 .. MAX_SNAPSHOTS - 1 : /\ RingIndex(i) \in 0 .. MAX_SNAPSHOTS - 1
                                           /\ Walk(i).timestamp \in Nat
    BY WalkTypes, ShareAssumption
<1>2. Kept = {Walk(i) : i \in 0 .. AvailableSnapshots - 1}
    <2>1. ASSUME NEW j \in 0 .. MAX_SNAPSHOTS - 1, recentSnapshots[j].timestamp > 0
          PROVE  \E i \in 0 .. AvailableSnapshots - 1 : recentSnapshots[j] = Walk(i)
        <3>1. PICK i \in 0 .. MAX_SNAPSHOTS - 1 : IndexFrom(snapshotIndex, i) = j
            BY WalkVisitsAll DEF ShareTypeOK
        <3>2. recentSnapshots[j] = Walk(i)
            BY <3>1 DEF Walk, RingIndex, IndexFrom
        <3>3. i < AvailableSnapshots
            BY <2>1, <3>2 DEF RingInv, TakenOrBlank
        <3> QED BY <1>1, <3>2, <3>3
    <2>2. ASSUME NEW i \in 0 .. AvailableSnapshots - 1 PROVE Walk(i) \in Kept
        <3>1. i \in 0 .. MAX_SNAPSHOTS - 1 /\ i < AvailableSnapshots
            BY <1>1
        <3>2. Walk(i).timestamp > 0 /\ RingIndex(i) \in 0 .. MAX_SNAPSHOTS - 1
            BY <1>1, <3>1 DEF RingInv, TakenOrBlank
        <3> QED BY <3>2 DEF Kept, Walk
    <2> QED BY <2>1, <2>2 DEF Kept
<1>3. ASSUME NEW ts \in 1 .. MaxTime
      PROVE  LET before == {s \in Kept : s.timestamp <= ts}
                 found  == FindSnapshotBefore(ts)
             IN  IF before = {} THEN found = NoSnapshot
                 ELSE found \in before /\ \A s \in before : s.timestamp <= found.timestamp
    <2> DEFINE before == {s \in Kept : s.timestamp <= ts}
               old == {i \in 0 .. AvailableSnapshots - 1 : Walk(i).timestamp <= ts}
               first == CHOOSE i \in old : \A j \in old : i <= j
    <2>1. FindSnapshotBefore(ts) = IF old = {} THEN NoSnapshot ELSE Walk(first)
        BY DEF FindSnapshotBefore, Walk
    <2>2. before = {Walk(i) : i \in old}
        BY <1>2
    <2>3. CASE old = {}
        <3>1. before = {}
            BY <2>2, <2>3
        <3> QED BY <2>1, <2>3, <3>1
    <2>4. CASE old # {}
        <3>1. \E i \in old : \A j \in old : i <= j
            <4>1. old \subseteq Nat
                BY <1>1
            <4> HIDE DEF old
            <4> QED BY <2>4, <4>1, LeastNumber
        <3>2. first \in old /\ \A j \in old : first <= j
            BY <3>1
        <3> HIDE DEF first
        <3>3. Walk(first) \in before
            BY <2>2, <3>2
        <3>4. ASSUME NEW s \in before PROVE s.timestamp <= Walk(first).timestamp
            <4>1. PICK j \in old : s = Walk(j)
                BY <2>2, <3>4
            <4>2. /\ first \in 0 .. AvailableSnapshots - 1 /\ j \in 0 .. AvailableSnapshots - 1
                  /\ first <= j
                BY <3>2, <4>1
            <4> QED BY <4>1, <4>2 DEF RingInv, Sorted
        <3>5. before # {} /\ FindSnapshotBefore(ts) = Walk(first)
            BY <2>1, <2>4, <3>3
        <3> HIDE DEF before
        <3>6. IF before = {} THEN FindSnapshotBefore(ts) = NoSnapshot
              ELSE /\ FindSnapshotBefore(ts) \in before
                   /\ \A s \in before : s.timestamp <= FindSnapshotBefore(ts).timestamp
            BY <3>3, <3>4, <3>5
        <3> QED BY <3>6 DEF before
    <2> QED BY <2>3, <2>4
<1> QED BY <1>3 DEF FindsLatest

(***************************************************************************)
(* _findSnapshotBefore returns the latest snapshot kept that is old        *)
(* enough, for a ring of any size that wrapped any number of times.        *)
(***************************************************************************)
THEOREM SearchFindsLatest == RevenueShareAddr \in Accounts => (ShareSpec => []FindsLatest)
<1>1. ShareInv /\ RingInv => FindsLatest
    BY SearchIsRight DEF ShareInv
<1> QED BY <1>1, RingInvHolds, PTL
=============================================================================
