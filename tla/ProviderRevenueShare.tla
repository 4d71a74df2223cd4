------------------------ MODULE ProviderRevenueShare ------------------------
(***************************************************************************)
(* ProviderRevenueShare.sol: a fixed supply of shares and the USDC they    *)
(* earn.  The contract finds out by itself how much USDC arrived, raises   *)
(* revenuePerShare (scaled by SCALE) and owes every holder the difference  *)
(* between that accumulator and the holder's checkpoint.                   *)
(*                                                                         *)
(* Operators that a transaction evaluates after moving coins take the      *)
(* ledger as a parameter.                                                  *)
(***************************************************************************)
EXTENDS USDC

CONSTANTS
    Accounts,               \* every address that can hold USDC
    Holders,                \* addresses that can hold shares, the contract's included
    Claimants,              \* holders that call claim and transfer themselves
    RevenueShareAddr,       \* the contract's own account
    Payers,                 \* accounts revenue comes from
    InitialUSDC,            \* what every payer holds at the start
    SCALE,                  \* 1e18 in the code
    MinShares,              \* 1_000_000 in the code
    Payees,                 \* values of `to' passed to claim
    GenesisHolders,         \* values of `to' passed to genesisMint
    GenesisShares,          \* values of `shares' passed to genesisMint
    ShareAmounts,           \* amounts of shares passed to transfer
    Payments,               \* amounts of USDC sent at once
    MIN_SNAPSHOT_INTERVAL,
    MAX_SNAPSHOTS,
    MaxClaimed,             \* bound on totalClaimed
    MaxTime                 \* bound on block.timestamp

ASSUME ShareAssumption ==
    /\ IsFiniteSet(Holders)
    /\ Holders \subseteq Accounts
    /\ Claimants \subseteq Holders
    /\ RevenueShareAddr \in Accounts \cup {NoAddress}
    /\ NoAddress \notin Accounts
    /\ Payers \subseteq Accounts \ {RevenueShareAddr}
    /\ InitialUSDC \in Nat
    /\ SCALE \in Nat \ {0}
    /\ MinShares \in Nat \ {0}
    /\ Payees \subseteq Accounts
    /\ GenesisHolders \subseteq Holders
    /\ GenesisShares \subseteq Nat
    /\ ShareAmounts \subseteq Nat
    /\ Payments \subseteq Nat
    /\ MIN_SNAPSHOT_INTERVAL \in Nat
    /\ MAX_SNAPSHOTS \in Nat \ {0}
    /\ MaxClaimed \in Nat
    /\ MaxTime \in Nat

VARIABLES
    usdc,                   \* the USDC ledger
    now,                    \* block.timestamp
    shares,                 \* balanceOf
    totalSupply,
    genesisComplete,
    revenuePerShare,
    checkpoint,
    pendingClaims,
    totalDistributed,
    totalClaimed,
    recentSnapshots,        \* ring of [revenuePerShare, timestamp]
    snapshotIndex,
    totalSnapshotCount,
    lastSnapshotTime

ownershipVars == <<shares, totalSupply, genesisComplete>>
accountVars == <<checkpoint, pendingClaims, totalClaimed>>
snapshotVars == <<recentSnapshots, snapshotIndex, totalSnapshotCount, lastSnapshotTime>>
accumulatorVars == <<revenuePerShare, totalDistributed, snapshotVars>>
shareVars == <<usdc, now, ownershipVars, accountVars, accumulatorVars>>

-----------------------------------------------------------------------------
ShareInit ==
    /\ usdc = [a \in Accounts |-> IF a \in Payers THEN InitialUSDC ELSE 0]
    /\ now = 1
    /\ shares = [h \in Holders |-> 0]
    /\ totalSupply = 0
    /\ genesisComplete = FALSE
    /\ revenuePerShare = 0
    /\ checkpoint = [h \in Holders |-> 0]
    /\ pendingClaims = [h \in Holders |-> 0]
    /\ totalDistributed = 0
    /\ totalClaimed = 0
    /\ recentSnapshots = [i \in 0 .. MAX_SNAPSHOTS - 1 |->
                             [revenuePerShare |-> 0, timestamp |-> IF i = 0 THEN now ELSE 0]]
    /\ snapshotIndex = 0
    /\ totalSnapshotCount = 1
    /\ lastSnapshotTime = now

-----------------------------------------------------------------------------
\* What arrived since the last distribution.
Undistributed(ledger) == ledger[RevenueShareAddr] - (totalDistributed - totalClaimed)

\* _distribute does not underflow: checked subtraction would revert.
Readable(ledger) == Undistributed(ledger) >= 0

\* Mutant of Credits: a single coin is left for later.
CreditsAboveDust(ledger) == Undistributed(ledger) > 1 /\ totalSupply > 0

\* _distribute credits something.
Credits(ledger) == Undistributed(ledger) > 0 /\ totalSupply > 0

RevenuePerShareNow(ledger) ==
    IF Credits(ledger)
    THEN revenuePerShare + (Undistributed(ledger) * SCALE) \div totalSupply
    ELSE revenuePerShare

\* _takeSnapshotIfNeeded, run by a _distribute that credits.
TakeSnapshotIfNeeded(rps) ==
    IF now < lastSnapshotTime + MIN_SNAPSHOT_INTERVAL
    THEN UNCHANGED snapshotVars
    ELSE LET next == (snapshotIndex + 1) % MAX_SNAPSHOTS
         IN  /\ snapshotIndex' = next
             /\ recentSnapshots' = [recentSnapshots EXCEPT
                    ![next] = [revenuePerShare |-> rps, timestamp |-> now]]
             /\ totalSnapshotCount' = totalSnapshotCount + 1
             /\ lastSnapshotTime' = now

\* _distribute, which leaves everything alone when there is nothing to credit.
InternalDistribute(ledger) ==
    /\ Readable(ledger)
    /\ IF Credits(ledger)
       THEN /\ revenuePerShare' = RevenuePerShareNow(ledger)
            /\ totalDistributed' = totalDistributed + Undistributed(ledger)
            /\ TakeSnapshotIfNeeded(RevenuePerShareNow(ledger))
       ELSE UNCHANGED accumulatorVars

\* Mutant of Accrued: rounded up.
AccruedUp(h, rps) == ((rps - checkpoint[h]) * shares[h] + SCALE - 1) \div SCALE

Accrued(h, rps) == ((rps - checkpoint[h]) * shares[h]) \div SCALE

\* claimable(holder), and what it would be at another value of the accumulator.
ClaimableAt(h, rps) == pendingClaims[h] + Accrued(h, rps)

Claimable == [h \in Holders |-> ClaimableAt(h, revenuePerShare)]

-----------------------------------------------------------------------------
\* genesisMint; _update settles the recipient, who holds nothing yet.
GenesisMint(to, n) ==
    /\ ~genesisComplete
    /\ n >= MinShares
    /\ genesisComplete' = TRUE
    /\ shares' = [shares EXCEPT ![to] = @ + n]
    /\ totalSupply' = totalSupply + n
    /\ checkpoint' = [checkpoint EXCEPT ![to] = revenuePerShare]
    /\ UNCHANGED <<usdc, now, pendingClaims, totalClaimed, accumulatorVars>>

\* distribute(), open to anyone, reverts when nothing is credited.
Distribute ==
    /\ Credits(usdc)
    /\ InternalDistribute(usdc)
    /\ UNCHANGED <<usdc, now, ownershipVars, accountVars>>

\* Mutant of Claim: the checkpoint stays behind.
ClaimUnsettled(h, to) ==
    LET owed == ClaimableAt(h, RevenuePerShareNow(usdc))
    IN  /\ totalClaimed + owed <= MaxClaimed
        /\ InternalDistribute(usdc)
        /\ owed > 0
        /\ CanMove(usdc, RevenueShareAddr, to, owed)
        /\ usdc' = Moved(usdc, RevenueShareAddr, to, owed)
        /\ pendingClaims' = [pendingClaims EXCEPT ![h] = 0]
        /\ totalClaimed' = totalClaimed + owed
        /\ UNCHANGED <<now, ownershipVars, checkpoint>>

(***************************************************************************)
(* claim(to): _distribute, settle the caller, pay.  `to' may be any        *)
(* address, the contract's own included: the coins are then new revenue,   *)
(* so that only MaxClaimed keeps totalDistributed finite.                  *)
(***************************************************************************)
Claim(h, to) ==
    LET owed == ClaimableAt(h, RevenuePerShareNow(usdc))
    IN  /\ totalClaimed + owed <= MaxClaimed
        /\ InternalDistribute(usdc)
        /\ owed > 0
        /\ CanMove(usdc, RevenueShareAddr, to, owed)
        /\ usdc' = Moved(usdc, RevenueShareAddr, to, owed)
        /\ pendingClaims' = [pendingClaims EXCEPT ![h] = 0]
        /\ checkpoint' = [checkpoint EXCEPT ![h] = RevenuePerShareNow(usdc)]
        /\ totalClaimed' = totalClaimed + owed
        /\ UNCHANGED <<now, ownershipVars>>

\* takeSnapshot(), open to anyone.
TakeSnapshot ==
    /\ TakeSnapshotIfNeeded(revenuePerShare)
    /\ UNCHANGED <<usdc, now, ownershipVars, accountVars, revenuePerShare, totalDistributed>>

\* _settle: what accrued becomes pending.
Settled(f, h) == [f EXCEPT ![h] = @ + Accrued(h, revenuePerShare)]

\* Mutant of MoveShares: a transfer to oneself settles twice.
MoveSharesSettledTwice(from, to, n) ==
    /\ shares[from] >= n
    /\ shares' = Moved(shares, from, to, n)
    /\ pendingClaims' = Settled(Settled(pendingClaims, from), to)
    /\ checkpoint' = [checkpoint EXCEPT ![from] = revenuePerShare, ![to] = revenuePerShare]

(***************************************************************************)
(* An ERC-20 _transfer: _update settles both sides first.  It does         *)
(* not distribute: undistributed USDC goes to whoever holds the shares     *)
(* when somebody distributes.                                              *)
(***************************************************************************)
MoveShares(from, to, n) ==
    /\ shares[from] >= n
    /\ shares' = Moved(shares, from, to, n)
    /\ pendingClaims' = IF from = to THEN Settled(pendingClaims, from)
                        ELSE Settled(Settled(pendingClaims, from), to)
    /\ checkpoint' = [checkpoint EXCEPT ![from] = revenuePerShare, ![to] = revenuePerShare]

Transfer(from, to, n) ==
    /\ MoveShares(from, to, n)
    /\ UNCHANGED <<usdc, now, totalSupply, genesisComplete, totalClaimed, accumulatorVars>>

\* USDC sent straight to the contract, by anybody.
Receive(payer, amount) ==
    /\ amount > 0
    /\ CanMove(usdc, payer, RevenueShareAddr, amount)
    /\ usdc' = Moved(usdc, payer, RevenueShareAddr, amount)
    /\ UNCHANGED <<now, ownershipVars, accountVars, accumulatorVars>>

\* A block later.
Tick ==
    /\ now < MaxTime
    /\ now' = now + 1
    /\ UNCHANGED <<usdc, ownershipVars, accountVars, accumulatorVars>>

HolderStep ==
    \/ \E h \in Claimants, to \in Payees : Claim(h, to)
    \/ \E from \in Claimants, to \in Holders, n \in ShareAmounts : Transfer(from, to, n)

ShareNext ==
    \/ \E to \in GenesisHolders, n \in GenesisShares : GenesisMint(to, n)
    \/ Distribute
    \/ TakeSnapshot
    \/ HolderStep
    \/ \E p \in Payers, amount \in Payments : Receive(p, amount)
    \/ Tick

ShareSpec == ShareInit /\ [][ShareNext]_shareVars

-----------------------------------------------------------------------------
\* Mutant of RingIndex: one off where the ring wraps.
RingIndexOff(i) == IF i <= snapshotIndex THEN snapshotIndex - i
                   ELSE MAX_SNAPSHOTS - (i - snapshotIndex) - 1

(***************************************************************************)
(* _findSnapshotBefore(targetTs): the ring is walked from the newest entry *)
(* back; the i-th entry of the walk sits at this index.                    *)
(***************************************************************************)
RingIndex(i) == IF i <= snapshotIndex THEN snapshotIndex - i
                ELSE MAX_SNAPSHOTS - (i - snapshotIndex)

AvailableSnapshots ==
    IF totalSnapshotCount > MAX_SNAPSHOTS THEN MAX_SNAPSHOTS ELSE totalSnapshotCount

NoSnapshot == [revenuePerShare |-> 0, timestamp |-> 0]

FindSnapshotBefore(ts) ==
    LET old == {i \in 0 .. AvailableSnapshots - 1 :
                   recentSnapshots[RingIndex(i)].timestamp <= ts}
    IN  IF old = {} THEN NoSnapshot
        ELSE recentSnapshots[RingIndex(CHOOSE i \in old : \A j \in old : i <= j)]

-----------------------------------------------------------------------------
(***************************************************************************)
(* Type invariant of the contract's storage; the supply is the sum of the  *)
(* balances.                                                               *)
(***************************************************************************)
ShareTypeOK ==
    /\ usdc \in [Accounts -> Nat]
    /\ now \in Nat
    /\ shares \in [Holders -> Nat]
    /\ totalSupply = Total(shares)
    /\ genesisComplete \in BOOLEAN
    /\ revenuePerShare \in Nat
    /\ checkpoint \in [Holders -> 0 .. revenuePerShare]
    /\ pendingClaims \in [Holders -> Nat]
    /\ totalDistributed \in Nat
    /\ totalClaimed \in 0 .. totalDistributed
    /\ recentSnapshots \in [0 .. MAX_SNAPSHOTS - 1 -> [revenuePerShare : Nat, timestamp : Nat]]
    /\ snapshotIndex \in 0 .. MAX_SNAPSHOTS - 1
    /\ totalSnapshotCount \in Nat \ {0}
    /\ lastSnapshotTime \in Nat

(***************************************************************************)
(* What all holders together may claim never exceeds what was distributed  *)
(* and not yet claimed, and that never exceeds the balance: no last holder *)
(* is left unpaid, and the subtraction in _distribute, which every claim   *)
(* runs, never underflows.                                                 *)
(***************************************************************************)
Solvent ==
    /\ Total(Claimable) <= totalDistributed - totalClaimed
    /\ totalDistributed - totalClaimed <= usdc[RevenueShareAddr]

(***************************************************************************)
(* What a holder may claim changes only when revenue is distributed or     *)
(* claimed.  In particular a transfer moves no past earnings, nor doubles  *)
(* them: not one of zero shares, nor to oneself, nor to the contract.      *)
(***************************************************************************)
TransferKeepsEarnings ==
    [][UNCHANGED <<totalDistributed, totalClaimed>> => Claimable' = Claimable]_shareVars

(***************************************************************************)
(* The ring, walked back from the newest entry, goes back in time by at    *)
(* least the minimum interval per entry, and the accumulator falls along.  *)
(***************************************************************************)
SnapshotsOrdered ==
    \A i \in 1 .. AvailableSnapshots - 1 :
        LET newer == recentSnapshots[RingIndex(i - 1)]
            older == recentSnapshots[RingIndex(i)]
        IN  /\ newer.timestamp >= older.timestamp + MIN_SNAPSHOT_INTERVAL
            /\ newer.revenuePerShare >= older.revenuePerShare

(***************************************************************************)
(* _findSnapshotBefore finds, among the snapshots kept, the latest one     *)
(* taken at or before the time asked for, also after the ring has wrapped. *)
(***************************************************************************)
Kept == {recentSnapshots[i] : i \in {j \in 0 .. MAX_SNAPSHOTS - 1 : recentSnapshots[j].timestamp > 0}}

FindsLatest ==
    \A ts \in 1 .. MaxTime :
        LET before == {s \in Kept : s.timestamp <= ts}
            found  == FindSnapshotBefore(ts)
        IN  IF before = {} THEN found = NoSnapshot
            ELSE found \in before /\ \A s \in before : s.timestamp <= found.timestamp

Pool == INSTANCE DividendPool WITH pool <- usdc[RevenueShareAddr], owed <- Claimable

(***************************************************************************)
(* The contract implements the dividend pool: whatever is credited is      *)
(* covered, and no holder's debt shrinks except by being paid in full.     *)
(***************************************************************************)
ImplementsPool == Pool!PoolSpec
=============================================================================
