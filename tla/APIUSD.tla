------------------------------- MODULE APIUSD -------------------------------
(***************************************************************************)
(* APIUSD.sol: a stablecoin minted against the dividends that deposited    *)
(* shares have earned since.  Only the shares go in and out; the dividends *)
(* stay with the contract until a liquidation pays them to the liquidator. *)
(* The admin, the pauser and their successors are not told apart.  The     *)
(* rate snapshots, which only the APR views read, are left out.            *)
(***************************************************************************)
EXTENDS RevenueHarvest

CONSTANTS
    Borrowers,              \* who opens, trades, repays and liquidates
    FeeRecipients,          \* addresses the admin names
    Deposits,               \* amounts of shares deposited and removed
    StableAmounts,          \* amounts of APIUSD minted, repaid and transferred
    LTV_BP,
    LIQ_THRESHOLD_BP,
    LIQ_BONUS_BP,
    MINT_FEE_BP,
    MAX_TOTAL_SUPPLY,
    MaxBookings             \* bound on deposits and removals of shares

ASSUME CdpAssumption ==
    /\ Borrowers \subseteq Holders \ {EscrowAddr, RevenueShareAddr}
    /\ FeeRecipients \subseteq Accounts
    /\ Deposits \cup StableAmounts \subseteq Nat
    /\ LTV_BP \in Nat \ {0}
    /\ {LIQ_BONUS_BP, MAX_TOTAL_SUPPLY, MaxBookings} \subseteq Nat
    /\ LTV_BP < LIQ_THRESHOLD_BP /\ LIQ_THRESHOLD_BP \in 0 .. BP_SCALE
    /\ MINT_FEE_BP \in 0 .. BP_SCALE

VARIABLES
    positions,              \* [rsShares, debt, rewardDebt] of each borrower
    stable,                 \* balanceOf of APIUSD
    feeRecipient,
    paused,
    rescued,                \* history: the coins rescueERC20 took
    bookings                \* history: deposits and removals so far

tokenVars == <<stable, feeRecipient, paused>>
historyVars == <<rescued, bookings>>
cdpVars == <<positions, tokenVars, historyVars>>

NoPosition == [rsShares |-> 0, debt |-> 0, rewardDebt |-> 0]

CdpInit ==
    /\ positions = [u \in Borrowers |-> NoPosition]
    /\ stable = [h \in Borrowers \cup FeeRecipients |-> 0]
    /\ feeRecipient \in FeeRecipients
    /\ paused = FALSE
    /\ rescued = 0
    /\ bookings = 0

-----------------------------------------------------------------------------
Gross(acc, n) == (acc * n) \div PRECISION

\* _positionEarned
EarnedBy(position, acc) == Gross(acc, position.rsShares) - position.rewardDebt

\* collateralValue(user), which counts what a harvest would credit.
CollateralValue(u) == EarnedBy(positions[u], AccAfter)

MintFee(m) == (m * MINT_FEE_BP) \div BP_SCALE

\* What _mintDebt leaves of a position.
WithDebt(position, m) == [position EXCEPT !.debt = @ + m - MintFee(m)]

\* _mintDebt, at the accumulator the harvest has left.
MintDebt(u, position, m) ==
    /\ Total(stable) + m <= MAX_TOTAL_SUPPLY
    /\ WithDebt(position, m).debt <= (EarnedBy(position, AccAfter) * LTV_BP) \div BP_SCALE
    /\ positions' = [positions EXCEPT ![u] = WithDebt(position, m)]
    /\ stable' = [[stable EXCEPT ![feeRecipient] = @ + MintFee(m)] EXCEPT ![u] = @ + m - MintFee(m)]

Booked(u, n) ==
    /\ n > 0
    /\ bookings < MaxBookings
    /\ bookings' = bookings + 1

-----------------------------------------------------------------------------
\* Mutant of Open: nothing is harvested before the shares are in.
OpenUnharvested(u, n, m) ==
    /\ ~paused
    /\ Booked(u, n)
    /\ m = 0
    /\ positions[u].rsShares = 0
    /\ SendUnharvested(u, EscrowAddr, n)
    /\ rsHeld' = rsHeld + n
    /\ positions' = [positions EXCEPT
           ![u] = [rsShares |-> n, debt |-> 0, rewardDebt |-> Gross(accUsdcPerRawShare, n)]]
    /\ UNCHANGED <<tokenVars, rescued>>

(***************************************************************************)
(* open(rsShares, apiusdToMint).  A new position has earned nothing, so    *)
(* that it can mint nothing but a fee.                                     *)
(***************************************************************************)
Open(u, n, m) ==
    LET position == [rsShares |-> n, debt |-> 0, rewardDebt |-> Gross(AccAfter, n)]
    IN  /\ ~paused
        /\ Booked(u, n)
        /\ positions[u].rsShares = 0
        /\ HarvestAndSend(u, EscrowAddr, n)
        /\ usdc' = LedgerAfter
        /\ rsHeld' = rsHeld + n
        /\ IF m > 0 THEN MintDebt(u, position, m)
           ELSE positions' = [positions EXCEPT ![u] = position] /\ UNCHANGED stable
        /\ UNCHANGED <<feeRecipient, paused, rescued>>

\* Mutant of AddCollateral: rewardDebt stays that of the shares before.
AddUnsettled(u, n) ==
    /\ ~paused
    /\ Booked(u, n)
    /\ positions[u].rsShares > 0
    /\ HarvestAndSend(u, EscrowAddr, n)
    /\ usdc' = LedgerAfter
    /\ rsHeld' = rsHeld + n
    /\ positions' = [positions EXCEPT ![u].rsShares = @ + n]
    /\ UNCHANGED <<tokenVars, rescued>>

\* addCollateral: what the position has earned stays what it was.
AddCollateral(u, n) ==
    LET position == positions[u]
        total    == position.rsShares + n
    IN  /\ ~paused
        /\ Booked(u, n)
        /\ position.rsShares > 0
        /\ HarvestAndSend(u, EscrowAddr, n)
        /\ usdc' = LedgerAfter
        /\ rsHeld' = rsHeld + n
        /\ positions' = [positions EXCEPT
               ![u].rsShares = total,
               ![u].rewardDebt = Gross(AccAfter, total) - EarnedBy(position, AccAfter)]
        /\ UNCHANGED <<tokenVars, rescued>>

\* The position after n shares have left it.
Reduced(position, n) ==
    LET rest   == position.rsShares - n
        earned == EarnedBy(position, AccAfter)
    IN  [position EXCEPT !.rsShares = rest,
                         !.rewardDebt = IF rest > 0 /\ Gross(AccAfter, rest) > earned
                                        THEN Gross(AccAfter, rest) - earned ELSE 0]

\* Mutant of Sufficient: looks at the position before the removal.
SufficientBefore(position, n) ==
    EarnedBy(position, AccAfter) >= (position.debt * BP_SCALE) \div LTV_BP

Sufficient(position, n) ==
    \/ position.debt = 0
    \/ EarnedBy(Reduced(position, n), AccAfter) >= (position.debt * BP_SCALE) \div LTV_BP

\* removeCollateral
RemoveCollateral(u, n) ==
    LET position == positions[u]
    IN  /\ ~paused
        /\ Booked(u, n)
        /\ position.rsShares >= n
        /\ Sufficient(position, n)
        /\ HarvestAndSend(EscrowAddr, u, n)
        /\ usdc' = LedgerAfter
        /\ rsHeld' = rsHeld - n
        /\ positions' = [positions EXCEPT ![u] = Reduced(position, n)]
        /\ UNCHANGED <<tokenVars, rescued>>

MintMore(u, m) ==
    /\ ~paused
    /\ m > 0
    /\ positions[u].rsShares > 0
    /\ HarvestOnly
    /\ usdc' = LedgerAfter
    /\ MintDebt(u, positions[u], m)
    /\ UNCHANGED <<rsHeld, feeRecipient, paused, historyVars>>

Repay(u, m) ==
    /\ m \in 1 .. positions[u].debt
    /\ stable[u] >= m
    /\ stable' = [stable EXCEPT ![u] = @ - m]
    /\ positions' = [positions EXCEPT ![u].debt = @ - m]
    /\ UNCHANGED <<shareVars, harvestVars, feeRecipient, paused, historyVars>>

\* close, without a harvest: what the position has earned stays behind.
Close(u) ==
    LET position == positions[u]
    IN  /\ position.rsShares > 0
        /\ stable[u] >= position.debt
        /\ stable' = [stable EXCEPT ![u] = @ - position.debt]
        /\ rsHeld' = rsHeld - position.rsShares
        /\ positions' = [positions EXCEPT ![u] = NoPosition]
        /\ SendUnharvested(EscrowAddr, u, position.rsShares)
        /\ UNCHANGED <<feeRecipient, paused, historyVars>>

\* What a liquidator is paid: the debt and a bonus, as far as there are earnings.
Seized(earned, debt) ==
    LET due == debt + (debt * LIQ_BONUS_BP) \div BP_SCALE
    IN  IF due < earned THEN due ELSE earned

\* liquidate(user): the shares go back to their owner, who also may be the caller.
Liquidate(liquidator, u) ==
    LET position == positions[u]
        earned   == EarnedBy(position, AccAfter)
        payment  == Seized(earned, position.debt)
    IN  /\ ~paused
        /\ position.debt > 0
        /\ position.debt > (earned * LIQ_THRESHOLD_BP) \div BP_SCALE
        /\ stable[liquidator] >= position.debt
        /\ CanMove(LedgerAfter, EscrowAddr, liquidator, payment)
        /\ usdc' = Moved(LedgerAfter, EscrowAddr, liquidator, payment)
        /\ stable' = [stable EXCEPT ![liquidator] = @ - position.debt]
        /\ rsHeld' = rsHeld - position.rsShares
        /\ positions' = [positions EXCEPT ![u] = NoPosition]
        /\ HarvestAndSend(EscrowAddr, u, position.rsShares)
        /\ UNCHANGED <<feeRecipient, paused, historyVars>>

-----------------------------------------------------------------------------
\* transfer of APIUSD
TradeStable(from, to, m) ==
    /\ stable[from] >= m
    /\ stable' = Moved(stable, from, to, m)
    /\ UNCHANGED <<shareVars, harvestVars, positions, feeRecipient, paused, historyVars>>

SetPaused(p) ==
    /\ paused # p
    /\ paused' = p
    /\ UNCHANGED <<shareVars, harvestVars, positions, stable, feeRecipient, historyVars>>

SetFeeRecipient(a) ==
    /\ feeRecipient' = a
    /\ UNCHANGED <<shareVars, harvestVars, positions, stable, paused, historyVars>>

\* rescueERC20 refuses RS and APIUSD, but not USDC.
RescueUSDC(to, amount) ==
    /\ CanMove(usdc, EscrowAddr, to, amount)
    /\ usdc' = Moved(usdc, EscrowAddr, to, amount)
    /\ rescued' = rescued + amount
    /\ UNCHANGED <<now, ownershipVars, accountVars, accumulatorVars, harvestVars>>
    /\ UNCHANGED <<positions, tokenVars, bookings>>

CdpNext ==
    \/ \E u \in Borrowers :
          \/ \E n \in Deposits, m \in StableAmounts \cup {0} : Open(u, n, m)
          \/ \E n \in Deposits : AddCollateral(u, n) \/ RemoveCollateral(u, n)
          \/ \E m \in StableAmounts : MintMore(u, m) \/ Repay(u, m)
          \/ Close(u)
          \/ \E liquidator \in Borrowers : Liquidate(liquidator, u)
    \/ \E from, to \in Borrowers \cup FeeRecipients, m \in StableAmounts : TradeStable(from, to, m)
    \/ \E p \in BOOLEAN : SetPaused(p)
    \/ \E a \in FeeRecipients : SetFeeRecipient(a)
    \/ \E to \in FeeRecipients, amount \in Payments : RescueUSDC(to, amount)

-----------------------------------------------------------------------------
(***************************************************************************)
(* What a position counts as collateral is there: every position can be    *)
(* evaluated, without the subtraction of rewardDebt underflowing, and all  *)
(* together have earned no more than the contract holds, but for less than *)
(* a coin that each deposit or removal may round in favour of its position *)
(* and for what the admin took.                                            *)
(***************************************************************************)
EarningsBacked ==
    /\ \A u \in Borrowers : EarnedBy(positions[u], accUsdcPerRawShare) >= 0
    /\ Total([u \in Borrowers |-> EarnedBy(positions[u], accUsdcPerRawShare)])
           <= usdc[EscrowAddr] + rescued + bookings

(***************************************************************************)
(* No sequence of minting, repaying and moving shares leaves a debt beyond *)
(* the ratio, by more than the rounding of the last coin: since earnings   *)
(* never fall, only a position of a few coins can ever be liquidated.      *)
(***************************************************************************)
DebtWithinLTV ==
    \A u \in Borrowers :
        positions[u].debt > 0 => positions[u].debt * BP_SCALE < (CollateralValue(u) + 1) * LTV_BP
=============================================================================
