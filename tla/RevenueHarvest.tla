--------------------------- MODULE RevenueHarvest ---------------------------
(***************************************************************************)
(* A contract of Layer 2 that holds shares for others and credits their    *)
(* dividends by an accumulator of its own, as APIRevenueFuture and APIUSD  *)
(* do: it reads claimable, returns when that is 0, credits what it read,   *)
(* and calls claim, which first distributes and so may pay more.           *)
(***************************************************************************)
EXTENDS ProviderRevenueShare

CONSTANTS
    EscrowAddr,             \* the contract
    PRECISION,              \* 1e18 in the code
    BP_SCALE                \* 10_000 in the code

ASSUME HarvestAssumption ==
    /\ EscrowAddr \in Holders \ (Claimants \cup Payers \cup {RevenueShareAddr})
    /\ {PRECISION, BP_SCALE} \subseteq Nat \ {0}

VARIABLES
    rsHeld,                 \* shares held for others; totalRSHeld in APIUSD
    accUsdcPerRawShare

harvestVars == <<rsHeld, accUsdcPerRawShare>>

HarvestInit ==
    /\ rsHeld = 0
    /\ accUsdcPerRawShare = 0

-----------------------------------------------------------------------------
Harvests == Claimable[EscrowAddr] > 0 /\ rsHeld > 0

\* Mutant of AccAfter: rounded up.
AccAfterUp ==
    IF Harvests
    THEN accUsdcPerRawShare + (Claimable[EscrowAddr] * PRECISION + rsHeld - 1) \div rsHeld
    ELSE accUsdcPerRawShare

\* The accumulator after a harvest, credited with what was read.
AccAfter ==
    IF Harvests THEN accUsdcPerRawShare + (Claimable[EscrowAddr] * PRECISION) \div rsHeld
    ELSE accUsdcPerRawShare

\* What the claim pays, and what it leaves of the revenue share.
Collected == IF Harvests THEN ClaimableAt(EscrowAddr, RevenuePerShareNow(usdc)) ELSE 0

RevenuePerShareAfter == IF Harvests THEN RevenuePerShareNow(usdc) ELSE revenuePerShare

LedgerAfter == Moved(usdc, RevenueShareAddr, EscrowAddr, Collected)

(***************************************************************************)
(* A harvest, after which `moved' become the balances of the shares in the *)
(* same transaction, which settles both sides.  The caller says what       *)
(* becomes of the ledger, LedgerAfter or more.                             *)
(***************************************************************************)
HarvestThenMove(moved, sides) ==
    LET paid == IF Harvests THEN {EscrowAddr} ELSE {}
    IN  /\ totalClaimed + Collected <= MaxClaimed
        /\ CanMove(usdc, RevenueShareAddr, EscrowAddr, Collected)
        /\ IF Harvests THEN InternalDistribute(usdc) ELSE UNCHANGED accumulatorVars
        /\ shares' = moved
        /\ pendingClaims' = [h \in Holders |->
               IF h \in paid THEN 0
               ELSE IF h \in sides THEN ClaimableAt(h, RevenuePerShareAfter)
               ELSE pendingClaims[h]]
        /\ checkpoint' = [h \in Holders |->
               IF h \in paid \cup sides THEN RevenuePerShareAfter ELSE checkpoint[h]]
        /\ totalClaimed' = totalClaimed + Collected
        /\ accUsdcPerRawShare' = AccAfter
        /\ UNCHANGED <<now, totalSupply, genesisComplete>>

HarvestOnly == HarvestThenMove(shares, {})

HarvestAndSend(from, to, n) ==
    /\ shares[from] >= n
    /\ HarvestThenMove(Moved(shares, from, to, n), {from, to})

\* Shares move without a harvest.
SendUnharvested(from, to, n) ==
    /\ Transfer(from, to, n)
    /\ UNCHANGED accUsdcPerRawShare
=============================================================================
