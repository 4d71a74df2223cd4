------------------------- MODULE WrappedRevenueShare ------------------------
(***************************************************************************)
(* WrappedRevenueShare.sol: a vault that mints one wRS per RS deposited,   *)
(* collects the dividends of the RS it holds, and hands out both in        *)
(* proportion to wRS redeemed.  Its settings may be changed by anyone.     *)
(***************************************************************************)
EXTENDS ProviderRevenueShare

CONSTANTS
    WrapperAddr,
    Wrappers,               \* who deposits, trades and redeems
    WrapAmounts,            \* amounts deposited, transferred and redeemed
    BPS_SCALE,
    MaxWithdrawFee,         \* 1000 in the code
    WithdrawFees,           \* values passed to setWithdrawFee
    WrapperTreasuries

ASSUME WrapperAssumption ==
    /\ WrapperAddr \in Holders \ (Claimants \cup Payers \cup {RevenueShareAddr})
    /\ Wrappers \subseteq (Accounts \cap Holders) \ {RevenueShareAddr, WrapperAddr}
    /\ WrapAmounts \subseteq Nat
    /\ BPS_SCALE \in Nat \ {0}
    /\ MaxWithdrawFee \in 0 .. BPS_SCALE
    /\ WithdrawFees \subseteq Nat
    /\ WrapperTreasuries \subseteq Accounts

VARIABLES
    wrapped,                \* balanceOf of wRS
    totalHarvested,
    withdrawFeeBps,
    wrapperTreasury

wrapperVars == <<wrapped, totalHarvested, withdrawFeeBps, wrapperTreasury>>
feeVars == <<withdrawFeeBps, wrapperTreasury>>

WrapperInit ==
    /\ wrapped = [w \in Wrappers |-> 0]
    /\ totalHarvested = 0
    /\ withdrawFeeBps = 0
    /\ wrapperTreasury \in WrapperTreasuries

WrapSupply == Total(wrapped)

-----------------------------------------------------------------------------
\* Mutant of Minted: what the vault holds after the transfer.
MintedByBalance(n) == shares[WrapperAddr] + n

\* wRS for n RS, whatever USDC the vault holds.
Minted(n) == n

\* deposit
Deposit(u, n) ==
    /\ n > 0
    /\ MoveShares(u, WrapperAddr, n)
    /\ wrapped' = [wrapped EXCEPT ![u] = @ + Minted(n)]
    /\ UNCHANGED <<usdc, now, totalSupply, genesisComplete, totalClaimed, accumulatorVars>>
    /\ UNCHANGED <<totalHarvested, feeVars>>

RSOut(n) == (n * shares[WrapperAddr]) \div WrapSupply

\* Mutant of USDCOut: rounded up.
USDCOutUp(ledger, n) == (n * ledger[WrapperAddr] + WrapSupply - 1) \div WrapSupply

\* Before the fee; the ledger is the one after a harvest, if there is one.
USDCOut(ledger, n) == (n * ledger[WrapperAddr]) \div WrapSupply

Fee(ledger, n) == (USDCOut(ledger, n) * withdrawFeeBps) \div BPS_SCALE

Redeemed(ledger, u, n) ==
    Moved(Moved(ledger, WrapperAddr, wrapperTreasury, Fee(ledger, n)),
          WrapperAddr, u, USDCOut(ledger, n) - Fee(ledger, n))

\* Common to redeem and harvestAndRedeem.
Burn(ledger, u, n) ==
    /\ n > 0
    /\ wrapped[u] >= n
    /\ RSOut(n) > 0 \/ USDCOut(ledger, n) > 0
    /\ wrapped' = [wrapped EXCEPT ![u] = @ - n]
    /\ usdc' = Redeemed(ledger, u, n)

\* redeem; shares[WrapperAddr] >= WrapSupply, so that RSOut is never 0.
Redeem(u, n) ==
    /\ Burn(usdc, u, n)
    /\ MoveShares(WrapperAddr, u, RSOut(n))
    /\ UNCHANGED <<now, totalSupply, genesisComplete, totalClaimed, accumulatorVars>>
    /\ UNCHANGED <<totalHarvested, feeVars>>

\* The dividends that a harvest collects: none as long as claimable is 0,
\* even if a _distribute would raise it.
Dividends ==
    IF Claimable[WrapperAddr] = 0 THEN 0
    ELSE ClaimableAt(WrapperAddr, RevenuePerShareNow(usdc))

\* harvest, open to anyone.
Harvest ==
    /\ Dividends > 0
    /\ Claim(WrapperAddr, WrapperAddr)
    /\ totalHarvested' = totalHarvested + Dividends
    /\ UNCHANGED <<wrapped, feeVars>>

(***************************************************************************)
(* harvestAndRedeem with something to harvest (else it is redeem): claim,  *)
(* then redeem with the coins claimed, the redeemer settled at the         *)
(* accumulator the claim has just raised.                                  *)
(***************************************************************************)
HarvestAndRedeem(u, n) ==
    LET rps    == RevenuePerShareNow(usdc)
        ledger == Moved(usdc, RevenueShareAddr, WrapperAddr, Dividends)
    IN  /\ Dividends > 0
        /\ totalClaimed + Dividends <= MaxClaimed
        /\ CanMove(usdc, RevenueShareAddr, WrapperAddr, Dividends)
        /\ InternalDistribute(usdc)
        /\ Burn(ledger, u, n)
        /\ shares' = Moved(shares, WrapperAddr, u, RSOut(n))
        /\ pendingClaims' = [pendingClaims EXCEPT ![WrapperAddr] = 0, ![u] = @ + Accrued(u, rps)]
        /\ checkpoint' = [checkpoint EXCEPT ![WrapperAddr] = rps, ![u] = rps]
        /\ totalClaimed' = totalClaimed + Dividends
        /\ totalHarvested' = totalHarvested + Dividends
        /\ UNCHANGED <<now, totalSupply, genesisComplete, feeVars>>

\* transfer of wRS
TradeWrapped(from, to, n) ==
    /\ wrapped[from] >= n
    /\ wrapped' = Moved(wrapped, from, to, n)
    /\ UNCHANGED <<shareVars, totalHarvested, feeVars>>

\* setTreasury, setWithdrawFee: no caller is refused.
SetTreasury(t) ==
    /\ wrapperTreasury' = t
    /\ UNCHANGED <<shareVars, wrapped, totalHarvested, withdrawFeeBps>>

SetWithdrawFee(bps) ==
    /\ bps <= MaxWithdrawFee
    /\ withdrawFeeBps' = bps
    /\ UNCHANGED <<shareVars, wrapped, totalHarvested, wrapperTreasury>>

WrapperNext ==
    \/ \E u \in Wrappers, n \in WrapAmounts :
          Deposit(u, n) \/ Redeem(u, n) \/ HarvestAndRedeem(u, n)
    \/ \E from, to \in Wrappers, n \in WrapAmounts : TradeWrapped(from, to, n)
    \/ Harvest
    \/ \E t \in WrapperTreasuries : SetTreasury(t)
    \/ \E bps \in WithdrawFees : SetWithdrawFee(bps)

-----------------------------------------------------------------------------
(***************************************************************************)
(* "1 wRS = 1 RS": however deposits, redemptions and their rounding led    *)
(* there, the vault never holds fewer RS than there are wRS, so that no    *)
(* last holder leaves with less than was deposited.                        *)
(***************************************************************************)
WrapperBacked == shares[WrapperAddr] >= WrapSupply

(***************************************************************************)
(* Nothing but a deposit takes dividends from those who stay in the vault: *)
(* whoever redeems, with a harvest or without, at whatever fee, the coins  *)
(* and the RS behind each remaining wRS do not fall.                       *)
(***************************************************************************)
OnlyDepositsDilute ==
    [][ WrapSupply' \in 1 .. WrapSupply =>
            /\ usdc'[WrapperAddr] * WrapSupply >= usdc[WrapperAddr] * WrapSupply'
            /\ shares'[WrapperAddr] * WrapSupply >= shares[WrapperAddr] * WrapSupply'
      ]_<<shareVars, wrapperVars>>
=============================================================================
