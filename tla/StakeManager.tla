---------------------------- MODULE StakeManager ----------------------------
(***************************************************************************)
(* StakeManager.sol: providers bond USDC, ask to unstake, withdraw after a *)
(* cooldown, and lose part of the bond when the holder of SLASHER_ROLE     *)
(* (the ChallengeManager) slashes them.                                    *)
(*                                                                         *)
(* Amounts are natural numbers and every action's guard is the conjunction *)
(* of the require's that would revert it, checked subtraction included.    *)
(* Overflow of uint256 is out of reach of any USDC amount.                 *)
(***************************************************************************)
EXTENDS USDC

CONSTANTS
    Accounts,           \* every address that can hold USDC
    Users,              \* addresses that call the contracts
    StakeManagerAddr,   \* the contract's own account
    Treasuries,         \* values the admin may give `treasury'
    BP_SCALE,           \* 10000 in the code
    InitialUSDC,        \* what every user holds at the start
    Amounts,            \* amounts passed to the calls below
    Cooldowns,          \* values of withdrawCooldown
    ProtocolSlashBps,   \* values of protocolSlashBp, unchecked by the caller
    SlashBps,           \* values of slashBp the slasher passes
    MinimumStakes,      \* values of registry.minimumStakeRequired()
    MaxTime             \* bound on block.timestamp

ASSUME AccountsAssumption ==
    /\ IsFiniteSet(Users)
    /\ Users \subseteq Accounts
    /\ StakeManagerAddr \in Accounts \ Users
    /\ NoAddress \notin Accounts
    /\ Treasuries \subseteq Accounts \cup {NoAddress}
    /\ Treasuries \ {NoAddress} # {}

ASSUME ParametersAssumption ==
    /\ BP_SCALE \in Nat \ {0}
    /\ InitialUSDC \in Nat
    /\ MaxTime \in Nat
    /\ Amounts \subseteq Nat
    /\ Cooldowns \subseteq Nat
    /\ ProtocolSlashBps \subseteq Nat
    /\ SlashBps \subseteq Nat
    /\ MinimumStakes \subseteq Nat

VARIABLES
    usdc,                   \* the USDC ledger
    now,                    \* block.timestamp
    stakes,                 \* user -> [amount, unlockTimestamp]
    withdrawCooldown,
    protocolSlashBp,
    treasury,
    minimumStakeRequired    \* APIIntegrityRegistry's, read by withdraw

stakeParams == <<withdrawCooldown, protocolSlashBp, treasury, minimumStakeRequired>>
stakeVars == <<usdc, now, stakes, stakeParams>>

NoStake == [amount |-> 0, unlockTimestamp |-> 0]

Bonded == [u \in Users |-> stakes[u].amount]

-----------------------------------------------------------------------------
StakeInit ==
    /\ usdc = [a \in Accounts |-> IF a \in Users THEN InitialUSDC ELSE 0]
    /\ now = 1
    /\ stakes = [u \in Users |-> NoStake]
    /\ withdrawCooldown \in Cooldowns
    /\ protocolSlashBp \in {bp \in ProtocolSlashBps : bp <= BP_SCALE}
    /\ treasury \in Treasuries \ {NoAddress}
    /\ minimumStakeRequired \in MinimumStakes

(***************************************************************************)
(* stake(amount).  Topping up a bond clears unlockTimestamp.               *)
(***************************************************************************)
Stake(u, amount) ==
    /\ amount > 0
    /\ CanMove(usdc, u, StakeManagerAddr, amount)
    /\ usdc' = Moved(usdc, u, StakeManagerAddr, amount)
    /\ stakes' = [stakes EXCEPT ![u] = [amount |-> @.amount + amount,
                                        unlockTimestamp |-> 0]]
    /\ UNCHANGED <<now, stakeParams>>

(***************************************************************************)
(* requestUnstake(amount).  The amount is only compared with the bond; no  *)
(* part of the bond is set aside.                                          *)
(***************************************************************************)
RequestUnstake(u, amount) ==
    /\ stakes[u].amount >= amount
    /\ stakes' = [stakes EXCEPT ![u].unlockTimestamp = now + withdrawCooldown]
    /\ UNCHANGED <<usdc, now, stakeParams>>

(***************************************************************************)
(* withdraw(amount).  unlockTimestamp is 0 unless requestUnstake was       *)
(* called since the last stake, so the first conjunct then holds at once.  *)
(***************************************************************************)
Withdraw(u, amount) ==
    /\ now >= stakes[u].unlockTimestamp
    /\ stakes[u].amount >= amount
    /\ LET left == stakes[u].amount - amount
       IN  left = 0 \/ left >= minimumStakeRequired
    /\ CanMove(usdc, StakeManagerAddr, u, amount)
    /\ usdc' = Moved(usdc, StakeManagerAddr, u, amount)
    /\ stakes' = [stakes EXCEPT ![u].amount = @ - amount]
    /\ UNCHANGED <<now, stakeParams>>

-----------------------------------------------------------------------------
(***************************************************************************)
(* slash(provider, slashBp, challenger), in parts because onReport of the  *)
(* ChallengeManager runs it inside a larger transaction.                   *)
(***************************************************************************)
BpOf(amount, bp) == (amount * bp) \div BP_SCALE

SlashAmount(p, bp) ==
    LET cut == BpOf(stakes[p].amount, bp)
    IN  IF cut > stakes[p].amount THEN stakes[p].amount ELSE cut

ProtocolCut(p, bp) == BpOf(SlashAmount(p, bp), protocolSlashBp)

\* The transfers: none is attempted for a zero share.
SlashCanPay(p, bp) ==
    /\ usdc[StakeManagerAddr] >= SlashAmount(p, bp)
    /\ ProtocolCut(p, bp) > 0 => treasury # NoAddress

SlashPaid(p, bp, challenger) ==
    LET cut    == ProtocolCut(p, bp)
        reward == SlashAmount(p, bp) - cut
        paid   == IF cut > 0 THEN Moved(usdc, StakeManagerAddr, treasury, cut) ELSE usdc
    IN  Moved(paid, StakeManagerAddr, challenger, reward)

SlashEnabled(p, bp) ==
    /\ bp > 0 /\ bp <= BP_SCALE
    /\ stakes[p].amount > 0
    /\ SlashCanPay(p, bp)

\* Mutant of StakesAfterSlash: the protocol's cut is not deducted.
StakesAfterReward(p, bp) ==
    [stakes EXCEPT ![p].amount = @ - (SlashAmount(p, bp) - ProtocolCut(p, bp))]

StakesAfterSlash(p, bp) ==
    [stakes EXCEPT ![p].amount = @ - SlashAmount(p, bp)]

Slash(p, bp, challenger) ==
    /\ SlashEnabled(p, bp)
    /\ usdc' = SlashPaid(p, bp, challenger)
    /\ stakes' = StakesAfterSlash(p, bp)
    /\ UNCHANGED <<now, stakeParams>>

-----------------------------------------------------------------------------
\* Admin setters.  setTreasury and setWithdrawCooldown take any value.
SetTreasury(t) ==
    /\ treasury' = t
    /\ UNCHANGED <<usdc, now, stakes, withdrawCooldown, protocolSlashBp, minimumStakeRequired>>

SetProtocolSlashBp(bp) ==
    /\ bp <= BP_SCALE
    /\ protocolSlashBp' = bp
    /\ UNCHANGED <<usdc, now, stakes, withdrawCooldown, treasury, minimumStakeRequired>>

SetWithdrawCooldown(cooldown) ==
    /\ withdrawCooldown' = cooldown
    /\ UNCHANGED <<usdc, now, stakes, protocolSlashBp, treasury, minimumStakeRequired>>

\* The registry's admin changes the minimum that withdraw reads.
SetMinimumStakeRequired(m) ==
    /\ minimumStakeRequired' = m
    /\ UNCHANGED <<usdc, now, stakes, withdrawCooldown, protocolSlashBp, treasury>>

\* A block later.
Tick ==
    /\ now < MaxTime
    /\ now' = now + 1
    /\ UNCHANGED <<usdc, stakes, stakeParams>>

\* Anyone may send USDC to the contract without calling it.
PlainTransfer(u, amount) ==
    /\ CanMove(usdc, u, StakeManagerAddr, amount)
    /\ usdc' = Moved(usdc, u, StakeManagerAddr, amount)
    /\ UNCHANGED <<now, stakes, stakeParams>>

UserStakeStep ==
    \E u \in Users, amount \in Amounts :
        Stake(u, amount) \/ RequestUnstake(u, amount) \/ Withdraw(u, amount)

StakeAdminStep ==
    \/ \E t \in Treasuries : SetTreasury(t)
    \/ \E bp \in ProtocolSlashBps : SetProtocolSlashBp(bp)
    \/ \E c \in Cooldowns : SetWithdrawCooldown(c)
    \/ \E m \in MinimumStakes : SetMinimumStakeRequired(m)

StakeNext ==
    \/ UserStakeStep
    \/ StakeAdminStep
    \/ \E p \in Users, bp \in SlashBps, c \in Users : Slash(p, bp, c)
    \/ \E u \in Users, amount \in Amounts : PlainTransfer(u, amount)
    \/ Tick

StakeSpec == StakeInit /\ [][StakeNext]_stakeVars

-----------------------------------------------------------------------------
(***************************************************************************)
(* Type invariant of the StakeManager's storage and of the ledger.         *)
(***************************************************************************)
StakeTypeOK ==
    /\ usdc \in [Accounts -> Nat]
    /\ now \in Nat
    /\ stakes \in [Users -> [amount : Nat, unlockTimestamp : Nat]]
    /\ withdrawCooldown \in Nat
    /\ protocolSlashBp \in 0 .. BP_SCALE
    /\ treasury \in Accounts \cup {NoAddress}
    /\ minimumStakeRequired \in Nat

(***************************************************************************)
(* Every bond can be paid out: whatever sequence of stakes, withdrawals    *)
(* and slashes led here, with their two floor divisions, the contract      *)
(* holds at least the sum of all recorded bonds.                           *)
(***************************************************************************)
BondsBacked == usdc[StakeManagerAddr] >= Total(Bonded)
=============================================================================
