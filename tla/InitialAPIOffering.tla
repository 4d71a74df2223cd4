-------------------------- MODULE InitialAPIOffering ------------------------
(***************************************************************************)
(* InitialAPIOffering.sol: backers pay USDC for offering tokens; once the  *)
(* goal is met and the provider has deposited the allocated RS tokens, the *)
(* USDC goes to the provider and the tokens are exchanged for RS; past the *)
(* deadline without the goal, they are exchanged for the USDC back.        *)
(***************************************************************************)
EXTENDS ProviderRevenueShare

CONSTANTS
    OfferingAddr,
    Backers,                \* who buys, trades and redeems offering tokens
    Provider,
    FundingGoal,
    Deadline,
    TokenPrice,
    RSAllocated,
    Contributions,          \* amounts of USDC contributed at once
    TokenAmounts            \* amounts of offering tokens transferred or exchanged

\* The constructor's require's.
ASSUME OfferingAssumption ==
    /\ OfferingAddr \in Holders \ (Claimants \cup Payers \cup {RevenueShareAddr})
    /\ Backers \subseteq (Accounts \cap Holders) \ {RevenueShareAddr, OfferingAddr}
    /\ Provider \in Accounts
    /\ {FundingGoal, TokenPrice, RSAllocated} \subseteq Nat \ {0}
    /\ Deadline \in Nat /\ Deadline > 1
    /\ FundingGoal % TokenPrice = 0
    /\ Contributions \subseteq Nat
    /\ TokenAmounts \subseteq Nat

VARIABLES
    phase,
    totalRaised,
    tokens                  \* balanceOf of the offering token

offeringVars == <<phase, totalRaised, tokens>>

MaxSupply == FundingGoal \div TokenPrice

OfferingInit ==
    /\ phase = "Fundraising"
    /\ totalRaised = 0
    /\ tokens = [b \in Backers |-> 0]

-----------------------------------------------------------------------------
\* contribute
Contribute(b, amount) ==
    /\ phase = "Fundraising"
    /\ now <= Deadline
    /\ amount > 0
    /\ amount % TokenPrice = 0
    /\ Total(tokens) + amount \div TokenPrice <= MaxSupply
    /\ CanMove(usdc, b, OfferingAddr, amount)
    /\ usdc' = Moved(usdc, b, OfferingAddr, amount)
    /\ totalRaised' = totalRaised + amount
    /\ tokens' = [tokens EXCEPT ![b] = @ + amount \div TokenPrice]
    /\ UNCHANGED <<phase, now, ownershipVars, accountVars, accumulatorVars>>

\* finalize, open to anyone, also before the deadline.
Finalize ==
    /\ phase = "Fundraising"
    /\ totalRaised >= FundingGoal
    /\ shares[OfferingAddr] >= RSAllocated
    /\ phase' = "Active"
    /\ usdc' = Moved(usdc, OfferingAddr, Provider, usdc[OfferingAddr])
    /\ UNCHANGED <<totalRaised, tokens, now, ownershipVars, accountVars, accumulatorVars>>

\* Mutant of Cancel: one coin short of the goal is good enough.
CancelNearGoal ==
    /\ phase = "Fundraising"
    /\ now > Deadline
    /\ totalRaised + 1 < FundingGoal
    /\ phase' = "Cancelled"
    /\ UNCHANGED <<totalRaised, tokens, shareVars>>

\* cancel, open to anyone.
Cancel ==
    /\ phase = "Fundraising"
    /\ now > Deadline
    /\ totalRaised < FundingGoal
    /\ phase' = "Cancelled"
    /\ UNCHANGED <<totalRaised, tokens, shareVars>>

\* refund: everything at once.
Refund(b) ==
    /\ phase = "Cancelled"
    /\ tokens[b] > 0
    /\ CanMove(usdc, OfferingAddr, b, tokens[b] * TokenPrice)
    /\ usdc' = Moved(usdc, OfferingAddr, b, tokens[b] * TokenPrice)
    /\ tokens' = [tokens EXCEPT ![b] = 0]
    /\ UNCHANGED <<phase, totalRaised, now, ownershipVars, accountVars, accumulatorVars>>

\* Mutant of RSFor: rounded up.
RSForUp(n) == (n * RSAllocated + MaxSupply - 1) \div MaxSupply

\* RS tokens for n offering tokens.
RSFor(n) == (n * RSAllocated) \div MaxSupply

\* claimRS; what the offering earned meanwhile on the RS it sends stays its own.
ClaimRS(b, n) ==
    /\ phase = "Active"
    /\ n > 0
    /\ tokens[b] >= n
    /\ RSFor(n) > 0
    /\ tokens' = [tokens EXCEPT ![b] = @ - n]
    /\ MoveShares(OfferingAddr, b, RSFor(n))
    /\ UNCHANGED <<phase, totalRaised, usdc, now, totalSupply, genesisComplete, totalClaimed,
                   accumulatorVars>>

\* transfer of offering tokens: whoever holds them at the end is paid.
TradeTokens(from, to, n) ==
    /\ tokens[from] >= n
    /\ tokens' = Moved(tokens, from, to, n)
    /\ UNCHANGED <<phase, totalRaised, shareVars>>

BackerStep ==
    \/ \E b \in Backers, amount \in Contributions : Contribute(b, amount)
    \/ \E b \in Backers : Refund(b)
    \/ \E b \in Backers, n \in TokenAmounts : ClaimRS(b, n)
    \/ \E from, to \in Backers, n \in TokenAmounts : TradeTokens(from, to, n)

OfferingNext == BackerStep \/ Finalize \/ Cancel

-----------------------------------------------------------------------------
(***************************************************************************)
(* As long as the offering may be cancelled its coins cover a refund of    *)
(* every token; once it is active its RS cover the exchange of every       *)
(* token, however the exchanges before were split and rounded.             *)
(***************************************************************************)
OfferingCovered ==
    IF phase = "Active"
    THEN shares[OfferingAddr] * MaxSupply >= Total(tokens) * RSAllocated
    ELSE usdc[OfferingAddr] >= Total(tokens) * TokenPrice

\* finalize refuses for want of RS, and cancel because the goal was reached.
GoalWithoutRS ==
    /\ phase = "Fundraising"
    /\ totalRaised >= FundingGoal
    /\ shares[OfferingAddr] < RSAllocated

Holding(b) == now > Deadline /\ tokens[b] > 0

\* Tokens that buy no share: claimRS refuses them as too small.
HoldingDust(b) == phase = "Active" /\ RSFor(tokens[b]) = 0

(***************************************************************************)
(* A backer is not left with its tokens past the deadline: they become RS  *)
(* or USDC again.  Not so while the goal is reached and the provider does  *)
(* not deposit the RS, nor for tokens too few to buy a share.              *)
(***************************************************************************)
BackersSettled ==
    \A b \in Backers : Holding(b) ~> GoalWithoutRS \/ HoldingDust(b) \/ tokens[b] = 0
=============================================================================
