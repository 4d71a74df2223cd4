----------------------- MODULE ProviderRevenueSplitter ----------------------
(***************************************************************************)
(* ProviderRevenueSplitter.sol over a ProviderRevenueShare: x402 payments  *)
(* collect in the splitter, anyone has its balance split between the       *)
(* protocol treasury, the provider treasury and the revenue share, and the *)
(* revenue share is then told to distribute.  That last call may fail      *)
(* (before genesis, or when the caller's gas runs out in it): the splitter *)
(* catches the failure, the coins having moved already.                    *)
(***************************************************************************)
EXTENDS ProviderRevenueShare

CONSTANTS
    SplitterAddr,
    BP_SCALE,
    ProtocolTreasuryBp,
    ProviderTreasuryBp,
    RevenueShareBp,
    ProtocolTreasuries,     \* values of protocolTreasury
    ProviderTreasuries,     \* values of providerTreasury, NoAddress for none
    ProviderAdmins          \* values of providerAdmin

\* The constructor's require's.
ASSUME SplitterAssumption ==
    /\ SplitterAddr \in Accounts \ (Payers \cup {RevenueShareAddr})
    /\ BP_SCALE \in Nat \ {0}
    /\ {ProtocolTreasuryBp, ProviderTreasuryBp, RevenueShareBp} \subseteq Nat
    /\ ProtocolTreasuryBp + ProviderTreasuryBp + RevenueShareBp = BP_SCALE
    /\ ProtocolTreasuries \subseteq Accounts
    /\ ProviderTreasuries \subseteq Accounts \cup {NoAddress}
    /\ ProviderTreasuryBp > 0 => NoAddress \notin ProviderTreasuries
    /\ RevenueShareBp > 0 => RevenueShareAddr # NoAddress

VARIABLES
    protocolTreasury,
    providerTreasury,
    providerAdmin,
    protocolEarned,     \* history: all that went to protocol treasuries
    splits,             \* history: number of distributions
    splitTotal          \* history: coins split so far

treasuryVars == <<protocolTreasury, providerTreasury, providerAdmin>>
historyVars == <<protocolEarned, splits, splitTotal>>
splitterVars == <<shareVars, treasuryVars, historyVars>>

SplitterInit ==
    /\ ShareInit
    /\ protocolTreasury \in ProtocolTreasuries
    /\ providerTreasury \in ProviderTreasuries
    /\ providerAdmin \in ProviderAdmins
    /\ protocolEarned = 0
    /\ splits = 0
    /\ splitTotal = 0

-----------------------------------------------------------------------------
\* An x402 payment: USDC sent to the splitter's address.
PayForCall(payer, amount) ==
    /\ amount > 0
    /\ CanMove(usdc, payer, SplitterAddr, amount)
    /\ usdc' = Moved(usdc, payer, SplitterAddr, amount)
    /\ UNCHANGED <<now, ownershipVars, accountVars, accumulatorVars, treasuryVars, historyVars>>

Cut(bp) == (usdc[SplitterAddr] * bp) \div BP_SCALE

\* Mutant of ProtocolAmount: the protocol gets what the divisions leave over.
ProtocolRemainder ==
    usdc[SplitterAddr] - Cut(ProviderTreasuryBp) - Cut(RevenueShareBp)

ProtocolAmount == Cut(ProtocolTreasuryBp)
ProviderAmount == Cut(ProviderTreasuryBp)
RevenueShareAmount == usdc[SplitterAddr] - ProtocolAmount - ProviderAmount

\* The transfers of distribute(); a zero share is not transferred.
Sent(ledger, to, amount) ==
    IF amount > 0 THEN Moved(ledger, SplitterAddr, to, amount) ELSE ledger

AfterSplit ==
    LET protocolPaid == Sent(usdc, protocolTreasury, ProtocolAmount)
        providerPaid == Sent(protocolPaid, providerTreasury, ProviderAmount)
    IN  Sent(providerPaid, RevenueShareAddr, RevenueShareAmount)

\* No transfer of a non-zero share goes to address(0).
SplitAccepted ==
    /\ ProviderAmount > 0 => providerTreasury # NoAddress
    /\ RevenueShareAmount > 0 => RevenueShareAddr # NoAddress

(***************************************************************************)
(* try revenueShare.distribute() {} catch: it may fail for lack of gas     *)
(* whatever the state, and must fail when there is nothing to credit.      *)
(***************************************************************************)
NotifyRevenueShare(ledger) ==
    \/ Credits(ledger) /\ InternalDistribute(ledger)
    \/ UNCHANGED accumulatorVars

\* distribute(), open to anyone.
SplitterDistribute ==
    /\ usdc[SplitterAddr] > 0
    /\ SplitAccepted
    /\ usdc' = AfterSplit
    /\ IF RevenueShareAmount > 0 THEN NotifyRevenueShare(AfterSplit)
       ELSE UNCHANGED accumulatorVars
    /\ protocolEarned' = protocolEarned + ProtocolAmount
    /\ splits' = splits + 1
    /\ splitTotal' = splitTotal + usdc[SplitterAddr]
    /\ UNCHANGED <<now, ownershipVars, accountVars, treasuryVars>>

\* protocolAdmin is immutable and sends any address but address(0).
SetProtocolTreasury(t) ==
    /\ protocolTreasury' = t
    /\ UNCHANGED <<shareVars, providerTreasury, providerAdmin, historyVars>>

SetProviderTreasury(sender, t) ==
    /\ sender = providerAdmin
    /\ t # NoAddress \/ ProviderTreasuryBp = 0
    /\ providerTreasury' = t
    /\ UNCHANGED <<shareVars, protocolTreasury, providerAdmin, historyVars>>

TransferProviderAdmin(sender, newAdmin) ==
    /\ sender = providerAdmin
    /\ providerAdmin' = newAdmin
    /\ UNCHANGED <<shareVars, protocolTreasury, providerTreasury, historyVars>>

TreasuryStep ==
    \/ \E t \in ProtocolTreasuries : SetProtocolTreasury(t)
    \/ \E s \in ProviderAdmins, t \in ProviderTreasuries : SetProviderTreasury(s, t)
    \/ \E s, a \in ProviderAdmins : TransferProviderAdmin(s, a)

\* The factory mints the genesis shares before it deploys the splitter; a
\* splitter deployed by itself may do without a revenue share.
Deployed == RevenueShareAddr # NoAddress => genesisComplete

SplitterNext ==
    \/ RevenueShareAddr # NoAddress /\ ShareNext /\ UNCHANGED <<treasuryVars, historyVars>>
    \/ Deployed /\ \E p \in Payers, amount \in Payments : PayForCall(p, amount)
    \/ Deployed /\ SplitterDistribute
    \/ Deployed /\ TreasuryStep

SplitterSpec == SplitterInit /\ [][SplitterNext]_splitterVars

\* Someone keeps calling: both distribute() functions are open to anyone
\* and scripts/revenue_splitter_trigger.py calls the splitter's regularly.
SplitterFairness ==
    /\ WF_splitterVars(Deployed /\ SplitterDistribute)
    /\ WF_splitterVars(Distribute /\ UNCHANGED <<treasuryVars, historyVars>>)

FairSplitterSpec == SplitterSpec /\ SplitterFairness

-----------------------------------------------------------------------------
(***************************************************************************)
(* Over any number of distributions, of whatever size and through any      *)
(* treasury rotation, the protocol never earns more than its basis points  *)
(* of all revenue, and loses less than one coin per distribution.          *)
(***************************************************************************)
ProtocolShareBounded ==
    /\ protocolEarned * BP_SCALE <= ProtocolTreasuryBp * splitTotal
    /\ (protocolEarned + splits) * BP_SCALE >= ProtocolTreasuryBp * splitTotal

(***************************************************************************)
(* ProviderRevenueShare.sol:183: "revenue can never get stuck": revenue    *)
(* waiting in the splitter leaves it, and revenue the share was not told   *)
(* about is credited in the end, also when the notification failed.        *)
(***************************************************************************)
RevenueReachesHolders ==
    /\ (Deployed /\ usdc[SplitterAddr] > 0) ~> usdc[SplitterAddr] = 0
    /\ (genesisComplete /\ Undistributed(usdc) > 0) ~> Undistributed(usdc) = 0
=============================================================================
