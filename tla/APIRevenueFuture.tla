-------------------------- MODULE APIRevenueFuture --------------------------
(***************************************************************************)
(* APIRevenueFuture.sol: notes on the dividends that shares locked with    *)
(* the contract will earn until they expire.  createNote accepts the       *)
(* address of any contract as the revenue share.  The contract keeps an    *)
(* accumulator for each, but one balance of USDC for all of them.  `notes' *)
(* are those on the revenue share, `others' those on contracts that answer *)
(* to claimable, claim and transfer as they please.  The fields that no    *)
(* function reads again, depositEps and createdAt, are left out.           *)
(***************************************************************************)
EXTENDS RevenueHarvest, Sequences

CONSTANTS
    Sellers,                \* who creates notes
    Buyers,                 \* who purchases them
    FaceValues,
    PurchasePrices,
    NoteTerms,              \* seconds from creation to expiry
    Collaterals,            \* shares locked with a note
    MIN_COLLATERAL_BP,
    MIN_TERM,
    MAX_TERM,
    MaxNotes,               \* bound on nextNoteId; notes expire by MaxTime
    OtherEarnings,          \* what a note on another contract may have earned
    OtherClaims,            \* coins another contract may pay when claim is called
    MaxBrought              \* bound on the coins those contracts pay

ASSUME FutureAssumption ==
    /\ Sellers \subseteq Holders \ {EscrowAddr, RevenueShareAddr}
    /\ Buyers \subseteq Accounts \ {EscrowAddr, RevenueShareAddr}
    /\ FaceValues \cup PurchasePrices \cup NoteTerms \cup Collaterals \subseteq Nat
    /\ OtherEarnings \cup OtherClaims \subseteq Nat
    /\ {MIN_COLLATERAL_BP, MIN_TERM, MAX_TERM, MaxNotes, MaxBrought} \subseteq Nat

VARIABLES
    notes,                  \* on the revenue share, in the order of their ids
    others,                 \* on other contracts, likewise
    othersBrought,          \* history: coins the claims on those have brought in
    othersPaid              \* history: coins their settlements have paid out

otherVars == <<others, othersBrought, othersPaid>>

FutureInit ==
    /\ notes = <<>> /\ others = <<>>
    /\ othersBrought = 0 /\ othersPaid = 0

-----------------------------------------------------------------------------
EarnedAt(id, acc) ==
    ((acc - notes[id].accAtDeposit) * notes[id].collateralShares) \div PRECISION

\* noteEarned(id), which counts what a harvest would credit.
NoteEarned(id) == EarnedAt(id, AccAfter)

nextNoteId == Len(notes) + Len(others)

NoteOffered(face, price, term, n) ==
    /\ 0 < price /\ price < face
    /\ term \in MIN_TERM .. MAX_TERM
    /\ n > 0
    /\ n * MIN_COLLATERAL_BP >= face * BP_SCALE
    /\ now + term <= MaxTime

CreateNote(p, face, price, term, n) ==
    /\ NoteOffered(face, price, term, n)
    /\ nextNoteId < MaxNotes
    /\ HarvestAndSend(p, EscrowAddr, n)
    /\ usdc' = LedgerAfter
    /\ notes' = Append(notes,
           [provider |-> p, buyer |-> NoAddress, faceValue |-> face, purchasePrice |-> price,
            collateralShares |-> n, accAtDeposit |-> AccAfter,
            expiry |-> now + term, status |-> "Open"])
    /\ rsHeld' = rsHeld + n

Purchase(b, note) ==
    /\ note.status = "Open"
    /\ now < note.expiry
    /\ b # note.provider
    /\ CanMove(usdc, b, note.provider, note.purchasePrice)
    /\ usdc' = Moved(usdc, b, note.provider, note.purchasePrice)

PurchaseNote(b, id) ==
    /\ Purchase(b, notes[id])
    /\ notes' = [notes EXCEPT ![id].buyer = b, ![id].status = "Active"]
    /\ UNCHANGED <<now, ownershipVars, accountVars, accumulatorVars, harvestVars>>

Expired(note) == note.status = "Active" /\ now >= note.expiry

\* The buyer is paid first; what is left is the provider's.
ToBuyer(note, earned) == IF earned >= note.faceValue THEN note.faceValue ELSE earned

PaidOut(ledger, note, earned) ==
    Moved(Moved(ledger, EscrowAddr, note.buyer, ToBuyer(note, earned)),
          EscrowAddr, note.provider, earned - ToBuyer(note, earned))

Outcome(note, earned) == IF earned >= note.faceValue THEN "Settled" ELSE "Defaulted"

Closed(id, status) ==
    /\ notes' = [notes EXCEPT ![id].collateralShares = 0, ![id].status = status]
    /\ rsHeld' = rsHeld - notes[id].collateralShares

\* settle, open to anyone: whatever was earned, the shares go back.
Settle(id) ==
    /\ Expired(notes[id])
    /\ LedgerAfter[EscrowAddr] >= NoteEarned(id)
    /\ usdc' = PaidOut(LedgerAfter, notes[id], NoteEarned(id))
    /\ HarvestAndSend(EscrowAddr, notes[id].provider, notes[id].collateralShares)
    /\ Closed(id, Outcome(notes[id], NoteEarned(id)))

\* reclaimExpired, which does not harvest.
ReclaimExpired(id) ==
    /\ notes[id].status = "Open"
    /\ now >= notes[id].expiry
    /\ SendUnharvested(EscrowAddr, notes[id].provider, notes[id].collateralShares)
    /\ Closed(id, "Expired")

\* harvestRS, open to anyone.
HarvestRS ==
    /\ Harvests
    /\ HarvestOnly
    /\ usdc' = LedgerAfter
    /\ UNCHANGED <<notes, rsHeld>>

-----------------------------------------------------------------------------
(***************************************************************************)
(* The same functions for a note on another contract.  Its claimable is    *)
(* credited whatever claim then pays: the coins come from anywhere, here   *)
(* from a payer of revenue, and the note has earned what the contract has  *)
(* said.                                                                   *)
(***************************************************************************)
OtherHarvest(payer, paid) ==
    /\ paid > 0 => \E id \in DOMAIN others : others[id].status \in {"Open", "Active"}
    /\ othersBrought + paid <= MaxBrought
    /\ CanMove(usdc, payer, EscrowAddr, paid)
    /\ othersBrought' = othersBrought + paid
    /\ UNCHANGED <<now, ownershipVars, accountVars, accumulatorVars, harvestVars, notes>>

CreateOther(p, face, price, term, n, payer, paid) ==
    /\ NoteOffered(face, price, term, n)
    /\ nextNoteId < MaxNotes
    /\ OtherHarvest(payer, paid)
    /\ usdc' = Moved(usdc, payer, EscrowAddr, paid)
    /\ others' = Append(others,
           [provider |-> p, buyer |-> NoAddress, faceValue |-> face, purchasePrice |-> price,
            expiry |-> now + term, status |-> "Open"])
    /\ UNCHANGED othersPaid

PurchaseOther(b, id) ==
    /\ Purchase(b, others[id])
    /\ others' = [others EXCEPT ![id].buyer = b, ![id].status = "Active"]
    /\ UNCHANGED <<now, ownershipVars, accountVars, accumulatorVars, harvestVars, notes,
                   othersBrought, othersPaid>>

\* Paid out of the one balance, be it what the claims on that contract brought or not.
SettleOther(id, earned, payer, paid) ==
    LET ledger == Moved(usdc, payer, EscrowAddr, paid)
    IN  /\ Expired(others[id])
        /\ OtherHarvest(payer, paid)
        /\ ledger[EscrowAddr] >= earned
        /\ usdc' = PaidOut(ledger, others[id], earned)
        /\ othersPaid' = othersPaid + earned
        /\ others' = [others EXCEPT ![id].status = Outcome(others[id], earned)]

ReclaimOther(id) ==
    /\ others[id].status = "Open"
    /\ now >= others[id].expiry
    /\ others' = [others EXCEPT ![id].status = "Expired"]
    /\ UNCHANGED <<shareVars, harvestVars, notes, othersBrought, othersPaid>>

HarvestOther(payer, paid) ==
    /\ paid > 0
    /\ OtherHarvest(payer, paid)
    /\ usdc' = Moved(usdc, payer, EscrowAddr, paid)
    /\ UNCHANGED <<others, othersPaid>>

-----------------------------------------------------------------------------
NotesNext ==
    \/ \E p \in Sellers, face \in FaceValues, price \in PurchasePrices, term \in NoteTerms,
          n \in Collaterals : CreateNote(p, face, price, term, n)
    \/ \E id \in DOMAIN notes :
          \/ \E b \in Buyers : PurchaseNote(b, id)
          \/ Settle(id)
          \/ ReclaimExpired(id)
    \/ HarvestRS

OthersNext ==
    \/ \E payer \in Payers, paid \in OtherClaims \cup {0} :
          \/ \E p \in Sellers, face \in FaceValues, price \in PurchasePrices, term \in NoteTerms,
                n \in Collaterals : CreateOther(p, face, price, term, n, payer, paid)
          \/ \E id \in DOMAIN others, earned \in OtherEarnings : SettleOther(id, earned, payer, paid)
          \/ HarvestOther(payer, paid)
    \/ \E id \in DOMAIN others :
          \/ \E b \in Buyers : PurchaseOther(b, id)
          \/ ReclaimOther(id)

FutureNext ==
    \/ NotesNext /\ UNCHANGED otherVars
    \/ OthersNext

-----------------------------------------------------------------------------
(***************************************************************************)
(* What the notes on the revenue share have been credited is there to be   *)
(* paid out, beside what the claims on other contracts have brought in,    *)
(* and so are the shares, in whatever order notes were created, sold,      *)
(* settled and reclaimed, and however each harvest was rounded.  Only what *)
(* notes on other contracts were paid is missing: from the rest, once they *)
(* were paid more than their contracts did.                                *)
(***************************************************************************)
NotesCovered ==
    /\ Total([id \in DOMAIN notes |-> EarnedAt(id, accUsdcPerRawShare)]) + othersBrought
           <= usdc[EscrowAddr] + othersPaid
    /\ Total([id \in DOMAIN notes |-> notes[id].collateralShares]) <= shares[EscrowAddr]
=============================================================================
