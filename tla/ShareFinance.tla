---------------------------- MODULE ShareFinance ----------------------------
(***************************************************************************)
(* One of the two contracts that credit the dividends of shares they hold, *)
(* over the revenue share itself: payments, claims and transfers come      *)
(* between any two steps of the contract.  Which one it is, is chosen at   *)
(* the start: they share no state in the code either.  With APIUSD the     *)
(* clock stands still, since nothing it does depends on the time.          *)
(***************************************************************************)
EXTENDS APIRevenueFuture, APIUSD

CONSTANT Products           \* those to look at, among "notes" and "loans"

ASSUME FinanceAssumption == Products \subseteq {"notes", "loans"}

VARIABLE product

financeVars == <<shareVars, harvestVars, notes, otherVars, cdpVars, product>>

FinanceInit ==
    /\ ShareInit
    /\ HarvestInit
    /\ FutureInit
    /\ CdpInit
    /\ product \in Products

FinanceNext ==
    \/ /\ ShareNext
       /\ product = "loans" => UNCHANGED now
       /\ UNCHANGED <<harvestVars, notes, otherVars, cdpVars, product>>
    \/ /\ product = "notes"
       /\ FutureNext
       /\ UNCHANGED <<cdpVars, product>>
    \/ /\ product = "loans"
       /\ CdpNext
       /\ UNCHANGED <<notes, otherVars, product>>

FinanceSpec == FinanceInit /\ [][FinanceNext]_financeVars

-----------------------------------------------------------------------------
(***************************************************************************)
(* Nothing that happens to others, and no harvest, takes away what an      *)
(* unsettled note or an untouched position has earned: shares that come in *)
(* while others are held take no part of the dividends paid before them.   *)
(* Dividends that are nobody's, paid to shares that have left, are not     *)
(* spoken of: they go to whoever is there at the next harvest.             *)
(***************************************************************************)
EarningsKept == [][
    /\ \A id \in DOMAIN notes :
           notes'[id].collateralShares > 0 => NoteEarned(id)' >= NoteEarned(id)
    /\ \A u \in Borrowers :
           positions'[u] = positions[u] => CollateralValue(u)' >= CollateralValue(u)
    ]_financeVars
=============================================================================
