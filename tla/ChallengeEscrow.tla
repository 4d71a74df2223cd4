--------------------------- MODULE ChallengeEscrow ---------------------------
(***************************************************************************)
(* What Layer 0 promises whoever puts money into it, without endpoints,    *)
(* hashes, reports, forwarders or settings.  Bonds lie in a vault and fees *)
(* in a till.  A case names who pays for it and whose bond is at stake; it *)
(* is judged once, and the judgement and all its payments are one step.    *)
(* Nobody is convicted in whose case nothing has been seen to be wrong.    *)
(* A bond may be withdrawn while a case is open: that is not promised.     *)
(***************************************************************************)
EXTENDS USDC, Sequences

CONSTANTS Depositors, Vault, Till, Payees

VARIABLES
    ledger,     \* account -> coins
    bond,       \* depositor -> coins of it in the vault
    cases       \* sequence of [by, against, status, suspect]

escrowVars == <<ledger, bond, cases>>

EscrowInit ==
    /\ ledger[Vault] = 0 /\ ledger[Till] = 0
    /\ bond = [u \in Depositors |-> 0]
    /\ cases = <<>>

Deposit ==
    \E u \in Depositors : \E amount \in 1 .. ledger[u] :
        /\ ledger' = Moved(ledger, u, Vault, amount)
        /\ bond' = [bond EXCEPT ![u] = @ + amount]
        /\ UNCHANGED cases

Withdrawal ==
    \E u \in Depositors : \E amount \in 1 .. bond[u] :
        /\ ledger' = Moved(ledger, Vault, u, amount)
        /\ bond' = [bond EXCEPT ![u] = @ - amount]
        /\ UNCHANGED cases

File ==
    \E u, accused \in Depositors, suspect \in BOOLEAN : \E fee \in 0 .. ledger[u] :
        /\ ledger' = Moved(ledger, u, Till, fee)
        /\ cases' = Append(cases, [by |-> u, against |-> accused,
                                   status |-> "Pending", suspect |-> suspect])
        /\ UNCHANGED bond

\* Something wrong is seen: it stays on the file of the cases it concerns.
Suspect ==
    \E seen \in SUBSET DOMAIN cases :
        /\ cases' = [id \in DOMAIN cases |-> [cases[id] EXCEPT !.suspect = @ \/ id \in seen]]
        /\ UNCHANGED <<ledger, bond>>

\* A fee goes to the accused.
Acquit(id) ==
    /\ \E fee \in 0 .. ledger[Till] : ledger' = Moved(ledger, Till, cases[id].against, fee)
    /\ cases' = [cases EXCEPT ![id].status = "Valid"]
    /\ UNCHANGED bond

\* A fee and what a cut leaves of the loss go to whoever filed the case.
Convict(id) ==
    LET accused == cases[id].against
    IN  /\ cases[id].suspect
        /\ bond[accused] > 0
        /\ \E loss \in 0 .. bond[accused], payee \in Payees : \E cut \in 0 .. loss :
              LET taxed == Moved(ledger, Vault, payee, cut)
                  rewarded == Moved(taxed, Vault, cases[id].by, loss - cut)
              IN  /\ \E fee \in 0 .. rewarded[Till] :
                        ledger' = Moved(rewarded, Till, cases[id].by, fee)
                  /\ bond' = [bond EXCEPT ![accused] = @ - loss]
        /\ cases' = [cases EXCEPT ![id].status = "Invalid"]

Judge ==
    \E id \in DOMAIN cases :
        /\ cases[id].status = "Pending"
        /\ Acquit(id) \/ Convict(id)

EscrowNext == Deposit \/ Withdrawal \/ File \/ Suspect \/ Judge

EscrowSpec == EscrowInit /\ [][EscrowNext]_escrowVars
=============================================================================
