-------------------------------- MODULE USDC --------------------------------
(***************************************************************************)
(* The ERC-20 ledger every contract of the protocol pays with.  A ledger   *)
(* is a function from accounts to amounts; the contracts only ever read a  *)
(* balance or move coins, and a move the payer cannot afford, or one to    *)
(* address(0), reverts the whole transaction.                              *)
(***************************************************************************)
EXTENDS Integers, FiniteSets

CONSTANT NoAddress      \* address(0)

(***************************************************************************)
(* The ledger after `amount' moved from one account to another.  Payer and *)
(* payee may be the same account: the balance is then what it was.         *)
(***************************************************************************)
Moved(ledger, from, to, amount) ==
    [[ledger EXCEPT ![from] = @ - amount] EXCEPT ![to] = @ + amount]

(***************************************************************************)
(* safeTransfer / safeTransferFrom succeed.  The allowance a caller gives  *)
(* the contract before the call is assumed to be sufficient.               *)
(***************************************************************************)
CanMove(ledger, from, to, amount) ==
    /\ ledger[from] >= amount
    /\ to # NoAddress

(***************************************************************************)
(* The sum of a function into Nat over its domain, as a count of coins:    *)
(* every a of the domain owns the coins <<a, 1>> .. <<a, f[a]>>.           *)
(***************************************************************************)
Coins(f) == UNION {{a} \X (1 .. f[a]) : a \in DOMAIN f}

Total(f) == Cardinality(Coins(f))
=============================================================================
