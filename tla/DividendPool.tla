---------------------------- MODULE DividendPool ----------------------------
(***************************************************************************)
(* What a revenue share promises its holders, without shares, scaling or   *)
(* checkpoints: a pool of coins, and what each holder is owed out of it.   *)
(* Coins arrive; debts grow, never beyond the pool; a debt disappears only *)
(* by being paid in full.                                                  *)
(***************************************************************************)
EXTENDS USDC

CONSTANT Holders

VARIABLES
    pool,       \* coins held
    owed        \* holder -> coins owed

PoolInit ==
    /\ pool = 0
    /\ owed = [h \in Holders |-> 0]

GrownTo(debts) == \A h \in Holders : debts[h] >= owed[h]

Arrive ==
    /\ pool' > pool
    /\ UNCHANGED owed

\* Coins may arrive in the step that credits them.
Credit ==
    /\ GrownTo(owed')
    /\ Total(owed') <= pool'
    /\ pool' >= pool

(***************************************************************************)
(* One holder is paid everything owed to it once the debts have grown; the *)
(* coins stay in the pool when the payment is addressed to the pool.       *)
(***************************************************************************)
PayOut ==
    \E h \in Holders, paid \in 1 .. pool :
        LET debts == [owed' EXCEPT ![h] = paid]
        IN  /\ owed'[h] = 0
            /\ GrownTo(debts)
            /\ Total(debts) <= pool
            /\ pool' \in {pool, pool - paid}

PoolNext == Arrive \/ Credit \/ PayOut

PoolSpec == PoolInit /\ [][PoolNext]_<<pool, owed>>
=============================================================================
