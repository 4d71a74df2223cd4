---------------------------- MODULE USDC_proofs -----------------------------
(***************************************************************************)
(* Facts about Total, the sum of a function into Nat, and about transfers. *)
(* Total counts coins, so each follows from a fact about cardinalities and *)
(* none needs an induction over the domain.                                *)
(***************************************************************************)
EXTENDS USDC, FiniteSetTheorems, TLAPS

\* The coins of everybody but a.
OtherCoins(f, a) == UNION {{b} \X (1 .. f[b]) : b \in DOMAIN f \ {a}}

(***************************************************************************)
(* One account owns as many coins as its amount.                           *)
(***************************************************************************)
LEMMA CoinsOfOne ==
    ASSUME NEW a, NEW n \in Nat
    PROVE  /\ IsFiniteSet({a} \X (1 .. n))
           /\ Cardinality({a} \X (1 .. n)) = n
<1>1. IsFiniteSet({a}) /\ Cardinality({a}) = 1
    BY FS_Singleton
<1>2. IsFiniteSet(1 .. n) /\ Cardinality(1 .. n) = n
    BY FS_Interval
<1>3. /\ IsFiniteSet({a} \X (1 .. n))
      /\ Cardinality({a} \X (1 .. n)) = Cardinality({a}) * Cardinality(1 .. n)
    BY <1>1, <1>2, FS_Product
<1> QED BY <1>1, <1>2, <1>3

(***************************************************************************)
(* Finitely many accounts own finitely many coins.                         *)
(***************************************************************************)
LEMMA OtherCoinsFinite ==
    ASSUME NEW S, IsFiniteSet(S), NEW f \in [S -> Nat], NEW a
    PROVE  IsFiniteSet(OtherCoins(f, a))
<1> DEFINE T == S \ {a}
           owns == [b \in T |-> {b} \X (1 .. f[b])]
           purses == {{b} \X (1 .. f[b]) : b \in T}
<1>1. IsFiniteSet(T)
    BY FS_RemoveElement
<1>2. owns \in Surjection(T, purses)
    BY DEF Surjection
<1>3. IsFiniteSet(purses)
    BY <1>1, <1>2, FS_Surjection
<1>4. \A purse \in purses : IsFiniteSet(purse)
    <2>1. ASSUME NEW b \in T PROVE IsFiniteSet({b} \X (1 .. f[b]))
        <3>1. f[b] \in Nat
            OBVIOUS
        <3> QED BY <3>1, CoinsOfOne
    <2> QED BY <2>1
<1>5. IsFiniteSet(UNION purses)
    BY <1>3, <1>4, FS_UNION
<1> QED BY <1>5 DEF OtherCoins

(***************************************************************************)
(* The total is one account's amount and the coins of the others.          *)
(***************************************************************************)
LEMMA TotalSplit ==
    ASSUME NEW S, IsFiniteSet(S), NEW f \in [S -> Nat], NEW a \in S
    PROVE  /\ Cardinality(OtherCoins(f, a)) \in Nat
           /\ Total(f) = f[a] + Cardinality(OtherCoins(f, a))
<1> DEFINE own == {a} \X (1 .. f[a])
<1>1. IsFiniteSet(own) /\ Cardinality(own) = f[a]
    BY CoinsOfOne
<1>2. IsFiniteSet(OtherCoins(f, a))
    BY OtherCoinsFinite
<1>3. Coins(f) = own \cup OtherCoins(f, a)
    BY DEF Coins, OtherCoins
<1>4. own \cap OtherCoins(f, a) = {}
    BY DEF OtherCoins
<1>5. Cardinality(own \cup OtherCoins(f, a))
        = Cardinality(own) + Cardinality(OtherCoins(f, a)) - Cardinality({})
    BY <1>1, <1>2, <1>4, FS_Union
<1>6. Cardinality(OtherCoins(f, a)) \in Nat
    BY <1>2, FS_CardinalityType
<1> QED BY <1>1, <1>3, <1>5, <1>6, FS_EmptySet DEF Total

(***************************************************************************)
(* Changing one amount changes the total by as much.                       *)
(***************************************************************************)
LEMMA TotalUpdate ==
    ASSUME NEW S, IsFiniteSet(S), NEW f \in [S -> Nat], NEW a \in S, NEW n \in Nat
    PROVE  /\ Total(f) \in Nat
           /\ Total([f EXCEPT ![a] = n]) = Total(f) - f[a] + n
<1> DEFINE g == [f EXCEPT ![a] = n]
<1>1. g \in [S -> Nat] /\ g[a] = n
    OBVIOUS
<1>2. OtherCoins(g, a) = OtherCoins(f, a)
    <2>1. \A b \in S \ {a} : g[b] = f[b]
        OBVIOUS
    <2>2. DOMAIN g = S /\ DOMAIN f = S
        OBVIOUS
    <2> QED BY <2>1, <2>2 DEF OtherCoins
<1>3. /\ Cardinality(OtherCoins(f, a)) \in Nat
      /\ Total(f) = f[a] + Cardinality(OtherCoins(f, a))
    BY TotalSplit
<1>4. Total(g) = g[a] + Cardinality(OtherCoins(g, a))
    BY <1>1, TotalSplit
<1> QED BY <1>1, <1>2, <1>3, <1>4

(***************************************************************************)
(* Nobody owns a coin when every amount is 0.                              *)
(***************************************************************************)
LEMMA TotalZero ==
    ASSUME NEW S
    PROVE  Total([a \in S |-> 0]) = 0
<1>1. Coins([a \in S |-> 0]) = {}
    BY DEF Coins
<1> QED BY <1>1, FS_EmptySet DEF Total

(***************************************************************************)
(* Rows of k numbers: the number at place j of row i, and where to find a  *)
(* number.                                                                 *)
(***************************************************************************)
Numbered(k, i, j) == (i - 1) * k + j

LEMMA NumberedRange ==
    ASSUME NEW k \in Nat, NEW n \in Nat, NEW i \in 1 .. n, NEW j \in 1 .. k
    PROVE  Numbered(k, i, j) \in 1 .. k * n
<1>1. (i - 1) * k \in Nat /\ (i - 1) * k + k = i * k
    OBVIOUS
<1>2. i * k <= k * n
    OBVIOUS
<1>3. k * n \in Nat
    OBVIOUS
<1> QED BY <1>1, <1>2, <1>3 DEF Numbered

LEMMA NumberedOnce ==
    ASSUME NEW k \in Nat, NEW i1 \in Nat \ {0}, NEW i2 \in Nat \ {0},
           NEW j1 \in 1 .. k, NEW j2 \in 1 .. k,
           Numbered(k, i1, j1) = Numbered(k, i2, j2)
    PROVE  i1 = i2 /\ j1 = j2
<1>1. ASSUME NEW a \in Nat \ {0}, NEW b \in Nat \ {0}, a < b
      PROVE  (a - 1) * k + k <= (b - 1) * k
    <2>1. (a - 1) * k + k = a * k
        OBVIOUS
    <2>2. a * k <= (b - 1) * k
        BY <1>1
    <2> QED BY <2>1, <2>2
<1>2. (i1 - 1) * k \in Nat /\ (i2 - 1) * k \in Nat
    OBVIOUS
<1>3. ~(i1 < i2)
    <2> SUFFICES ASSUME i1 < i2 PROVE FALSE
        OBVIOUS
    <2>1. (i1 - 1) * k + k <= (i2 - 1) * k
        BY <1>1
    <2> QED BY <2>1, <1>2 DEF Numbered
<1>4. ~(i2 < i1)
    <2> SUFFICES ASSUME i2 < i1 PROVE FALSE
        OBVIOUS
    <2>1. (i2 - 1) * k + k <= (i1 - 1) * k
        BY <1>1
    <2> QED BY <2>1, <1>2 DEF Numbered
<1>5. i1 = i2
    BY <1>3, <1>4
<1> QED BY <1>2, <1>5 DEF Numbered

LEMMA NumberFound ==
    ASSUME NEW k \in Nat, NEW n \in Nat, NEW m \in 1 .. k * n
    PROVE  \E i \in 1 .. n, j \in 1 .. k : m = Numbered(k, i, j)
<1>1. k * n \in Nat /\ k > 0 /\ n > 0
    <2>1. k = 0 \/ n = 0 => k * n = 0
        OBVIOUS
    <2> QED BY <2>1
<1> DEFINE q == (m - 1) \div k
           r == (m - 1) % k
<1>2. m - 1 \in Nat
    BY <1>1
<1>3. q \in Nat /\ r \in 0 .. k - 1 /\ m - 1 = q * k + r
    BY <1>1, <1>2
<1> HIDE DEF q, r
<1>4. q < n
    <2> SUFFICES ASSUME n <= q PROVE FALSE
        BY <1>3
    <2>1. n * k <= q * k /\ n * k = k * n
        BY <1>3
    <2> QED BY <1>1, <1>2, <1>3, <2>1
<1>5. q + 1 \in 1 .. n /\ r + 1 \in 1 .. k /\ m = Numbered(k, q + 1, r + 1)
    BY <1>1, <1>2, <1>3, <1>4 DEF Numbered
<1> QED BY <1>5

LEMMA CoinsFinite ==
    ASSUME NEW S, IsFiniteSet(S), NEW f \in [S -> Nat]
    PROVE  IsFiniteSet(Coins(f)) /\ Total(f) \in Nat
<1>1. PICK x : x \notin S
    BY NoSetContainsEverything
<1>2. Coins(f) = OtherCoins(f, x)
    BY <1>1 DEF Coins, OtherCoins
<1> QED BY <1>2, OtherCoinsFinite, FS_CardinalityType DEF Total

LEMMA CoinsOf ==
    ASSUME NEW S, NEW f \in [S -> Nat]
    PROVE  /\ \A a \in S : \A i \in 1 .. f[a] : <<a, i>> \in Coins(f)
           /\ \A c \in Coins(f) : /\ c = <<c[1], c[2]>>
                                  /\ c[1] \in S
                                  /\ c[2] \in 1 .. f[c[1]]
    BY DEF Coins

(***************************************************************************)
(* Amounts k times as large make a total at least k times as large: number *)
(* the k coins every coin of f stands for.                                 *)
(***************************************************************************)
LEMMA TotalScaled ==
    ASSUME NEW S, IsFiniteSet(S), NEW f \in [S -> Nat], NEW g \in [S -> Nat], NEW k \in Nat,
           \A a \in S : k * f[a] <= g[a]
    PROVE  k * Total(f) <= Total(g)
<1> DEFINE D == Coins(f) \X (1 .. k)
           M == [d \in D |-> <<d[1][1], Numbered(k, d[1][2], d[2])>>]
<1>1. IsFiniteSet(Coins(f)) /\ IsFiniteSet(Coins(g)) /\ Total(f) \in Nat
    BY CoinsFinite
<1>2. IsFiniteSet(1 .. k) /\ Cardinality(1 .. k) = k
    BY FS_Interval
<1>3. Cardinality(D) = Total(f) * k
    BY <1>1, <1>2, FS_Product DEF Total
<1>4. ASSUME NEW d \in D
      PROVE  /\ d = <<<<d[1][1], d[1][2]>>, d[2]>>
             /\ d[1][1] \in S
             /\ d[1][2] \in 1 .. f[d[1][1]]
             /\ d[2] \in 1 .. k
    BY CoinsOf
<1>5. ASSUME NEW d \in D PROVE M[d] \in Coins(g)
    <2> DEFINE a == d[1][1]
    <2>1. f[a] \in Nat /\ g[a] \in Nat /\ k * f[a] <= g[a] /\ k * f[a] \in Nat
        BY <1>4
    <2>2. Numbered(k, d[1][2], d[2]) \in 1 .. k * f[a]
        BY <1>4, <2>1, NumberedRange
    <2>3. Numbered(k, d[1][2], d[2]) \in 1 .. g[a]
        BY <2>1, <2>2
    <2> QED BY <1>4, <2>3, CoinsOf
<1>6. ASSUME NEW d \in D, NEW e \in D, M[d] = M[e] PROVE d = e
    <2>1. d[1][1] = e[1][1] /\ Numbered(k, d[1][2], d[2]) = Numbered(k, e[1][2], e[2])
        BY <1>6
    <2>2. /\ f[d[1][1]] \in Nat /\ f[e[1][1]] \in Nat
          /\ d[1][2] \in 1 .. f[d[1][1]] /\ e[1][2] \in 1 .. f[e[1][1]]
        BY <1>4
    <2>3. d[1][2] \in Nat \ {0} /\ e[1][2] \in Nat \ {0} /\ d[2] \in 1 .. k /\ e[2] \in 1 .. k
        BY <2>2, <1>4
    <2> HIDE DEF D, M
    <2>4. \A i1, i2 \in Nat \ {0}, j1, j2 \in 1 .. k :
             Numbered(k, i1, j1) = Numbered(k, i2, j2) => i1 = i2 /\ j1 = j2
        BY NumberedOnce
    <2>5. d[1][2] = e[1][2] /\ d[2] = e[2]
        BY <2>1, <2>3, <2>4
    <2> QED BY <1>4, <2>1, <2>5 DEF D
<1>7. M \in Injection(D, Coins(g))
    <2>1. M \in [D -> Coins(g)]
        BY <1>5
    <2>2. IsInjective(M)
        BY <1>6 DEF IsInjective
    <2> QED BY <2>1, <2>2 DEF Injection
<1>8. Cardinality(D) <= Cardinality(Coins(g))
    BY <1>1, <1>7, FS_Injection
<1>9. Total(f) * k = k * Total(f)
    BY <1>1
<1> QED BY <1>3, <1>8, <1>9 DEF Total

(***************************************************************************)
(* Amounts that grow by at most k for every coin of s make a total that    *)
(* grows by at most k times the total of s.                                *)
(***************************************************************************)
LEMMA TotalGrowth ==
    ASSUME NEW S, IsFiniteSet(S), NEW f \in [S -> Nat], NEW g \in [S -> Nat],
           NEW s \in [S -> Nat], NEW k \in Nat,
           \A a \in S : g[a] <= f[a] + k * s[a]
    PROVE  Total(g) <= Total(f) + k * Total(s)
<1> DEFINE D == Coins(s) \X (1 .. k)
           M == [d \in D |-> <<d[1][1], f[d[1][1]] + Numbered(k, d[1][2], d[2])>>]
           E == {M[d] : d \in D}
<1>1. /\ IsFiniteSet(Coins(f)) /\ IsFiniteSet(Coins(g)) /\ IsFiniteSet(Coins(s))
      /\ Total(f) \in Nat /\ Total(g) \in Nat /\ Total(s) \in Nat
    BY CoinsFinite
<1>2. IsFiniteSet(1 .. k) /\ Cardinality(1 .. k) = k
    BY FS_Interval
<1>3. IsFiniteSet(D) /\ Cardinality(D) = Total(s) * k
    BY <1>1, <1>2, FS_Product DEF Total
<1>4. M \in Surjection(D, E)
    BY DEF Surjection
<1>5. IsFiniteSet(E) /\ Cardinality(E) <= Total(s) * k
    BY <1>3, <1>4, FS_Surjection
<1>6. Coins(g) \subseteq Coins(f) \cup E
    <2> SUFFICES ASSUME NEW a \in S, NEW i \in 1 .. g[a]
                 PROVE  <<a, i>> \in Coins(f) \cup E
        <3> HIDE DEF E
        <3> QED BY CoinsOf
    <2>1. f[a] \in Nat /\ g[a] \in Nat /\ s[a] \in Nat /\ g[a] <= f[a] + k * s[a]
        OBVIOUS
    <2>2. CASE i <= f[a]
        BY <2>1, <2>2, CoinsOf
    <2>3. CASE i > f[a]
        <3>1. k * s[a] \in Nat
            BY <2>1
        <3>2. i - f[a] \in 1 .. k * s[a]
            BY <2>1, <2>3, <3>1
        <3>3. PICK n \in 1 .. s[a], j \in 1 .. k : i - f[a] = Numbered(k, n, j)
            BY <2>1, <3>2, NumberFound
        <3>4. <<a, n>> \in Coins(s)
            BY <2>1, CoinsOf
        <3> DEFINE d == <<<<a, n>>, j>>
        <3>5. d \in D /\ d[1][1] = a /\ d[1][2] = n /\ d[2] = j
            BY <3>4
        <3>6. M[d] = <<a, f[a] + Numbered(k, n, j)>>
            BY <3>5
        <3>7. f[a] + (i - f[a]) = i
            BY <2>1
        <3>8. M[d] = <<a, i>>
            BY <3>3, <3>6, <3>7
        <3> HIDE DEF M, D
        <3> QED BY <3>5, <3>8
    <2> QED BY <2>1, <2>2, <2>3
<1>7. /\ IsFiniteSet(Coins(f) \cup E)
      /\ Cardinality(Coins(f) \cup E)
            = Cardinality(Coins(f)) + Cardinality(E) - Cardinality(Coins(f) \cap E)
    BY <1>1, <1>5, FS_Union
<1>8. IsFiniteSet(Coins(f) \cap E)
    BY <1>1, FS_Intersection
<1>9. Cardinality(Coins(f) \cap E) \in Nat /\ Cardinality(E) \in Nat
    BY <1>5, <1>8, FS_CardinalityType
<1>10. Cardinality(Coins(g)) <= Cardinality(Coins(f) \cup E)
    BY <1>6, <1>7, FS_Subset
<1>11. Total(s) * k = k * Total(s) /\ k * Total(s) \in Nat
    BY <1>1
<1> HIDE DEF D, M, E
<1> QED BY <1>1, <1>5, <1>7, <1>9, <1>10, <1>11 DEF Total

(***************************************************************************)
(* A transfer the payer can afford leaves every balance a natural number;  *)
(* it takes at most the amount from any account, and nothing at all from   *)
(* an account other than the payer.                                        *)
(***************************************************************************)
LEMMA MovedType ==
    ASSUME NEW S, NEW ledger \in [S -> Nat], NEW from \in S, NEW to \in S,
           NEW amount \in Nat, ledger[from] >= amount
    PROVE  /\ Moved(ledger, from, to, amount) \in [S -> Nat]
           /\ Moved(ledger, from, to, amount)[from] >= ledger[from] - amount
           /\ from # to => Moved(ledger, from, to, amount)[from] = ledger[from] - amount
           /\ from # to => Moved(ledger, from, to, amount)[to] = ledger[to] + amount
           /\ \A a \in S \ {from} : Moved(ledger, from, to, amount)[a] >= ledger[a]
    BY DEF Moved

(***************************************************************************)
(* A transfer keeps the total.                                             *)
(***************************************************************************)
LEMMA MovedTotal ==
    ASSUME NEW S, IsFiniteSet(S), NEW ledger \in [S -> Nat], NEW from \in S, NEW to \in S,
           NEW amount \in Nat, ledger[from] >= amount
    PROVE  Total(Moved(ledger, from, to, amount)) = Total(ledger)
<1> DEFINE paid == [ledger EXCEPT ![from] = ledger[from] - amount]
           moved == [paid EXCEPT ![to] = paid[to] + amount]
<1>1. ledger[from] \in Nat /\ ledger[from] - amount \in Nat
    OBVIOUS
<1>2. /\ paid \in [S -> Nat] /\ Total(ledger) \in Nat
      /\ Total(paid) = Total(ledger) - ledger[from] + (ledger[from] - amount)
    BY <1>1, TotalUpdate
<1>3. Moved(ledger, from, to, amount) = moved
    BY DEF Moved
<1> HIDE DEF paid
<1>4. paid[to] \in Nat /\ paid[to] + amount \in Nat
    BY <1>2
<1>5. /\ Total(paid) \in Nat
      /\ Total(moved) = Total(paid) - paid[to] + (paid[to] + amount)
    BY <1>2, <1>4, TotalUpdate
<1> HIDE DEF moved
<1> QED BY <1>1, <1>2, <1>3, <1>4, <1>5

\* What one balance becomes, the total becomes with it.
LEMMA BalanceSet ==
    ASSUME NEW S, IsFiniteSet(S), NEW f \in [S -> Nat], NEW a \in S, NEW n \in Nat
    PROVE  /\ Total(f) \in Nat /\ f[a] <= Total(f)
           /\ Total([f EXCEPT ![a] = n]) = Total(f) - f[a] + n
<1>1. Total(f) \in Nat /\ Total([f EXCEPT ![a] = n]) = Total(f) - f[a] + n
    BY TotalUpdate
<1>2. Cardinality(OtherCoins(f, a)) \in Nat /\ Total(f) = f[a] + Cardinality(OtherCoins(f, a))
    BY TotalSplit
<1>3. f[a] <= Total(f)
    BY <1>2
<1> QED BY <1>1, <1>3

(***************************************************************************)
(* A larger amount everywhere makes a larger total.                        *)
(***************************************************************************)
LEMMA TotalMonotone ==
    ASSUME NEW S, IsFiniteSet(S), NEW f \in [S -> Nat], NEW g \in [S -> Nat],
           \A a \in S : f[a] <= g[a]
    PROVE  Total(f) <= Total(g)
<1>1. \A a \in S : 1 * f[a] <= g[a]
    OBVIOUS
<1>2. 1 * Total(f) <= Total(g)
    BY <1>1, TotalScaled
<1>3. Total(f) \in Nat
    BY CoinsFinite
<1> QED BY <1>2, <1>3
=============================================================================
