---------------------------- MODULE CoinsProofs ----------------------------
(***************************************************************************)
(* What the sums of Coins do when rows come, go or keep their amounts, and *)
(* the facts of arithmetic that several proofs need.                       *)
(***************************************************************************)
EXTENDS Coins, FiniteSetTheorems, WellFoundedInduction, TLAPS

\* The coins of one row.
LEMMA RowCoins ==
    ASSUME NEW w, NEW n \in Nat
    PROVE  /\ IsFiniteSet({w} \X (1..n))
           /\ Cardinality({w} \X (1..n)) = n
<1>1. IsFiniteSet({w}) /\ Cardinality({w}) = 1
  BY FS_Singleton
<1>2. IsFiniteSet(1..n) /\ Cardinality(1..n) = n
  BY FS_Interval
<1> DEFINE card == Cardinality({w} \X (1..n))
<1>3. IsFiniteSet({w} \X (1..n)) /\ card = Cardinality({w}) * Cardinality(1..n)
  BY <1>1, <1>2, FS_Product, Zenon
<1>4. card = 1 * n
  BY <1>1, <1>2, <1>3, Zenon
<1> HIDE DEF card
<1>5. card = n
  BY <1>4
<1> QED BY <1>3, <1>5 DEF card

\* A finite set of rows has finitely many coins.
LEMMA CoinsFinite ==
    ASSUME NEW S, IsFiniteSet(S), NEW amount, \A w \in S : amount[w] \in Nat
    PROVE  IsFiniteSet(Coins(S, amount))
<1> DEFINE row == [w \in S |-> {w} \X (1..amount[w])]
           Rows == {{w} \X (1..amount[w]) : w \in S}
<1>1. row \in Surjection(S, Rows)
  BY DEF Surjection
<1>2. IsFiniteSet(Rows)
  BY <1>1, FS_Surjection
<1>3. ASSUME NEW w \in S PROVE IsFiniteSet({w} \X (1..amount[w]))
  BY RowCoins, amount[w] \in Nat, Zenon
<1>4. IsFiniteSet(UNION Rows)
  BY <1>2, <1>3, FS_UNION, Zenon
<1> QED BY <1>4 DEF Coins

\* Fewer rows, less money.
LEMMA SumMonotone ==
    ASSUME NEW S, IsFiniteSet(S), NEW T \in SUBSET S, NEW amount,
           \A w \in S : amount[w] \in Nat
    PROVE  /\ SumOf(S, amount) \in Nat
           /\ SumOf(T, amount) \in Nat
           /\ SumOf(T, amount) <= SumOf(S, amount)
<1>1. IsFiniteSet(Coins(S, amount))
  BY CoinsFinite
<1>2. Coins(T, amount) \subseteq Coins(S, amount)
  BY DEF Coins
<1>3. IsFiniteSet(Coins(T, amount)) /\
      Cardinality(Coins(T, amount)) <= Cardinality(Coins(S, amount))
  BY <1>1, <1>2, FS_Subset
<1> QED BY <1>1, <1>3, FS_CardinalityType DEF SumOf

\* Rows whose amounts are the same have the same sum.
LEMMA SumSame ==
    ASSUME NEW S, NEW amount, NEW amount2, \A w \in S : amount[w] = amount2[w]
    PROVE  SumOf(S, amount) = SumOf(S, amount2)
<1>1. Coins(S, amount) = Coins(S, amount2)
  BY DEF Coins
<1> QED BY <1>1 DEF SumOf

\* A new row adds its amount.
LEMMA SumAdd ==
    ASSUME NEW S, IsFiniteSet(S), NEW w, w \notin S, NEW amount,
           \A x \in S \cup {w} : amount[x] \in Nat
    PROVE  SumOf(S \cup {w}, amount) = SumOf(S, amount) + amount[w]
<1> DEFINE old == Coins(S, amount)
           new == {w} \X (1..amount[w])
<1>1. IsFiniteSet(old)
  BY CoinsFinite
<1>2. IsFiniteSet(new) /\ Cardinality(new) = amount[w]
  BY RowCoins
<1>3. Coins(S \cup {w}, amount) = old \cup new
  BY DEF Coins
<1>4. old \cap new = {}
  BY DEF Coins
<1>5. Cardinality({}) = 0
  BY FS_EmptySet
<1>6. Cardinality(old \cup new) = Cardinality(old) + Cardinality(new)
                                  - Cardinality(old \cap new)
  BY <1>1, <1>2, FS_Union
<1>7. Cardinality(old) \in Nat
  BY <1>1, FS_CardinalityType
<1>8. Cardinality(old \cap new) = 0
  BY <1>4, <1>5
<1>9. Cardinality(old \cup new) = Cardinality(old) + amount[w]
  <2> HIDE DEF old, new
  <2> QED BY <1>2, <1>6, <1>7, <1>8
<1> QED BY <1>3, <1>9 DEF SumOf

\* A row of a sum whose amount changes.
LEMMA SumChanged ==
    ASSUME NEW S, IsFiniteSet(S), NEW w \in S, NEW f, NEW g, \A x \in S : f[x] \in Nat /\ g[x] \in Nat,
           \A x \in S : x # w => f[x] = g[x]
    PROVE  SumOf(S, f) \in Nat /\ SumOf(S, g) \in Nat /\ SumOf(S, g) + f[w] = SumOf(S, f) + g[w]
<1> DEFINE R == S \ {w}
<1>1. IsFiniteSet(R) /\ S = R \cup {w} /\ w \notin R
  BY FS_Subset
<1>2. SumOf(R, f) = SumOf(R, g)
  BY SumSame
<1>3. SumOf(S, f) \in Nat /\ SumOf(S, g) \in Nat /\ SumOf(R, f) \in Nat
  <2>1. SumOf(S, f) \in Nat /\ SumOf(R, f) \in Nat
    BY SumMonotone
  <2>2. SumOf(S, g) \in Nat
    BY SumMonotone
  <2> QED
    BY <2>1, <2>2
<1> HIDE DEF R
<1>4. SumOf(S, f) = SumOf(R, f) + f[w]
  BY <1>1, SumAdd
<1>5. SumOf(S, g) = SumOf(R, g) + g[w]
  BY <1>1, SumAdd
<1> QED
  BY <1>2, <1>3, <1>4, <1>5

-----------------------------------------------------------------------------
\* Facts of arithmetic.
LEMMA Quotient ==
    ASSUME NEW a \in Nat, NEW b \in Nat \ {0}
    PROVE  /\ a \div b \in Nat
           /\ (a \div b) * b <= a
           /\ a < (a \div b) * b + b
  BY SMTT(30)

LEMMA TimesMonotone ==
    ASSUME NEW m \in Nat, NEW n \in Nat, m <= n, NEW b \in Nat
    PROVE  m * b <= n * b /\ m * b \in Nat /\ n * b \in Nat
  BY SMTT(30)

LEMMA TimesSuccessor ==
    ASSUME NEW n \in Nat, NEW b \in Nat
    PROVE  (n + 1) * b = n * b + b
  BY SMTT(30)

LEMMA TimesSum ==
    ASSUME NEW m \in Nat, NEW n \in Nat, NEW b \in Nat
    PROVE  (m + n) * b = m * b + n * b
  BY SMTT(30)

LEMMA TimesAtLeast ==
    ASSUME NEW n \in Nat, NEW b \in Nat \ {0}
    PROVE  n * b \in Nat /\ n <= n * b
  BY SMTT(30)

LEMMA SameMultiple ==
    ASSUME NEW m \in Nat, NEW n \in Nat, NEW b \in Nat, NEW a \in Nat,
           m * b <= a, a < m * b + b, n * b <= a, a < n * b + b
    PROVE  m = n
<1>1. m * b \in Nat /\ n * b \in Nat
  BY TimesMonotone
<1>2. CASE m < n
  <2>1. (m + 1) * b <= n * b
    BY <1>2, TimesMonotone
  <2>2. (m + 1) * b = m * b + b
    BY TimesSuccessor
  <2> QED
    BY <1>1, <2>1, <2>2
<1>3. CASE n < m
  <2>1. (n + 1) * b <= m * b
    BY <1>3, TimesMonotone
  <2>2. (n + 1) * b = n * b + b
    BY TimesSuccessor
  <2> QED
    BY <1>1, <2>1, <2>2
<1> QED
  BY <1>2, <1>3

\* A set of numbers has a least one.
LEMMA LeastNumber ==
    ASSUME NEW T \in SUBSET Nat, T # {}
    PROVE  \E n \in T : \A m \in T : ~(m < n)
<1>1. \E x \in T : \A y \in T : ~(<<y, x>> \in OpToRel(<, Nat))
  BY NatLessThanWellFounded, WFMin
<1> QED
  BY <1>1 DEF OpToRel
=============================================================================
