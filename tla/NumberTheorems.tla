--------------------------- MODULE NumberTheorems ---------------------------
(***************************************************************************)
(* Facts about sets of natural numbers that the proofs about several       *)
(* modules need: the least, the greatest, and the place of each.           *)
(***************************************************************************)
EXTENDS Integers, FiniteSets, FiniteSetTheorems, TLAPS

\* A set of natural numbers that is not empty has a least.
LEMMA LeastNatural ==
  ASSUME NEW S \in SUBSET Nat, S # {}
  PROVE  \E n \in S : \A k \in S : n <= k
<1>. DEFINE R == OpToRel(<, Nat)
<1>1. IsWellFoundedOn(R, Nat)
  BY NatLessThanWellFounded
<1>2. \E n \in S : \A k \in S : ~(<<k, n>> \in R)
  <2>. HIDE DEF R
  <2>. QED BY <1>1, WFMin, Zenon
<1>3. \A k \in Nat, n \in Nat : <<k, n>> \in R <=> k < n
  BY DEF OpToRel
<1>4. PICK n \in S : \A k \in S : ~(<<k, n>> \in R)
  BY <1>2
<1>5. ASSUME NEW k \in S PROVE n <= k
  <2>. HIDE DEF R
  <2>1. ~(k < n)
    BY <1>3, <1>4
  <2>. QED
    BY <2>1
<1>. QED
  BY <1>5

\* The rank of a number in a finite set grows with it and meets every place.
LEMMA RankIsOnto ==
  ASSUME NEW S \in SUBSET Nat, IsFiniteSet(S)
  PROVE  \E f \in [S -> 1..Cardinality(S)] :
           /\ \A x, y \in S : x < y => f[x] < f[y]
           /\ \A i \in 1..Cardinality(S) : \E x \in S : f[x] = i
<1>. DEFINE n == Cardinality(S)
            To(x) == {z \in S : z <= x}
            f == [x \in S |-> Cardinality(To(x))]
<1>1. n \in Nat
  BY FS_CardinalityType
<1>2. ASSUME NEW x \in S
      PROVE  IsFiniteSet(To(x)) /\ Cardinality(To(x)) \in 1..n
  <2>1. To(x) \in SUBSET S /\ x \in To(x)
    OBVIOUS
  <2>2. IsFiniteSet(To(x)) /\ Cardinality(To(x)) <= n
    BY <2>1, FS_Subset
  <2>3. Cardinality(To(x)) \in Nat /\ Cardinality(To(x)) # 0
    BY <2>1, <2>2, FS_CardinalityType, FS_EmptySet
  <2>. QED
    BY <1>1, <2>2, <2>3
<1>3. f \in [S -> 1..n]
  BY <1>2
<1>4. ASSUME NEW x \in S, NEW y \in S, x < y PROVE f[x] < f[y]
  <2>1. To(x) \in SUBSET To(y) /\ To(x) # To(y)
    <3>1. /\ x \in Nat /\ y \in Nat
          /\ \A z \in S : z \in Nat
      OBVIOUS
    <3>2. y \in To(y) /\ y \notin To(x)
      BY <1>4, <3>1
    <3>3. \A z \in S : z <= x => z <= y
      BY <1>4, <3>1
    <3>. QED
      BY <3>2, <3>3
  <2>2. Cardinality(To(x)) <= Cardinality(To(y)) /\ Cardinality(To(x)) # Cardinality(To(y))
    BY <1>2, <2>1, FS_Subset
  <2>3. Cardinality(To(x)) \in Nat /\ Cardinality(To(y)) \in Nat
    BY <1>2, FS_CardinalityType
  <2>. QED
    BY <2>2, <2>3
<1>5. f \in Injection(S, 1..n)
  <2>. HIDE DEF f
  <2>1. \A x, y \in S : f[x] = f[y] => x = y
    <3>. SUFFICES ASSUME NEW x \in S, NEW y \in S, x # y PROVE f[x] # f[y]
      OBVIOUS
    <3>1. x < y \/ y < x
      OBVIOUS
    <3>2. f[x] \in Nat /\ f[y] \in Nat
      BY <1>3
    <3>. QED
      BY <1>4, <3>1, <3>2
  <2>. QED
    BY <1>3, <2>1 DEF Injection, IsInjective
<1>6. IsFiniteSet(1..n) /\ Cardinality(1..n) = n
  <2>1. 1 \in Int /\ n \in Int
    BY <1>1
  <2>2. IsFiniteSet(1..n) /\ Cardinality(1..n) = IF 1 > n THEN 0 ELSE n - 1 + 1
    BY <2>1, FS_Interval
  <2>. QED
    BY <1>1, <2>2
<1>7. f \in Surjection(S, 1..n)
  <2>. HIDE DEF f
  <2>. QED
    BY <1>5, <1>6, FS_Injection
<1>8. \A i \in 1..n : \E x \in S : f[x] = i
  BY <1>7 DEF Surjection
<1>. HIDE DEF f
<1>. QED
  BY <1>3, <1>4, <1>8

\* A finite one has a greatest.
LEMMA GreatestNatural ==
  ASSUME NEW S \in SUBSET Nat, IsFiniteSet(S), S # {}
  PROVE  \E n \in S : \A k \in S : k <= n
<1>1. PICK f \in [S -> 1..Cardinality(S)] :
        /\ \A x, y \in S : x < y => f[x] < f[y]
        /\ \A i \in 1..Cardinality(S) : \E x \in S : f[x] = i
  BY RankIsOnto
<1>2. Cardinality(S) \in Nat \ {0}
  BY FS_CardinalityType, FS_EmptySet
<1>3. PICK n \in S : f[n] = Cardinality(S)
  BY <1>1, <1>2
<1>4. ASSUME NEW k \in S PROVE k <= n
  <2>1. n < k => f[n] < f[k]
    BY <1>1, Zenon
  <2>2. f[k] \in 1..Cardinality(S)
    OBVIOUS
  <2>3. ~(n < k)
    BY <1>2, <1>3, <2>1, <2>2
  <2>4. n \in Nat /\ k \in Nat
    OBVIOUS
  <2>. QED
    BY <2>3, <2>4
<1>. QED
  BY <1>4
=============================================================================
