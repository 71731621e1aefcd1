---------------------------- MODULE NumberFacts ----------------------------
(***************************************************************************)
(* Lemmas about natural numbers that the proofs share: least members and   *)
(* ranks, induction up to a bound, quotients, powers of two.               *)
(***************************************************************************)
EXTENDS Integers, FiniteSets, FunctionTheorems, FiniteSetTheorems, WellFoundedInduction, TLAPS

-----------------------------------------------------------------------------
(* Least members, ranks and induction up to a bound. *)

(* What holds at 0 and passes to the next holds up to n. *)
LEMMA UpTo ==
    ASSUME NEW n \in Nat, NEW T, 0 \in T, \A k \in 1..n : k - 1 \in T => k \in T
    PROVE  \A k \in 0..n : k \in T
<1> DEFINE Bad == {k \in Nat : k \in 0..n /\ k \notin T}
<1> SUFFICES ASSUME Bad # {} PROVE FALSE
  OBVIOUS
<1>1. Bad \in SUBSET Nat
  OBVIOUS
<1> HIDE DEF Bad
<1>2. PICK m \in Bad : \A x \in Bad : ~(<<x, m>> \in OpToRel(<, Nat))
  BY <1>1, NatLessThanWellFounded, WFMin
<1>3. \A x \in Bad : ~(x < m)
  BY <1>1, <1>2 DEF OpToRel
<1>4. m \in 0..n /\ m \notin T
  BY <1>2 DEF Bad
<1>5. m - 1 \in T
  <2>1. m \in 1..n /\ m - 1 \in 0..n /\ m - 1 < m /\ m - 1 \in Nat
    BY <1>4
  <2> QED
    BY <2>1, <1>3 DEF Bad
<1> QED
  BY <1>4, <1>5

(* A set of natural numbers that is not empty has a least member. *)
LEMMA Least ==
    ASSUME NEW T \in SUBSET Nat, T # {}
    PROVE  \E n \in T : \A m \in T : n <= m
<1>1. PICK n \in T : \A m \in T : ~(<<m, n>> \in OpToRel(<, Nat))
  BY NatLessThanWellFounded, WFMin
<1>2. \A m \in T : ~(m < n)
  BY <1>1 DEF OpToRel
<1> QED
  BY <1>2

Below(S, k) == {l \in S : l < k}

(* What is below a member of a finite set is finite. *)
LEMMA BelowFinite ==
    ASSUME NEW S \in SUBSET Nat, IsFiniteSet(S), NEW k
    PROVE  IsFiniteSet(Below(S, k)) /\ Cardinality(Below(S, k)) \in Nat /\ Cardinality(S) \in Nat
BY FS_Subset, FS_CardinalityType, Zenon DEF Below

(* Every rank below the size of a finite set of numbers is taken. *)
LEMMA RankTaken ==
    ASSUME NEW S \in SUBSET Nat, IsFiniteSet(S), NEW j \in 1..Cardinality(S)
    PROVE  \E k \in S : Cardinality(Below(S, k)) = j - 1
<1> DEFINE Free == {n \in Nat : n < Cardinality(S) /\ \A k \in S : Cardinality(Below(S, k)) # n}
<1>0. Cardinality(S) \in Nat
  BY BelowFinite
<1>1. SUFFICES ASSUME Free # {} PROVE FALSE
  BY <1>0
<1>2. PICK n \in Free : \A m \in Free : n <= m
  BY <1>1, Least
<1>3. S # {}
  BY <1>2, FS_EmptySet
<1>4. n # 0
  <2>1. PICK k \in S : \A l \in S : k <= l
    BY <1>3, Least
  <2>2. \A l \in S : l \in Nat /\ k \in Nat /\ k <= l
    BY <2>1
  <2>3. ASSUME NEW l \in Below(S, k) PROVE FALSE
    BY <2>2 DEF Below
  <2>4. Below(S, k) = {}
    BY <2>3
  <2> QED
    BY <2>4, FS_EmptySet
<1>5. PICK p \in S : Cardinality(Below(S, p)) = n - 1
  <2>1. n - 1 \in Nat /\ n - 1 < Cardinality(S) /\ n - 1 \notin Free
    BY <1>0, <1>2, <1>4
  <2> QED
    BY <2>1
<1> DEFINE Upto == Below(S, p) \cup {p}
           Above == {l \in S : p < l}
<1>numbers. \A l \in S : l \in Nat
  OBVIOUS
<1>6. IsFiniteSet(Upto) /\ Cardinality(Upto) = n
  <2>1. IsFiniteSet(Below(S, p)) /\ p \notin Below(S, p)
    BY <1>numbers, BelowFinite DEF Below
  <2>2. IsFiniteSet(Upto) /\ Cardinality(Upto) = Cardinality(Below(S, p)) + 1
    BY <2>1, FS_AddElement, Zenon
  <2> QED
    BY <2>2, <1>5, <1>2
<1>7. Above # {}
  <2> SUFFICES ASSUME Above = {} PROVE FALSE
    OBVIOUS
  <2>1. ASSUME NEW l \in S PROVE l \in Upto
    BY <1>numbers DEF Below
  <2>2. \A l \in Upto : l \in S
    BY DEF Below
  <2>3. S = Upto
    BY <2>1, <2>2
  <2> QED
    BY <2>3, <1>6, <1>2, <1>0
<1>8. PICK q \in Above : \A l \in Above : q <= l
  <2>1. Above \in SUBSET Nat
    BY <1>numbers
  <2> QED
    BY <1>7, <2>1, Least
<1>9. Below(S, q) = Upto
  <2>1. ASSUME NEW l \in Below(S, q) PROVE l \in Upto
    BY <1>8, <1>numbers DEF Below
  <2>2. ASSUME NEW l \in Upto PROVE l \in Below(S, q)
    BY <1>8, <1>numbers DEF Below
  <2> QED
    BY <2>1, <2>2
<1>10. q \in S /\ Cardinality(Below(S, q)) = n
  BY <1>8, <1>9, <1>6
<1> QED
  BY <1>10, <1>2

-----------------------------------------------------------------------------
(* Quotients and multiples. *)

(* The quotient and the remainder of q * d + r. *)
LEMMA Quotient ==
    ASSUME NEW q \in Nat, NEW d \in Nat \ {0}, NEW r \in 0..d - 1
    PROVE  (q * d + r) \div d = q /\ (q * d + r) % d = r
BY SMTT(30)

(* Multiples grow with the factor. *)
LEMMA Multiples ==
    ASSUME NEW a \in Nat, NEW b \in Nat, NEW d \in Nat, a <= b
    PROVE  a * d \in Nat /\ a * d <= b * d
BY SMTT(30)

(* A number divided by m and then by 2 is divided by 2 * m. *)
LEMMA Halved ==
    ASSUME NEW a \in Nat, NEW m \in Nat \ {0}
    PROVE  (a \div m) \div 2 = a \div (2 * m) /\ a \div m \in Nat
BY SMTT(60)

(* A greater number has no smaller quotient. *)
LEMMA QuotientsGrow ==
    ASSUME NEW a \in Nat, NEW b \in Nat, a <= b, NEW m \in Nat \ {0}
    PROVE  a \div m <= b \div m
BY SMTT(30)

-----------------------------------------------------------------------------
(* Powers of two. *)

(* 2^n counts the subsets of a set of n elements. *)
LEMMA PowerCounts ==
    ASSUME NEW n \in Nat, NEW S, IsFiniteSet(S), Cardinality(S) = n
    PROVE  /\ IsFiniteSet(SUBSET S) /\ Cardinality(SUBSET S) = 2^n
           /\ 2^n \in Nat \ {0}
<1>1. IsFiniteSet(SUBSET S) /\ Cardinality(SUBSET S) = 2^n
  BY FS_SUBSET
<1>2. SUBSET S # {}
  OBVIOUS
<1> QED
  BY <1>1, <1>2, FS_EmptySet, FS_CardinalityType

(* n numbers from a + 1 on. *)
LEMMA IntervalOf ==
    ASSUME NEW a \in Nat, NEW n \in Nat
    PROVE  IsFiniteSet(a + 1..a + n) /\ Cardinality(a + 1..a + n) = n
<1>1. a + 1 \in Int /\ a + n \in Int
  OBVIOUS
<1>2. /\ IsFiniteSet(a + 1..a + n)
      /\ Cardinality(a + 1..a + n) = IF a + 1 > a + n THEN 0 ELSE (a + n) - (a + 1) + 1
  BY <1>1, FS_Interval
<1> QED
  BY <1>2

(* No power of two is zero. *)
LEMMA PowerIsPositive == \A n \in Nat : 2^n \in Nat \ {0}
<1> TAKE n \in Nat
<1>1. IsFiniteSet(0 + 1..0 + n) /\ Cardinality(0 + 1..0 + n) = n
  BY IntervalOf
<1> QED
  BY <1>1, PowerCounts

(* The subsets of two disjoint sets are the pairs of their subsets. *)
LEMMA PowerOfSum ==
    ASSUME NEW m \in Nat, NEW n \in Nat
    PROVE  2^(m + n) = 2^m * 2^n
<1> DEFINE A == 0 + 1..0 + m
           B == m + 1..m + n
           Pairs == (SUBSET A) \X (SUBSET B)
           split == [X \in SUBSET (A \cup B) |-> <<X \cap A, X \cap B>>]
<1>1. IsFiniteSet(A) /\ Cardinality(A) = m /\ IsFiniteSet(B) /\ Cardinality(B) = n
  BY IntervalOf
<1>2. A \cup B = 0 + 1..0 + (m + n) /\ A \cap B = {}
  OBVIOUS
<1>3. IsFiniteSet(A \cup B) /\ Cardinality(A \cup B) = m + n
  <2>1. m + n \in Nat
    OBVIOUS
  <2>2. IsFiniteSet(0 + 1..0 + (m + n)) /\ Cardinality(0 + 1..0 + (m + n)) = m + n
    BY <2>1, IntervalOf
  <2> HIDE DEF A, B
  <2> QED BY <1>2, <2>2
<1> HIDE DEF A, B
<1>4. /\ IsFiniteSet(SUBSET A) /\ Cardinality(SUBSET A) = 2^m
      /\ IsFiniteSet(SUBSET B) /\ Cardinality(SUBSET B) = 2^n
      /\ IsFiniteSet(SUBSET (A \cup B)) /\ Cardinality(SUBSET (A \cup B)) = 2^(m + n)
  <2>1. m + n \in Nat
    OBVIOUS
  <2>2. IsFiniteSet(SUBSET A) /\ Cardinality(SUBSET A) = 2^m
    BY <1>1, PowerCounts
  <2>3. IsFiniteSet(SUBSET B) /\ Cardinality(SUBSET B) = 2^n
    BY <1>1, PowerCounts
  <2>4. IsFiniteSet(SUBSET (A \cup B)) /\ Cardinality(SUBSET (A \cup B)) = 2^(m + n)
    BY <1>3, <2>1, PowerCounts
  <2> QED BY <2>2, <2>3, <2>4
<1>5. split \in [SUBSET (A \cup B) -> Pairs]
  OBVIOUS
<1>6. \A X, Y \in SUBSET (A \cup B) : split[X] = split[Y] => X = Y
  OBVIOUS
<1>7. \A p \in Pairs : \E X \in SUBSET (A \cup B) : split[X] = p
  <2>1. ASSUME NEW X \in SUBSET A, NEW Y \in SUBSET B
        PROVE  \E Z \in SUBSET (A \cup B) : split[Z] = <<X, Y>>
    <3>1. X \cup Y \in SUBSET (A \cup B)
      OBVIOUS
    <3>2. (X \cup Y) \cap A = X
      BY <1>2
    <3>3. (X \cup Y) \cap B = Y
      BY <1>2
    <3> QED BY <3>1, <3>2, <3>3
  <2>2. \A p \in Pairs : p[1] \in SUBSET A /\ p[2] \in SUBSET B /\ p = <<p[1], p[2]>>
    OBVIOUS
  <2>3. ASSUME NEW p \in Pairs PROVE \E X \in SUBSET (A \cup B) : split[X] = p
    <3>0. p[1] \in SUBSET A /\ p[2] \in SUBSET B
      BY <2>2
    <3> HIDE DEF split
    <3>1. PICK X \in SUBSET (A \cup B) : split[X] = <<p[1], p[2]>>
      BY <2>1, <3>0
    <3> QED BY <2>2, <3>1
  <2> QED BY <2>3
<1>8. split \in Bijection(SUBSET (A \cup B), Pairs)
  BY <1>5, <1>6, <1>7, Fun_IsBij
<1>9. ExistsBijection(SUBSET (A \cup B), Pairs)
  BY <1>8, Fun_ExistsBij
<1>10. Cardinality(Pairs) = Cardinality(SUBSET (A \cup B))
  BY <1>4, <1>9, FS_Bijection
<1>11. Cardinality(Pairs) = 2^m * 2^n
  <2>1. Cardinality(Pairs) = Cardinality(SUBSET A) * Cardinality(SUBSET B)
    BY ONLY <1>4, FS_Product
  <2> QED
    BY <1>4, <2>1
<1> QED
  BY <1>4, <1>10, <1>11

(* One power of two and the next. *)
LEMMA PowerStep ==
    /\ 2^0 = 1
    /\ \A n \in Nat : 2^(n + 1) = 2 * 2^n
<1>1. 2^0 = 1 /\ 2^1 = 2
  OBVIOUS
<1>2. ASSUME NEW n \in Nat PROVE 2^(n + 1) = 2 * 2^n
  <2>1. PICK one \in Nat : one = 1
    OBVIOUS
  <2>2. 2^(one + n) = 2^one * 2^n
    BY PowerOfSum
  <2>3. one + n = n + 1 /\ 2^one = 2
    BY <1>1, <2>1
  <2> QED
    BY <2>2, <2>3
<1> QED
  BY <1>1, <1>2

=============================================================================
