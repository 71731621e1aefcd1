-------------------------- MODULE TranscriptProofs --------------------------
(***************************************************************************)
(* Whatever operations the prover runs and wherever the proof is cut: a    *)
(* whole proof is accepted and a shorter one refused, the guest replays    *)
(* the verifier, and all three take part in one interaction.  The          *)
(* invariant says that the schedule has a history, the sponge and the      *)
(* cursors between any two operations, which each party goes through.      *)
(***************************************************************************)
EXTENDS Transcript, NumberFacts, SequenceTheorems, WellFoundedInduction, TLAPS

-----------------------------------------------------------------------------
(* Sequences *)

(* A sequence of anything: what is said has no common type. *)
Sequence(s) == \E S : s \in Seq(S)

(* The length of a sequence is a natural number and its domain the indices. *)
LEMMA SequenceIs ==
    ASSUME NEW s, Sequence(s)
    PROVE  Len(s) \in Nat /\ DOMAIN s = 1..Len(s) /\ s = [i \in 1..Len(s) |-> s[i]]
<1>1. PICK S : s \in Seq(S)
  BY DEF Sequence
<1> QED
  BY <1>1, LenProperties

(* A function on 1..n is a sequence of length n. *)
LEMMA FunctionIsSequence ==
    ASSUME NEW n \in Nat, NEW S, NEW f \in [1..n -> S]
    PROVE  f \in Seq(S) /\ Len(f) = n /\ DOMAIN f = 1..n
<1>1. f \in Seq(S)
  BY SeqDef
<1>2. Len(f) \in Nat /\ DOMAIN f = 1..Len(f)
  BY <1>1, LenProperties
<1>3. \A m \in Nat : 1..m = 1..n => m = n
  <2> SUFFICES ASSUME NEW m \in Nat, 1..m = 1..n PROVE m = n
    OBVIOUS
  <2>1. CASE m < n
    BY <2>1, n \in 1..n, n \notin 1..m
  <2>2. CASE n < m
    BY <2>2, m \in 1..m, m \notin 1..n
  <2> QED
    BY <2>1, <2>2
<1> QED
  BY <1>1, <1>2, <1>3

(* What Append leaves and what it adds. *)
LEMMA Appending ==
    ASSUME NEW s, NEW x, Sequence(s)
    PROVE  /\ Sequence(Append(s, x))
           /\ Len(Append(s, x)) = Len(s) + 1
           /\ \A i \in 1..Len(s) : Append(s, x)[i] = s[i]
           /\ Append(s, x)[Len(s) + 1] = x
           /\ SubSeq(Append(s, x), 1, Len(s)) = s
<1>1. PICK S : s \in Seq(S)
  BY DEF Sequence
<1> DEFINE T == S \cup {x}
           a == Append(s, x)
<1>2. s \in Seq(T) /\ x \in T
  BY <1>1, SeqMonotonic
<1>3. /\ a \in Seq(T) /\ Len(a) = Len(s) + 1
      /\ \A i \in 1..Len(s) : a[i] = s[i]
      /\ a[Len(s) + 1] = x
  BY <1>2, AppendProperties
<1>4. Len(s) \in Nat
  BY <1>2, LenProperties
<1>5. SubSeq(a, 1, Len(s)) = s
  <2> HIDE DEF a, T
  <2>1. \A i \in 1..Len(s) : a[i] \in T
    BY <1>2, <1>3, ElementOfSeq
  <2>2. /\ SubSeq(a, 1, Len(s)) \in Seq(T)
        /\ Len(SubSeq(a, 1, Len(s))) = Len(s)
        /\ \A i \in 1..Len(s) : SubSeq(a, 1, Len(s))[i] = a[i]
    BY <2>1, <1>4, SubSeqProperties
  <2> QED
    BY <2>2, <1>2, <1>3, SeqEqual
<1> QED
  BY <1>3, <1>5 DEF Sequence

(* Two sequences with the same length and the same elements are equal. *)
LEMMA SameSequence ==
    ASSUME NEW s, NEW t, Sequence(s), Sequence(t), Len(s) = Len(t), \A i \in 1..Len(s) : s[i] = t[i]
    PROVE  s = t
<1>1. PICK S : s \in Seq(S)
  BY DEF Sequence
<1>2. PICK T : t \in Seq(T)
  BY DEF Sequence
<1>3. s \in Seq(S \cup T) /\ t \in Seq(S \cup T)
  BY <1>1, <1>2, SeqMonotonic
<1> QED
  BY <1>3, SeqEqual

(* The piece of a sequence between two cursors. *)
LEMMA PieceIs ==
    ASSUME NEW S, NEW s \in Seq(S), NEW a \in Nat, NEW b \in Nat, a <= b, b <= Len(s)
    PROVE  /\ SubSeq(s, a + 1, b) \in Seq(S)
           /\ Len(SubSeq(s, a + 1, b)) = b - a
           /\ \A i \in 1..b - a : SubSeq(s, a + 1, b)[i] = s[a + i]
<1>1. Len(s) \in Nat
  BY LenProperties
<1>2. \A i \in a + 1..b : s[i] \in S
  BY <1>1, ElementOfSeq
<1>3. /\ SubSeq(s, a + 1, b) \in Seq(S)
      /\ Len(SubSeq(s, a + 1, b)) = IF a + 1 <= b THEN b - (a + 1) + 1 ELSE 0
      /\ \A i \in 1..b - (a + 1) + 1 : SubSeq(s, a + 1, b)[i] = s[(a + 1) + i - 1]
  BY <1>2, SubSeqProperties
<1>4. Len(SubSeq(s, a + 1, b)) = b - a
  BY <1>3
<1>5. ASSUME NEW i \in 1..b - a PROVE SubSeq(s, a + 1, b)[i] = s[a + i]
  <2>1. i \in 1..b - (a + 1) + 1 /\ (a + 1) + i - 1 = a + i
    OBVIOUS
  <2> QED
    BY <1>3, <2>1
<1> QED
  BY <1>3, <1>4, <1>5

(* What is added at the end leaves the earlier pieces as they are. *)
LEMMA PieceOfConcat ==
    ASSUME NEW S, NEW s \in Seq(S), NEW t \in Seq(S), NEW a \in Nat, NEW b \in Nat,
           a <= b, b <= Len(s)
    PROVE  SubSeq(s \o t, a + 1, b) = SubSeq(s, a + 1, b)
<1>1. Len(s) \in Nat /\ Len(t) \in Nat
  BY LenProperties
<1>2. s \o t \in Seq(S) /\ Len(s \o t) = Len(s) + Len(t) /\ \A i \in 1..Len(s) : (s \o t)[i] = s[i]
  BY <1>1, ConcatProperties
<1> DEFINE u == s \o t
<1>3. u \in Seq(S) /\ b <= Len(u) /\ \A i \in 1..Len(s) : u[i] = s[i]
  BY <1>1, <1>2
<1> HIDE DEF u
<1>4. /\ SubSeq(u, a + 1, b) \in Seq(S) /\ Len(SubSeq(u, a + 1, b)) = b - a
      /\ \A i \in 1..b - a : SubSeq(u, a + 1, b)[i] = u[a + i]
  BY <1>3, PieceIs
<1>5. /\ SubSeq(s, a + 1, b) \in Seq(S) /\ Len(SubSeq(s, a + 1, b)) = b - a
      /\ \A i \in 1..b - a : SubSeq(s, a + 1, b)[i] = s[a + i]
  BY PieceIs
<1>6. \A i \in 1..b - a : SubSeq(u, a + 1, b)[i] = SubSeq(s, a + 1, b)[i]
  <2>1. \A i \in 1..b - a : a + i \in 1..Len(s)
    BY <1>1
  <2> QED
    BY <2>1, <1>3, <1>4, <1>5
<1>7. SubSeq(u, a + 1, b) = SubSeq(s, a + 1, b)
  BY <1>4, <1>5, <1>6, SeqEqual
<1> QED
  BY <1>7 DEF u

(* ... and is the last piece itself. *)
LEMMA PieceAdded ==
    ASSUME NEW S, NEW s \in Seq(S), NEW t \in Seq(S)
    PROVE  SubSeq(s \o t, Len(s) + 1, Len(s) + Len(t)) = t
<1>1. Len(s) \in Nat /\ Len(t) \in Nat
  BY LenProperties
<1>2. /\ s \o t \in Seq(S) /\ Len(s \o t) = Len(s) + Len(t)
      /\ \A i \in 1..Len(s) + Len(t) : (s \o t)[i] = IF i <= Len(s) THEN s[i] ELSE t[i - Len(s)]
  BY ConcatProperties
<1> DEFINE u == s \o t
           a == Len(s)
           b == Len(s) + Len(t)
<1>3. \A i \in 1..Len(t) : u[a + i] = t[i]
  <2> SUFFICES ASSUME NEW i \in 1..Len(t) PROVE u[a + i] = t[i]
    OBVIOUS
  <2>1. a + i \in 1..Len(s) + Len(t) /\ ~(a + i <= Len(s)) /\ (a + i) - Len(s) = i
    BY <1>1
  <2> QED
    BY <2>1, <1>2
<1>4. u \in Seq(S) /\ a \in Nat /\ b \in Nat /\ a <= b /\ b <= Len(u) /\ b - a = Len(t)
  BY <1>1, <1>2
<1> HIDE DEF u, a, b
<1>5. /\ SubSeq(u, a + 1, b) \in Seq(S) /\ Len(SubSeq(u, a + 1, b)) = b - a
      /\ \A i \in 1..b - a : SubSeq(u, a + 1, b)[i] = u[a + i]
  BY <1>4, PieceIs
<1>6. SubSeq(u, a + 1, b) = t
  BY <1>3, <1>4, <1>5, SeqEqual
<1> QED
  BY <1>6 DEF u, a, b

(* A piece of a prefix is a piece of the whole. *)
LEMMA PieceOfPrefix ==
    ASSUME NEW S, NEW s \in Seq(S), NEW m \in Nat, m <= Len(s), NEW a \in Nat, NEW b \in Nat,
           a <= b, b <= m
    PROVE  SubSeq(SubSeq(s, 1, m), a + 1, b) = SubSeq(s, a + 1, b)
<1>1. Len(s) \in Nat
  BY LenProperties
<1> DEFINE p == SubSeq(s, 1, m)
<1>2. p \in Seq(S) /\ Len(p) = m /\ \A i \in 1..m : p[i] = s[i]
  <2>1. /\ SubSeq(s, 0 + 1, m) \in Seq(S) /\ Len(SubSeq(s, 0 + 1, m)) = m - 0
        /\ \A i \in 1..m - 0 : SubSeq(s, 0 + 1, m)[i] = s[0 + i]
    BY PieceIs
  <2>2. 0 + 1 = 1 /\ m - 0 = m /\ \A i \in 1..m : 0 + i = i
    OBVIOUS
  <2> QED
    BY <2>1, <2>2
<1> HIDE DEF p
<1>3. /\ SubSeq(p, a + 1, b) \in Seq(S) /\ Len(SubSeq(p, a + 1, b)) = b - a
      /\ \A i \in 1..b - a : SubSeq(p, a + 1, b)[i] = p[a + i]
  BY <1>2, PieceIs
<1>4. /\ SubSeq(s, a + 1, b) \in Seq(S) /\ Len(SubSeq(s, a + 1, b)) = b - a
      /\ \A i \in 1..b - a : SubSeq(s, a + 1, b)[i] = s[a + i]
  BY <1>1, PieceIs
<1>5. \A i \in 1..b - a : SubSeq(p, a + 1, b)[i] = SubSeq(s, a + 1, b)[i]
  <2>1. \A i \in 1..b - a : a + i \in 1..m
    OBVIOUS
  <2> QED
    BY <2>1, <1>2, <1>3, <1>4
<1>6. SubSeq(p, a + 1, b) = SubSeq(s, a + 1, b)
  BY <1>3, <1>4, <1>5, SeqEqual
<1> QED
  BY <1>6 DEF p

(* The start of a piece. *)
LEMMA StartOfPiece ==
    ASSUME NEW S, NEW s \in Seq(S), NEW a \in Nat, NEW c \in Nat, NEW n \in Nat,
           n <= c, a + c <= Len(s)
    PROVE  SubSeq(SubSeq(s, a + 1, a + c), 1, n) = SubSeq(s, a + 1, a + n)
<1>1. Len(s) \in Nat
  BY LenProperties
<1> DEFINE p == SubSeq(s, a + 1, a + c)
<1>2. p \in Seq(S) /\ Len(p) = c /\ \A i \in 1..c : p[i] = s[a + i]
  <2>1. /\ p \in Seq(S) /\ Len(p) = (a + c) - a
        /\ \A i \in 1..(a + c) - a : p[i] = s[a + i]
    BY <1>1, a + c \in Nat, a <= a + c, PieceIs
  <2> QED
    BY <2>1, (a + c) - a = c
<1> HIDE DEF p
<1>3. /\ SubSeq(p, 0 + 1, n) \in Seq(S) /\ Len(SubSeq(p, 0 + 1, n)) = n - 0
      /\ \A i \in 1..n - 0 : SubSeq(p, 0 + 1, n)[i] = p[0 + i]
  BY <1>2, PieceIs
<1>4. /\ SubSeq(s, a + 1, a + n) \in Seq(S) /\ Len(SubSeq(s, a + 1, a + n)) = (a + n) - a
      /\ \A i \in 1..(a + n) - a : SubSeq(s, a + 1, a + n)[i] = s[a + i]
  BY <1>1, a + n \in Nat, a <= a + n, a + n <= Len(s), PieceIs
<1>5. 0 + 1 = 1 /\ n - 0 = n /\ (a + n) - a = n /\ \A i \in 1..n : 0 + i = i /\ i \in 1..c
  OBVIOUS
<1>6. SubSeq(p, 1, n) = SubSeq(s, a + 1, a + n)
  BY <1>2, <1>3, <1>4, <1>5, SeqEqual
<1> QED
  BY <1>6 DEF p

-----------------------------------------------------------------------------
(* Induction up to a bound, and functions defined by recursion up to a bound. *)

(* f starts at `start` in S and follows the steps of G up to n. *)
Solves(f, S, n, start, G) ==
    f \in [0..n -> S] /\ f[0] = start /\ \A k \in 1..n : f[k] = G[k][f[k - 1]]

(* A recursive definition whose steps stay in S has a solution. *)
LEMMA Recursion ==
    ASSUME NEW S, NEW n \in Nat, NEW start \in S, NEW G \in [1..n -> [S -> S]]
    PROVE  \E f : Solves(f, S, n, start, G)
<1> DEFINE T == {m \in Nat : \E f \in [0..m -> S] :
                     f[0] = start /\ \A k \in 1..n : k <= m => f[k] = G[k][f[k - 1]]}
<1>1. 0 \in T
  <2> DEFINE f == [i \in 0..0 |-> start]
  <2>1. f \in [0..0 -> S] /\ f[0] = start /\ \A k \in 1..n : ~(k <= 0)
    OBVIOUS
  <2> QED
    BY <2>1
<1>2. ASSUME NEW m \in 1..n, m - 1 \in T PROVE m \in T
  <2>1. PICK f \in [0..m - 1 -> S] :
            f[0] = start /\ \A k \in 1..n : k <= m - 1 => f[k] = G[k][f[k - 1]]
    BY <1>2
  <2> DEFINE g == [i \in 0..m |-> IF i = m THEN G[m][f[m - 1]] ELSE f[i]]
  <2>2. G[m] \in [S -> S] /\ f[m - 1] \in S
    BY m - 1 \in 0..m - 1
  <2>3. g \in [0..m -> S]
    <3>1. \A i \in 0..m : i # m => i \in 0..m - 1
      OBVIOUS
    <3> QED
      BY <2>2, <3>1
  <2>4. g[0] = start
    BY <2>1, 0 \in 0..m, 0 # m
  <2>5. ASSUME NEW k \in 1..n, k <= m PROVE g[k] = G[k][g[k - 1]]
    <3>1. k \in 0..m /\ k - 1 \in 0..m /\ k - 1 # m
      BY <2>5
    <3>2. g[k - 1] = f[k - 1]
      BY <3>1
    <3>3. CASE k = m
      BY <3>1, <3>2, <3>3
    <3>4. CASE k # m
      <4>1. k <= m - 1 /\ g[k] = f[k]
        BY <2>5, <3>1, <3>4
      <4> QED
        BY <4>1, <2>1, <3>2
    <3> QED
      BY <3>3, <3>4
  <2> HIDE DEF g
  <2> QED
    BY <2>3, <2>4, <2>5
<1>3. n \in T
  <2> HIDE DEF T
  <2> QED
    BY <1>1, <1>2, UpTo, n \in 0..n
<1>4. PICK f \in [0..n -> S] :
          f[0] = start /\ \A k \in 1..n : k <= n => f[k] = G[k][f[k - 1]]
  BY <1>3
<1>5. Solves(f, S, n, start, G)
  BY <1>4 DEF Solves
<1> QED
  BY <1>5

-----------------------------------------------------------------------------
(* The extension field *)

(* Zero is an element. *)
LEMMA ZeroIs == EZero \in EF
BY TranscriptAssumption DEF EF, EZero

(* FieldAssumption, one law at a time. *)
LEMMA FieldIs ==
    /\ EOne \in EF
    /\ \A a, b \in EF : EAdd(a, b) \in EF /\ ESub(a, b) \in EF /\ EMul(a, b) \in EF
    /\ \A a \in EF : EHalf(a) \in EF
    /\ \A a, b \in EF : EAdd(a, b) = EAdd(b, a) /\ EMul(a, b) = EMul(b, a)
    /\ \A a, b \in EF : ESub(EAdd(a, b), b) = a /\ EAdd(ESub(a, b), b) = a
    /\ \A a \in EF : EAdd(EZero, a) = a /\ EMul(EOne, a) = a /\ EHalf(EAdd(a, a)) = a
    /\ \A a, b, c \in EF : EAdd(EAdd(a, b), c) = EAdd(a, EAdd(b, c))
    /\ \A a, b, c \in EF : EMul(a, EAdd(b, c)) = EAdd(EMul(a, b), EMul(a, c))
<1>1. EOne \in EF
  BY FieldAssumption
<1>2. \A a, b \in EF : {EAdd(a, b), ESub(a, b), EMul(a, b), EHalf(a)} \subseteq EF
  BY FieldAssumption
<1>3. \A a, b \in EF : EAdd(a, b) \in EF /\ ESub(a, b) \in EF /\ EMul(a, b) \in EF /\ EHalf(a) \in EF
  BY <1>2
<1>4. \A a, b \in EF : EAdd(a, b) = EAdd(b, a) /\ EMul(a, b) = EMul(b, a)
  BY FieldAssumption
<1>5. \A a, b \in EF : ESub(EAdd(a, b), b) = a /\ EAdd(ESub(a, b), b) = a
  BY FieldAssumption
<1>6. \A a \in EF : EAdd(EZero, a) = a /\ EMul(EOne, a) = a /\ EHalf(EAdd(a, a)) = a
  BY FieldAssumption
<1>7. \A a, b, c \in EF : EAdd(EAdd(a, b), c) = EAdd(a, EAdd(b, c))
  BY FieldAssumption
<1>8. \A a, b, c \in EF : EMul(a, EAdd(b, c)) = EAdd(EMul(a, b), EMul(a, c))
  BY FieldAssumption
<1> QED
  BY <1>1, <1>3, <1>4, <1>5, <1>6, <1>7, <1>8

(* The sums of the first coefficients, one more at a time. *)
PartialSums(coeffs, f) ==
    /\ f \in [0..Len(coeffs) -> EF]
    /\ f[0] = EZero
    /\ \A k \in 1..Len(coeffs) : f[k] = EAdd(f[k - 1], coeffs[k])

(* The recursion of ESum has a solution, and ESum is where it ends. *)
LEMMA ESumIs ==
    ASSUME NEW coeffs \in Seq(EF)
    PROVE  \E f : PartialSums(coeffs, f) /\ ESum(coeffs) = f[Len(coeffs)]
<1> DEFINE n == Len(coeffs)
<1>1. n \in Nat /\ \A k \in 1..n : coeffs[k] \in EF
  BY LenProperties, ElementOfSeq
<1> HIDE DEF n
<1> DEFINE G == [k \in 1..n |-> [x \in EF |-> EAdd(x, coeffs[k])]]
<1>2. G \in [1..n -> [EF -> EF]]
  <2>1. \A k \in 1..n : \A x \in EF : EAdd(x, coeffs[k]) \in EF
    BY <1>1, FieldAssumption
  <2> QED
    BY <2>1
<1>3. PICK f : Solves(f, EF, n, EZero, G)
  <2> HIDE DEF G
  <2> QED
    BY <1>1, <1>2, ZeroIs, Recursion
<1>4. ASSUME NEW k \in 1..n PROVE f[k] = EAdd(f[k - 1], coeffs[k])
  <2>1. k - 1 \in 0..n
    BY <1>1
  <2>2. f[k - 1] \in EF /\ f[k] = G[k][f[k - 1]] /\ G[k] = [x \in EF |-> EAdd(x, coeffs[k])]
    BY <1>3, <2>1 DEF Solves
  <2> QED
    BY <2>2
<1>5. f = [k \in 0..n |-> IF k = 0 THEN EZero ELSE EAdd(f[k - 1], coeffs[k])]
  <2>1. \A k \in 0..n : k # 0 => k \in 1..n
    BY <1>1
  <2> QED
    BY <1>3, <1>4, <2>1 DEF Solves
<1> DEFINE sum == CHOOSE g : g = [k \in 0..n |-> IF k = 0 THEN EZero ELSE EAdd(g[k - 1], coeffs[k])]
<1>6. sum = [k \in 0..n |-> IF k = 0 THEN EZero ELSE EAdd(sum[k - 1], coeffs[k])]
  BY <1>5
<1>7. ESum(coeffs) = sum[n]
  BY DEF ESum, n
<1> HIDE DEF sum, G
<1>8. sum[0] = EZero /\ \A k \in 1..n : sum[k] = EAdd(sum[k - 1], coeffs[k])
  <2>1. 0 \in 0..n /\ \A k \in 1..n : k \in 0..n /\ k # 0
    BY <1>1
  <2> QED
    BY <1>6, <2>1
<1>9. \A k \in 0..n : sum[k] \in EF
  <2> DEFINE T == {k \in 0..n : sum[k] \in EF}
  <2>1. 0 \in T
    BY <1>1, <1>8, ZeroIs
  <2>2. ASSUME NEW k \in 1..n, k - 1 \in T PROVE k \in T
    <3>1. sum[k - 1] \in EF /\ coeffs[k] \in EF /\ sum[k] = EAdd(sum[k - 1], coeffs[k]) /\ k \in 0..n
      BY <2>2, <1>1, <1>8
    <3>2. EAdd(sum[k - 1], coeffs[k]) \in EF
      BY <3>1, FieldIs
    <3> QED
      BY <3>1, <3>2
  <2>3. \A k \in 0..n : k \in T
    <3> HIDE DEF T
    <3> QED
      BY <1>1, <2>1, <2>2, UpTo
  <2> QED
    BY <2>3
<1>10. sum \in [0..n -> EF]
  BY <1>6, <1>9
<1> QED
  BY <1>7, <1>8, <1>10 DEF n, PartialSums

(* The two laws with three operands. *)
LEMMA Associative == \A a, b, c \in EF : EAdd(EAdd(a, b), c) = EAdd(a, EAdd(b, c))
BY FieldIs

LEMMA Distributive == \A a, b, c \in EF : EMul(a, EAdd(b, c)) = EAdd(EMul(a, b), EMul(a, c))
BY FieldIs

(* Adding nothing, a multiple of nothing, and four terms in another order. *)
LEMMA Adding ==
    /\ \A a \in EF : EAdd(a, EZero) = a /\ EMul(a, EZero) = EZero
    /\ \A p, q, r, s \in EF : EAdd(EAdd(p, q), EAdd(r, s)) = EAdd(EAdd(p, r), EAdd(q, s))
    /\ \A a, b, c \in EF : EMul(EAdd(a, b), c) = EAdd(EMul(a, c), EMul(b, c))
<1>1. ASSUME NEW a \in EF PROVE EAdd(a, EZero) = a
  BY FieldIs, ZeroIs
<1>2. ASSUME NEW a \in EF PROVE EMul(a, EZero) = EZero
  <2> DEFINE z == EMul(a, EZero)
  <2>1. z \in EF
    BY FieldIs, ZeroIs
  <2>2. EAdd(z, z) = z
    <3>1. EMul(a, EAdd(EZero, EZero)) = EAdd(z, z)
      BY FieldIs, ZeroIs
    <3> QED
      BY <3>1, <1>1, ZeroIs
  <2> HIDE DEF z
  <2>3. ESub(EAdd(z, z), z) = z /\ ESub(EAdd(EZero, z), z) = EZero /\ EAdd(EZero, z) = z
    BY <2>1, FieldIs, ZeroIs
  <2>4. z = EZero
    BY <2>2, <2>3
  <2> QED
    BY <2>4 DEF z
<1>3. ASSUME NEW p \in EF, NEW q \in EF, NEW r \in EF, NEW s \in EF
      PROVE  EAdd(EAdd(p, q), EAdd(r, s)) = EAdd(EAdd(p, r), EAdd(q, s))
  <2>1. EAdd(r, s) \in EF /\ EAdd(q, s) \in EF
    BY FieldIs
  <2>2. EAdd(EAdd(p, q), EAdd(r, s)) = EAdd(p, EAdd(q, EAdd(r, s)))
    BY <2>1, FieldIs
  <2>3. EAdd(q, EAdd(r, s)) = EAdd(EAdd(q, r), s) /\ EAdd(q, r) = EAdd(r, q)
    BY FieldIs
  <2>4. EAdd(EAdd(r, q), s) = EAdd(r, EAdd(q, s))
    BY FieldIs
  <2>5. EAdd(p, EAdd(r, EAdd(q, s))) = EAdd(EAdd(p, r), EAdd(q, s))
    BY <2>1, FieldIs
  <2> QED
    BY <2>2, <2>3, <2>4, <2>5
<1>4. ASSUME NEW a \in EF, NEW b \in EF, NEW c \in EF
      PROVE  EMul(EAdd(a, b), c) = EAdd(EMul(a, c), EMul(b, c))
  <2>1. EAdd(a, b) \in EF
    BY FieldIs
  <2>2. EMul(EAdd(a, b), c) = EMul(c, EAdd(a, b))
    BY <2>1, FieldIs
  <2>3. EMul(c, EAdd(a, b)) = EAdd(EMul(c, a), EMul(c, b))
    BY FieldIs
  <2>4. EMul(c, a) = EMul(a, c) /\ EMul(c, b) = EMul(b, c)
    BY FieldIs
  <2> QED
    BY <2>2, <2>3, <2>4
<1> QED
  BY <1>1, <1>2, <1>3, <1>4

(* A sum is its first term and the sum of the others. *)
LEMMA SumOfHead ==
    ASSUME NEW coeffs \in Seq(EF), coeffs # <<>>
    PROVE  /\ coeffs[1] \in EF
           /\ ESum(Tail(coeffs)) \in EF
           /\ ESum(coeffs) = EAdd(coeffs[1], ESum(Tail(coeffs)))
<1> DEFINE n == Len(coeffs)
           rest == Tail(coeffs)
           m == Len(rest)
           c == coeffs[1]
<1>1. n \in Nat /\ n # 0 /\ \A k \in 1..n : coeffs[k] \in EF
  BY LenProperties, ElementOfSeq, EmptySeq
<1>2. rest \in Seq(EF) /\ m = n - 1 /\ \A k \in 1..m : rest[k] = coeffs[k + 1]
  BY HeadTailProperties
<1>3. PICK f : PartialSums(coeffs, f) /\ ESum(coeffs) = f[n]
  BY ESumIs
<1> HIDE DEF rest
<1>4. PICK g : PartialSums(rest, g) /\ ESum(rest) = g[m]
  BY <1>2, ESumIs
<1> HIDE DEF n, m
<1>5. /\ f[0] = EZero /\ \A k \in 1..n : f[k] = EAdd(f[k - 1], coeffs[k])
      /\ g[0] = EZero /\ \A k \in 1..m : g[k] = EAdd(g[k - 1], rest[k])
      /\ \A k \in 0..m : g[k] \in EF
  BY <1>3, <1>4 DEF PartialSums, n, m
<1>6. c \in EF /\ m \in Nat /\ n = m + 1
  BY <1>1, <1>2
<1> HIDE DEF c
<1> DEFINE T == {k \in 0..m : f[k + 1] = EAdd(c, g[k])}
<1>7. 0 \in T
  <2>1. f[1] = EAdd(EZero, c)
    BY <1>5, <1>6, 1 \in 1..n, 1 - 1 = 0 DEF c
  <2>2. EAdd(EZero, c) = EAdd(c, EZero)
    BY <1>6, FieldIs, ZeroIs
  <2> QED
    BY <2>1, <2>2, <1>5, <1>6
<1>8. ASSUME NEW k \in 1..m, k - 1 \in T PROVE k \in T
  <2>1. k \in 0..m /\ k \in 1..n /\ k + 1 \in 1..n /\ (k - 1) + 1 = k /\ (k + 1) - 1 = k /\ k - 1 \in 0..m
    BY <1>6
  <2>2. f[k] = EAdd(c, g[k - 1])
    BY <1>8, <2>1
  <2>3. f[k + 1] = EAdd(f[k], coeffs[k + 1]) /\ g[k] = EAdd(g[k - 1], coeffs[k + 1])
    BY <1>2, <1>5, <2>1
  <2>4. EAdd(EAdd(c, g[k - 1]), coeffs[k + 1]) = EAdd(c, EAdd(g[k - 1], coeffs[k + 1]))
    <3>1. g[k - 1] \in EF /\ coeffs[k + 1] \in EF
      BY <1>1, <1>5, <2>1
    <3> QED
      BY <1>6, <3>1, Associative
  <2> QED
    BY <2>1, <2>2, <2>3, <2>4
<1>9. m \in T
  <2> HIDE DEF T
  <2> QED
    BY <1>6, <1>7, <1>8, UpTo, m \in 0..m
<1> QED
  BY <1>3, <1>4, <1>5, <1>6, <1>9, m \in 0..m DEF rest, c

(* (1 - alpha) + (2 alpha - 1) = alpha. *)
LEMMA CoefficientsOfExpansion ==
    ASSUME NEW alpha \in EF
    PROVE  /\ ESub(EOne, alpha) \in EF
           /\ ESub(EAdd(alpha, alpha), EOne) \in EF
           /\ EAdd(ESub(EOne, alpha), ESub(EAdd(alpha, alpha), EOne)) = alpha
<1> DEFINE u == ESub(EOne, alpha)
           w == EAdd(alpha, alpha)
           v == ESub(w, EOne)
<1>1. EOne \in EF /\ w \in EF /\ u \in EF
  BY FieldIs
<1>2. v \in EF
  BY <1>1, FieldIs
<1>3. EAdd(u, alpha) = EOne
  BY <1>1, FieldIs
<1> DEFINE x == v
<1>4. EAdd(v, EOne) = w
  BY <1>1, FieldIs
<1>5. EAdd(u, EAdd(alpha, alpha)) = EAdd(EAdd(u, alpha), alpha)
  BY <1>1, FieldIs
<1> HIDE DEF u, v, w
<1>6. EAdd(EAdd(u, v), EOne) = EAdd(u, EAdd(v, EOne))
  BY <1>1, <1>2, FieldIs
<1>7. EAdd(EOne, alpha) = EAdd(alpha, EOne)
  BY <1>1, FieldIs
<1>8. EAdd(EAdd(u, v), EOne) = EAdd(alpha, EOne)
  BY <1>3, <1>4, <1>5, <1>6, <1>7 DEF w
<1>9. EAdd(u, v) \in EF
  BY <1>1, <1>2, FieldIs
<1>10. ESub(EAdd(EAdd(u, v), EOne), EOne) = EAdd(u, v) /\ ESub(EAdd(alpha, EOne), EOne) = alpha
  BY <1>1, <1>9, FieldIs
<1>11. EAdd(u, v) = alpha
  BY <1>8, <1>10
<1> QED
  BY <1>1, <1>2, <1>11 DEF u, v, w

(* What expand_bare_to_full returns, and that it multiplies the sum by alpha:  *)
(* (1 - alpha) h(0) + alpha h(1) is what the full polynomial claims.           *)
LEMMA ExpansionIs ==
    ASSUME NEW bare \in Seq(EF), bare # <<>>, NEW alpha \in EF
    PROVE  LET full == ExpandBareToFull(bare, alpha)
           IN  /\ full \in Seq(EF)
               /\ Len(full) = Len(bare) + 1
               /\ full[1] = EMul(ESub(EOne, alpha), bare[1])
               /\ ESum(full) = EMul(alpha, ESum(bare))
<1> DEFINE c0 == ESub(EOne, alpha)
           c1 == ESub(EAdd(alpha, alpha), EOne)
           n == Len(bare)
           full == ExpandBareToFull(bare, alpha)
<1>1. n \in Nat /\ n # 0 /\ \A k \in 1..n : bare[k] \in EF
  BY LenProperties, ElementOfSeq, EmptySeq
<1>2. full = [k \in 1..n + 1 |->
                 EAdd(IF k <= n THEN EMul(c0, bare[k]) ELSE EZero,
                      IF k > 1 THEN EMul(c1, bare[k - 1]) ELSE EZero)]
  BY DEF ExpandBareToFull
<1>3. c0 \in EF /\ c1 \in EF /\ EAdd(c0, c1) = alpha
  BY CoefficientsOfExpansion
<1> HIDE DEF c0, c1, n, full
<1>4. /\ full[1] = EMul(c0, bare[1])
      /\ full[n + 1] = EMul(c1, bare[n])
      /\ \A k \in 2..n : full[k] = EAdd(EMul(c0, bare[k]), EMul(c1, bare[k - 1]))
  <2>1. 1 \in 1..n + 1 /\ 1 <= n /\ n + 1 \in 1..n + 1 /\ ~(n + 1 <= n) /\ n + 1 > 1 /\ (n + 1) - 1 = n
    BY <1>1
  <2>2. full[1] = EAdd(EMul(c0, bare[1]), EZero)
    BY <1>2, <2>1
  <2>3. full[n + 1] = EAdd(EZero, EMul(c1, bare[n]))
    BY <1>2, <2>1
  <2>4. EMul(c0, bare[1]) \in EF /\ EMul(c1, bare[n]) \in EF
    <3>1. bare[1] \in EF /\ bare[n] \in EF
      BY <1>1
    <3> QED
      BY <1>3, <3>1, FieldIs
  <2>5. \A k \in 2..n : k \in 1..n + 1 /\ k <= n /\ k > 1
    BY <1>1
  <2> QED
    BY <1>2, <2>2, <2>3, <2>4, <2>5, Adding, FieldIs
<1>5. \A k \in 1..n + 1 : full[k] \in EF
  <2>1. \A k \in 1..n + 1 : k = 1 \/ k = n + 1 \/ k \in 2..n
    BY <1>1
  <2>2. bare[1] \in EF /\ bare[n] \in EF /\ \A k \in 2..n : bare[k] \in EF /\ bare[k - 1] \in EF
    BY <1>1
  <2>3. EMul(c0, bare[1]) \in EF /\ EMul(c1, bare[n]) \in EF
    BY <1>3, <2>2, FieldIs
  <2>4. \A k \in 2..n : EAdd(EMul(c0, bare[k]), EMul(c1, bare[k - 1])) \in EF
    BY <1>3, <2>2, FieldIs
  <2> QED
    BY <1>4, <2>1, <2>3, <2>4
<1>6. full \in [1..n + 1 -> EF]
  BY <1>2, <1>5
<1>7. full \in Seq(EF) /\ Len(full) = n + 1
  BY <1>1, <1>6, n + 1 \in Nat, FunctionIsSequence
<1>8. PICK f : PartialSums(full, f) /\ ESum(full) = f[n + 1]
  BY <1>7, ESumIs
<1>9. PICK b : PartialSums(bare, b) /\ ESum(bare) = b[n]
  BY ESumIs DEF n
<1>10. /\ f[0] = EZero /\ \A k \in 1..n + 1 : f[k] = EAdd(f[k - 1], full[k])
       /\ b[0] = EZero /\ \A k \in 1..n : b[k] = EAdd(b[k - 1], bare[k])
       /\ \A k \in 0..n : b[k] \in EF
  BY <1>7, <1>8, <1>9 DEF PartialSums, n
<1> DEFINE Sum(k) == EAdd(EMul(c0, b[k]), EMul(c1, b[k - 1]))
           T == {k \in 0..n - 1 : f[k + 1] = Sum(k + 1)}
<1>11. 0 \in T
  <2>1. f[1] = EMul(c0, bare[1])
    <3>1. f[1] = EAdd(EZero, full[1])
      BY <1>1, <1>10, 1 \in 1..n + 1, 1 - 1 = 0
    <3>2. full[1] \in EF
      BY <1>1, <1>5, 1 \in 1..n + 1
    <3> QED
      BY <3>1, <3>2, <1>4, FieldIs
  <2>2. b[1] = bare[1] /\ b[1 - 1] = EZero
    <3>1. b[1] = EAdd(EZero, bare[1]) /\ bare[1] \in EF
      BY <1>1, <1>10, 1 \in 1..n, 1 - 1 = 0
    <3>2. EAdd(EZero, bare[1]) = bare[1]
      BY <3>1, FieldIs
    <3> QED
      BY <3>1, <3>2, <1>10, 1 - 1 = 0
  <2>3. EMul(c1, EZero) = EZero /\ EMul(c0, bare[1]) \in EF
    BY <1>1, <1>3, 1 \in 1..n, Adding, FieldIs
  <2>4. EAdd(EMul(c0, bare[1]), EZero) = EMul(c0, bare[1])
    BY <2>3, Adding
  <2>5. f[0 + 1] = Sum(0 + 1)
    BY <2>1, <2>2, <2>3, <2>4
  <2> QED
    BY <2>5, <1>1
<1>12. ASSUME NEW k \in 1..n - 1, k - 1 \in T PROVE k \in T
  <2>1. /\ k \in 0..n - 1 /\ (k - 1) + 1 = k /\ k \in 1..n /\ k + 1 \in 2..n /\ (k + 1) - 1 = k
        /\ k + 1 \in 1..n /\ k + 1 \in 1..n + 1 /\ k \in 0..n /\ k - 1 \in 0..n
    BY <1>1
  <2>2. f[k] = EAdd(EMul(c0, b[k]), EMul(c1, b[k - 1]))
    BY <1>12, <2>1
  <2>3. f[k + 1] = EAdd(f[k], EAdd(EMul(c0, bare[k + 1]), EMul(c1, bare[k])))
    BY <1>4, <1>10, <2>1
  <2>4. b[k] \in EF /\ b[k - 1] \in EF /\ bare[k + 1] \in EF /\ bare[k] \in EF
    BY <1>1, <1>10, <2>1
  <2>5. /\ EMul(c0, b[k]) \in EF /\ EMul(c1, b[k - 1]) \in EF
        /\ EMul(c0, bare[k + 1]) \in EF /\ EMul(c1, bare[k]) \in EF
    BY <1>3, <2>4, FieldIs
  <2>6. EAdd(EAdd(EMul(c0, b[k]), EMul(c1, b[k - 1])), EAdd(EMul(c0, bare[k + 1]), EMul(c1, bare[k])))
        = EAdd(EAdd(EMul(c0, b[k]), EMul(c0, bare[k + 1])), EAdd(EMul(c1, b[k - 1]), EMul(c1, bare[k])))
    BY <2>5, Adding
  <2>7. /\ EMul(c0, EAdd(b[k], bare[k + 1])) = EAdd(EMul(c0, b[k]), EMul(c0, bare[k + 1]))
        /\ EMul(c1, EAdd(b[k - 1], bare[k])) = EAdd(EMul(c1, b[k - 1]), EMul(c1, bare[k]))
    BY <1>3, <2>4, Distributive
  <2>8. b[k + 1] = EAdd(b[k], bare[k + 1]) /\ b[k] = EAdd(b[k - 1], bare[k])
    BY <1>10, <2>1
  <2>9. f[k + 1] = Sum(k + 1)
    BY <2>1, <2>2, <2>3, <2>6, <2>7, <2>8
  <2> QED
    BY <2>1, <2>9
<1>13. f[n] = Sum(n)
  <2>1. n - 1 \in T
    <3> HIDE DEF T
    <3>1. n - 1 \in Nat /\ n - 1 \in 0..n - 1
      BY <1>1
    <3> QED
      BY <3>1, <1>11, <1>12, UpTo
  <2>2. (n - 1) + 1 = n
    BY <1>1
  <2> QED
    BY <2>1, <2>2
<1>14. f[n + 1] = EMul(alpha, b[n])
  <2>1. /\ n \in 1..n /\ n + 1 \in 1..n + 1 /\ (n + 1) - 1 = n /\ n \in 0..n /\ n - 1 \in 0..n
    BY <1>1
  <2>2. b[n] \in EF /\ b[n - 1] \in EF /\ bare[n] \in EF /\ b[n] = EAdd(b[n - 1], bare[n])
    BY <1>1, <1>10, <2>1
  <2>3. f[n + 1] = EAdd(EAdd(EMul(c0, b[n]), EMul(c1, b[n - 1])), EMul(c1, bare[n]))
    BY <1>4, <1>10, <1>13, <2>1
  <2>4. EMul(c0, b[n]) \in EF /\ EMul(c1, b[n - 1]) \in EF /\ EMul(c1, bare[n]) \in EF
    BY <1>3, <2>2, FieldIs
  <2>5. f[n + 1] = EAdd(EMul(c0, b[n]), EAdd(EMul(c1, b[n - 1]), EMul(c1, bare[n])))
    BY <2>3, <2>4, FieldIs
  <2>6. EAdd(EMul(c1, b[n - 1]), EMul(c1, bare[n])) = EMul(c1, b[n])
    <3>1. EMul(c1, EAdd(b[n - 1], bare[n])) = EAdd(EMul(c1, b[n - 1]), EMul(c1, bare[n]))
      BY <1>3, <2>2, Distributive
    <3> QED
      BY <3>1, <2>2
  <2>7. EAdd(EMul(c0, b[n]), EMul(c1, b[n])) = EMul(EAdd(c0, c1), b[n])
    BY <1>3, <2>2, Adding
  <2> QED
    BY <1>3, <2>5, <2>6, <2>7
<1> QED
  BY <1>4, <1>7, <1>8, <1>9, <1>14 DEF full, c0, n

(* A sequence is its head and its tail. *)
LEMMA HeadAndTail ==
    ASSUME NEW S, NEW s \in Seq(S), s # <<>>
    PROVE  <<s[1]>> \o Tail(s) = s
<1>1. Len(s) \in Nat /\ Len(s) # 0 /\ s[1] \in S
  BY LenProperties, ElementOfSeq, EmptySeq, 1 \in 1..Len(s)
<1>2. /\ Tail(s) \in Seq(S) /\ Len(Tail(s)) = Len(s) - 1
      /\ \A i \in 1..Len(Tail(s)) : Tail(s)[i] = s[i + 1]
  BY HeadTailProperties
<1>3. <<s[1]>> \in Seq(S) /\ Len(<<s[1]>>) = 1 /\ <<s[1]>>[1] = s[1]
  BY <1>1
<1> DEFINE h == <<s[1]>>
           t == Tail(s)
<1>4. h \in Seq(S) /\ t \in Seq(S) /\ Len(h) = 1 /\ Len(t) = Len(s) - 1
  BY <1>2, <1>3
<1>5. h[1] = s[1] /\ \A i \in 1..Len(t) : t[i] = s[i + 1]
  BY <1>2
<1> HIDE DEF h, t
<1>6. /\ h \o t \in Seq(S) /\ Len(h \o t) = Len(h) + Len(t)
      /\ \A i \in 1..Len(h) + Len(t) : (h \o t)[i] = IF i <= Len(h) THEN h[i] ELSE t[i - Len(h)]
  BY <1>4, ConcatProperties
<1>7. Len(h \o t) = Len(s)
  BY <1>1, <1>4, <1>6
<1>8. ASSUME NEW i \in 1..Len(s) PROVE (h \o t)[i] = s[i]
  <2>1. i \in 1..1 + (Len(s) - 1) /\ (i <= 1 => i = 1) /\ (~(i <= 1) => i - 1 \in 1..Len(s) - 1 /\ (i - 1) + 1 = i)
    BY <1>1
  <2>2. i \in 1..Len(h) + Len(t)
    BY <1>4, <2>1
  <2> QED
    BY <1>4, <1>5, <1>6, <2>1, <2>2
<1>9. h \o t = s
  BY <1>6, <1>7, <1>8, SeqEqual
<1> QED
  BY <1>9 DEF h, t

(* The verifier finds the coefficient add_sumcheck_polynomial left out. *)
THEOREM SumcheckRecovers ==
    ASSUME NEW coeffs \in Seq(EF), coeffs # <<>>
    PROVE  <<EHalf(ESub(ClaimedSum(coeffs), ESum(Tail(coeffs))))>> \o Tail(coeffs) = coeffs
<1> DEFINE c == coeffs[1]
           r == ESum(Tail(coeffs))
<1>1. c \in EF /\ r \in EF /\ ESum(coeffs) = EAdd(c, r)
  BY SumOfHead
<1>2. ClaimedSum(coeffs) = EAdd(c, EAdd(c, r))
  BY <1>1 DEF ClaimedSum
<1> HIDE DEF c, r
<1>3. EAdd(c, EAdd(c, r)) = EAdd(EAdd(c, c), r)
  BY <1>1, Associative
<1>4. EAdd(c, c) \in EF
  BY <1>1, FieldIs
<1>5. ESub(EAdd(EAdd(c, c), r), r) = EAdd(c, c) /\ EHalf(EAdd(c, c)) = c
  BY <1>1, <1>4, FieldIs
<1>6. EHalf(ESub(ClaimedSum(coeffs), r)) = c
  BY <1>2, <1>3, <1>5
<1>7. <<c>> \o Tail(coeffs) = coeffs
  BY HeadAndTail DEF c
<1> QED
  BY <1>6, <1>7 DEF r

(* ... and the one left out of a polynomial with an eq factor. *)
THEOREM EqSumcheckRecovers ==
    ASSUME NEW bare \in Seq(EF), bare # <<>>, NEW alpha \in EF
    PROVE  LET claim == ClaimedSum(ExpandBareToFull(bare, alpha))
           IN  <<ESub(claim, EMul(alpha, ESum(Tail(bare))))>> \o Tail(bare) = bare
<1> DEFINE b == bare[1]
           r == ESum(Tail(bare))
           c0 == ESub(EOne, alpha)
           claim == ClaimedSum(ExpandBareToFull(bare, alpha))
<1>1. b \in EF /\ r \in EF /\ ESum(bare) = EAdd(b, r)
  BY SumOfHead
<1>2. claim = EAdd(EMul(c0, b), EMul(alpha, ESum(bare)))
  BY ExpansionIs DEF ClaimedSum
<1>3. c0 \in EF /\ EAdd(c0, alpha) = EOne
  BY FieldIs
<1> HIDE DEF b, r, c0, claim
<1>4. EMul(alpha, EAdd(b, r)) = EAdd(EMul(alpha, b), EMul(alpha, r))
  BY <1>1, Distributive
<1>5. EMul(c0, b) \in EF /\ EMul(alpha, b) \in EF /\ EMul(alpha, r) \in EF
  BY <1>1, <1>3, FieldIs
<1>6. claim = EAdd(EAdd(EMul(c0, b), EMul(alpha, b)), EMul(alpha, r))
  BY <1>1, <1>2, <1>4, <1>5, Associative
<1>7. EAdd(EMul(c0, b), EMul(alpha, b)) = EMul(EAdd(c0, alpha), b)
  BY <1>1, <1>3, Adding
<1>8. EMul(EOne, b) = b
  BY <1>1, FieldIs
<1>9. claim = EAdd(b, EMul(alpha, r))
  BY <1>3, <1>6, <1>7, <1>8
<1>10. ESub(EAdd(b, EMul(alpha, r)), EMul(alpha, r)) = b
  BY <1>1, <1>5, FieldIs
<1>11. <<b>> \o Tail(bare) = bare
  BY HeadAndTail DEF b
<1> QED
  BY <1>9, <1>10, <1>11 DEF r, claim

-----------------------------------------------------------------------------
(* Chunks and padding *)

(* The chunks that hold n scalars, and no more of them than that. *)
LEMMA ChunkCountIs ==
    /\ \A n \in Nat : ChunkCount(n) \in Nat /\ ChunkCount(n) * Rate \in Nat /\ n <= ChunkCount(n) * Rate
    /\ \A c \in Nat : ChunkCount(c * Rate) = c
    /\ ChunkCount(0) = 0 /\ ChunkCount(1) = 1
    /\ \A n \in Nat \ {0} : ChunkCount(n) > 0
<1>1. Rate \in Nat \ {0} /\ Dim \in Nat \ {0}
  BY ChallengerAssumption
<1>2. ASSUME NEW n \in Nat
      PROVE  ChunkCount(n) \in Nat /\ ChunkCount(n) * Rate \in Nat /\ n <= ChunkCount(n) * Rate
  <2> DEFINE x == n + Rate - 1
             q == x \div Rate
  <2>1. x \in Nat
    BY <1>1
  <2> HIDE DEF x
  <2>2. q \in Nat /\ x < q * Rate + Rate /\ q * Rate \in Nat
    BY <1>1, <2>1, SMTT(30)
  <2> HIDE DEF q
  <2>3. n <= q * Rate
    BY <1>1, <2>2 DEF x
  <2> QED
    BY <2>2, <2>3 DEF ChunkCount, q, x
<1>3. ASSUME NEW c \in Nat PROVE ChunkCount(c * Rate) = c
  <2>1. Rate - 1 \in 0..Rate - 1 /\ c * Rate \in Nat
    BY <1>1
  <2>2. (c * Rate + (Rate - 1)) \div Rate = c
    BY <1>1, <2>1, Quotient
  <2>3. c * Rate + Rate - 1 = c * Rate + (Rate - 1)
    BY <1>1, <2>1
  <2> QED
    BY <2>2, <2>3 DEF ChunkCount
<1>4. ChunkCount(0) = 0
  <2>1. 0 * Rate = 0
    BY <1>1
  <2> QED
    BY <1>3, <2>1
<1>5. ChunkCount(1) = 1
  <2>1. 0 \in 0..Rate - 1 /\ 1 * Rate + 0 = 1 + Rate - 1
    BY <1>1
  <2>2. (1 * Rate + 0) \div Rate = 1
    BY <1>1, <2>1, Quotient
  <2> QED
    BY <2>1, <2>2 DEF ChunkCount
<1>6. ASSUME NEW n \in Nat \ {0} PROVE ChunkCount(n) > 0
  <2>1. ChunkCount(n) \in Nat /\ n <= ChunkCount(n) * Rate
    BY <1>2
  <2>2. ChunkCount(n) # 0
    BY <1>1, <2>1, 0 * Rate = 0
  <2> QED
    BY <2>1, <2>2
<1> QED
  BY <1>2, <1>3, <1>4, <1>5, <1>6

(* The padded cells and chunks of a sequence are sequences. *)
LEMMA PaddingIs ==
    ASSUME NEW s \in Seq(F)
    PROVE  /\ PaddedCells(s) \in Seq(F)
           /\ Len(PaddedCells(s)) = ChunkCount(Len(s)) * Rate
           /\ \A i \in 1..Len(s) : PaddedCells(s)[i] = s[i]
           /\ \A i \in Len(s) + 1..ChunkCount(Len(s)) * Rate : PaddedCells(s)[i] = 0
           /\ PaddedChunks(s) \in Seq([1..Rate -> F])
           /\ Len(PaddedChunks(s)) = ChunkCount(Len(s))
<1> DEFINE n == Len(s)
           c == ChunkCount(n)
           m == c * Rate
<1>1. n \in Nat /\ \A i \in 1..n : s[i] \in F
  BY LenProperties, ElementOfSeq
<1>2. c \in Nat /\ m \in Nat /\ n <= m
  BY <1>1, ChunkCountIs
<1>3. 0 \in F /\ Rate \in Nat \ {0}
  BY TranscriptAssumption, ChallengerAssumption
<1>4. PaddedCells(s) = [i \in 1..m |-> IF i <= n THEN s[i] ELSE 0]
  BY DEF PaddedCells
<1>5. PaddedChunks(s) = [k \in 1..c |-> [i \in 1..Rate |->
          IF (k - 1) * Rate + i <= n THEN s[(k - 1) * Rate + i] ELSE 0]]
  BY DEF PaddedChunks
<1> HIDE DEF n, c, m
<1>6. PaddedCells(s) \in [1..m -> F]
  <2>1. \A i \in 1..m : i <= n => i \in 1..n
    BY <1>1, <1>2
  <2> QED
    BY <1>1, <1>3, <1>4, <2>1
<1>7. PaddedChunks(s) \in [1..c -> [1..Rate -> F]]
  <2>1. ASSUME NEW k \in 1..c, NEW i \in 1..Rate, (k - 1) * Rate + i <= n PROVE s[(k - 1) * Rate + i] \in F
    <3>1. (k - 1) * Rate \in Nat
      BY <1>2, <1>3
    <3>2. (k - 1) * Rate + i \in 1..n
      BY <1>1, <1>3, <2>1, <3>1
    <3> QED
      BY <1>1, <3>2
  <2> QED
    <3> DEFINE row(k) == [i \in 1..Rate |->
                             IF (k - 1) * Rate + i <= n THEN s[(k - 1) * Rate + i] ELSE 0]
    <3>1. \A k \in 1..c : row(k) \in [1..Rate -> F]
      BY <1>3, <2>1
    <3>2. PaddedChunks(s) = [k \in 1..c |-> row(k)]
      BY <1>5
    <3> HIDE DEF row
    <3> QED
      BY <3>1, <3>2
<1>8. PaddedCells(s) \in Seq(F) /\ Len(PaddedCells(s)) = m
  BY <1>2, <1>6, FunctionIsSequence
<1>9. PaddedChunks(s) \in Seq([1..Rate -> F]) /\ Len(PaddedChunks(s)) = c
  BY <1>2, <1>7, FunctionIsSequence
<1>10. /\ \A i \in 1..n : PaddedCells(s)[i] = s[i]
       /\ \A i \in n + 1..m : PaddedCells(s)[i] = 0
  BY <1>1, <1>2, <1>4
<1> QED
  BY <1>8, <1>9, <1>10 DEF n, c, m

(* Absorbing the padded cells is absorbing the scalars. *)
LEMMA PaddedOnce ==
    ASSUME NEW s \in Seq(F)
    PROVE  PaddedChunks(PaddedCells(s)) = PaddedChunks(s)
<1> DEFINE n == Len(s)
           c == ChunkCount(n)
           cells == PaddedCells(s)
<1>1. /\ cells \in Seq(F) /\ Len(cells) = c * Rate
      /\ \A i \in 1..n : cells[i] = s[i]
      /\ \A i \in n + 1..c * Rate : cells[i] = 0
  BY PaddingIs
<1>2. n \in Nat /\ c \in Nat /\ c * Rate \in Nat /\ n <= c * Rate /\ ChunkCount(c * Rate) = c
  <2>1. n \in Nat
    BY LenProperties
  <2> QED
    BY <2>1, ChunkCountIs
<1>3. Rate \in Nat \ {0}
  BY ChallengerAssumption
<1>4. PaddedChunks(s) = [k \in 1..c |-> [i \in 1..Rate |->
          IF (k - 1) * Rate + i <= n THEN s[(k - 1) * Rate + i] ELSE 0]]
  BY DEF PaddedChunks
<1>5. PaddedChunks(cells) = [k \in 1..ChunkCount(Len(cells)) |-> [i \in 1..Rate |->
          IF (k - 1) * Rate + i <= Len(cells) THEN cells[(k - 1) * Rate + i] ELSE 0]]
  BY DEF PaddedChunks
<1> HIDE DEF n, c, cells
<1>6. ASSUME NEW k \in 1..c, NEW i \in 1..Rate
      PROVE  (IF (k - 1) * Rate + i <= Len(cells) THEN cells[(k - 1) * Rate + i] ELSE 0)
             = IF (k - 1) * Rate + i <= n THEN s[(k - 1) * Rate + i] ELSE 0
  <2> DEFINE j == (k - 1) * Rate + i
  <2>1. j \in 1..c * Rate
    <3>1. k \in Nat /\ k - 1 \in Nat /\ k <= c
      BY <1>2
    <3>2. (k - 1) * Rate \in Nat /\ (k - 1) * Rate + Rate = k * Rate
      BY <1>3, <3>1, SMTT(30)
    <3>3. k * Rate <= c * Rate
      BY <1>2, <1>3, <3>1, Multiples
    <3> QED
      BY <1>2, <1>3, <3>2, <3>3
  <2> HIDE DEF j
  <2>2. j <= Len(cells)
    BY <1>1, <1>2, <2>1
  <2>3. CASE j <= n
    BY <1>1, <1>2, <2>1, <2>2, <2>3 DEF j
  <2>4. CASE ~(j <= n)
    <3>1. j \in n + 1..c * Rate
      BY <1>2, <2>1, <2>4
    <3> QED
      BY <1>1, <2>2, <2>4, <3>1 DEF j
  <2> QED
    BY <2>3, <2>4
<1>7. ChunkCount(Len(cells)) = c
  BY <1>1, <1>2
<1>8. PaddedChunks(cells) = PaddedChunks(s)
  BY <1>4, <1>5, <1>6, <1>7
<1> QED
  BY <1>8 DEF cells

(* flatten_scalars_to_base and back. *)
LEMMA PackFlatten ==
    ASSUME NEW coeffs \in Seq(EF)
    PROVE  /\ Flatten(coeffs) \in Seq(F)
           /\ Len(Flatten(coeffs)) = Len(coeffs) * Dim
           /\ Pack(Flatten(coeffs)) = coeffs
<1> DEFINE n == Len(coeffs)
           flat == Flatten(coeffs)
<1>1. n \in Nat /\ (\A k \in 1..n : coeffs[k] \in EF) /\ coeffs = [k \in 1..n |-> coeffs[k]]
  BY LenProperties, ElementOfSeq
<1>2. Dim \in Nat \ {0}
  BY ChallengerAssumption
<1>3. flat = [i \in 1..n * Dim |-> coeffs[(i - 1) \div Dim + 1][((i - 1) % Dim) + 1]]
  BY DEF Flatten
<1>4. Pack(flat) = [k \in 1..Len(flat) \div Dim |-> SubSeq(flat, (k - 1) * Dim + 1, k * Dim)]
  BY DEF Pack
<1> HIDE DEF n, flat
<1>5. n * Dim \in Nat
  BY <1>1, <1>2
<1>6. flat \in [1..n * Dim -> F]
  <2>1. ASSUME NEW i \in 1..n * Dim
        PROVE  (i - 1) \div Dim + 1 \in 1..n /\ ((i - 1) % Dim) + 1 \in 1..Dim
    <3> DEFINE q == (i - 1) \div Dim
               r == (i - 1) % Dim
    <3>1. i - 1 \in Nat /\ i - 1 < n * Dim
      BY <1>5
    <3>2. q \in Nat /\ r \in 0..Dim - 1 /\ i - 1 = q * Dim + r
      BY <1>2, <3>1, SMTT(30)
    <3> HIDE DEF q, r
    <3>3. q < n
      <4> SUFFICES ASSUME n <= q PROVE FALSE
        BY <1>1, <3>2
      <4>1. n * Dim <= q * Dim /\ q * Dim \in Nat
        BY <1>1, <1>2, <3>2, Multiples
      <4> QED
        BY <1>2, <1>5, <3>1, <3>2, <4>1
    <3>4. q + 1 \in 1..n /\ r + 1 \in 1..Dim
      BY <1>1, <1>2, <3>2, <3>3
    <3> QED
      BY <3>4 DEF q, r
  <2>2. \A i \in 1..n * Dim : coeffs[(i - 1) \div Dim + 1] \in [1..Dim -> F]
    BY <1>1, <2>1 DEF EF
  <2> QED
    BY <1>3, <2>1, <2>2
<1>7. flat \in Seq(F) /\ Len(flat) = n * Dim
  BY <1>5, <1>6, FunctionIsSequence
<1>8. ASSUME NEW k \in 1..n PROVE SubSeq(flat, (k - 1) * Dim + 1, k * Dim) = coeffs[k]
  <2> DEFINE a == (k - 1) * Dim
             b == k * Dim
             p == SubSeq(flat, a + 1, b)
  <2>1. a \in Nat /\ b \in Nat /\ b = a + Dim /\ b <= n * Dim
    <3>1. k \in Nat /\ k - 1 \in Nat /\ k <= n
      BY <1>1
    <3>2. a \in Nat /\ b \in Nat /\ b = a + Dim
      BY <1>2, <3>1, SMTT(30)
    <3> QED
      BY <1>1, <1>2, <3>1, <3>2, Multiples
  <2>2. ASSUME NEW i \in 1..Dim PROVE flat[a + i] = coeffs[k][i]
    <3>1. i - 1 \in 0..Dim - 1 /\ k - 1 \in Nat
      BY <1>1, <1>2
    <3>2. (a + (i - 1)) \div Dim = k - 1 /\ (a + (i - 1)) % Dim = i - 1
      BY <1>2, <3>1, Quotient
    <3> HIDE DEF a
    <3>3. (a + i) - 1 = a + (i - 1) /\ a + i \in 1..n * Dim /\ (k - 1) + 1 = k /\ (i - 1) + 1 = i
      <4> DEFINE cells == n * Dim
      <4>1. cells \in Nat /\ a + Dim <= cells /\ a \in Nat
        BY <1>5, <2>1
      <4> HIDE DEF cells
      <4>2. a + i \in 1..cells
        BY <1>2, <4>1
      <4> QED
        BY <1>1, <2>1, <4>2 DEF cells
    <3>4. flat[a + i] = coeffs[((a + i) - 1) \div Dim + 1][(((a + i) - 1) % Dim) + 1]
      BY <1>3, <3>3
    <3> QED
      BY <3>2, <3>3, <3>4
  <2> HIDE DEF a, b
  <2>3. p \in Seq(F) /\ Len(p) = Dim /\ \A i \in 1..Dim : p[i] = flat[a + i]
    <3> HIDE DEF flat
    <3>0. a \in Nat /\ b \in Nat /\ a <= b /\ b <= Len(flat) /\ flat \in Seq(F)
      BY <1>2, <1>7, <2>1
    <3>1. p \in Seq(F) /\ Len(p) = b - a /\ \A i \in 1..b - a : p[i] = flat[a + i]
      BY ONLY <3>0, PieceIs DEF p
    <3>2. b - a = Dim
      BY <1>2, <2>1
    <3> QED
      BY <3>1, <3>2
  <2> HIDE DEF p
  <2>4. p = [i \in 1..Dim |-> coeffs[k][i]]
    <3>1. p = [i \in 1..Dim |-> p[i]]
      BY <2>3, LenProperties
    <3> QED
      BY <2>2, <2>3, <3>1
  <2>5. p = coeffs[k]
    BY <1>1, <2>4 DEF EF
  <2> QED
    BY <2>5 DEF p, a, b
<1>9. Len(flat) \div Dim = n
  <2>1. (n * Dim + 0) \div Dim = n
    BY <1>1, <1>2, 0 \in 0..Dim - 1, Quotient
  <2> QED
    BY <1>5, <1>7, <2>1
<1>10. Pack(flat) = coeffs
  BY <1>1, <1>4, <1>8, <1>9
<1> QED
  BY <1>7, <1>10 DEF flat, n

-----------------------------------------------------------------------------
(* The openings of all batches *)

(* The first sequences of ss put together, one more at a time. *)
Joins(ss, g, S) ==
    /\ g \in [0..Len(ss) -> Seq(S)]
    /\ g[0] = <<>>
    /\ \A k \in 1..Len(ss) : g[k] = g[k - 1] \o ss[k]

(* The recursion of FlattenSeq has a solution, and FlattenSeq is where it ends. *)
LEMMA FlattenSeqIs ==
    ASSUME NEW S, NEW ss \in Seq(Seq(S))
    PROVE  \E g : Joins(ss, g, S) /\ FlattenSeq(ss) = g[Len(ss)]
<1> DEFINE n == Len(ss)
           U == Seq(S)
<1>1. n \in Nat /\ <<>> \in U /\ \A k \in 1..n : ss[k] \in U
  BY LenProperties, ElementOfSeq, EmptySeq
<1>2. \A x, y \in U : x \o y \in U
  BY ConcatProperties
<1>3. \A y \in U : <<>> \o y = y
  BY ConcatEmptySeq
<1> DEFINE flatten == CHOOSE f : f = [k \in 1..n |-> IF k = 1 THEN ss[k] ELSE f[k - 1] \o ss[k]]
<1>4. FlattenSeq(ss) = IF n = 0 THEN ss ELSE flatten[n]
  BY DEF FlattenSeq
<1>5. n = 0 => ss = <<>>
  BY EmptySeq
<1> HIDE DEF n, U
<1> DEFINE G == [k \in 1..n |-> [x \in U |-> x \o ss[k]]]
<1>6. G \in [1..n -> [U -> U]]
  BY <1>1, <1>2
<1>7. PICK g : Solves(g, U, n, <<>>, G)
  <2> HIDE DEF G
  <2> QED
    BY <1>1, <1>6, Recursion
<1>8. /\ g \in [0..n -> U] /\ g[0] = <<>>
      /\ \A k \in 1..n : g[k] = g[k - 1] \o ss[k]
  <2>1. g \in [0..n -> U] /\ g[0] = <<>> /\ \A k \in 1..n : g[k] = G[k][g[k - 1]]
    BY <1>7 DEF Solves
  <2>2. \A k \in 1..n : k - 1 \in 0..n /\ G[k] = [x \in U |-> x \o ss[k]]
    BY <1>1
  <2> HIDE DEF G
  <2>3. ASSUME NEW k \in 1..n PROVE g[k] = g[k - 1] \o ss[k]
    <3>1. k - 1 \in 0..n /\ G[k] = [x \in U |-> x \o ss[k]] /\ g[k] = G[k][g[k - 1]]
      BY <2>1, <2>2
    <3>2. g[k - 1] \in U
      BY <2>1, <3>1
    <3> QED
      BY <3>1, <3>2
  <2> QED
    BY <2>1, <2>3
<1>9. \A k \in 1..n : k - 1 \in 0..n /\ (k # 1 => k - 1 \in 1..n) /\ g[k - 1] \in U
  BY <1>1, <1>8
<1> DEFINE f == [k \in 1..n |-> g[k]]
<1>10. f = [k \in 1..n |-> IF k = 1 THEN ss[k] ELSE f[k - 1] \o ss[k]]
  <2>1. ASSUME NEW k \in 1..n PROVE f[k] = IF k = 1 THEN ss[k] ELSE f[k - 1] \o ss[k]
    <3>1. CASE k = 1
      <4>1. g[1] = <<>> \o ss[1] /\ ss[1] \in U
        BY <1>1, <1>8, <3>1, 1 - 1 = 0
      <4> QED
        BY <4>1, <1>3, <3>1
    <3>2. CASE k # 1
      <4>1. f[k] = g[k] /\ f[k - 1] = g[k - 1]
        BY <1>9, <3>2
      <4> QED
        BY <4>1, <1>8, <3>2
    <3> QED
      BY <3>1, <3>2
  <2> QED
    BY <2>1
<1>11. flatten = [k \in 1..n |-> IF k = 1 THEN ss[k] ELSE flatten[k - 1] \o ss[k]]
  BY <1>10
<1> HIDE DEF flatten
<1>16. ASSUME NEW k \in 1..n
       PROVE  flatten[k] = IF k = 1 THEN ss[k] ELSE flatten[k - 1] \o ss[k]
  <2> DEFINE step(i) == IF i = 1 THEN ss[i] ELSE flatten[i - 1] \o ss[i]
  <2>1. flatten = [i \in 1..n |-> step(i)]
    BY <1>11
  <2> HIDE DEF step
  <2>2. flatten[k] = step(k)
    BY <2>1
  <2> QED
    BY <2>2 DEF step
<1> DEFINE T == {k \in 0..n : k # 0 => flatten[k] = g[k]}
<1>12. 0 \in T
  BY <1>1
<1>13. ASSUME NEW k \in 1..n, k - 1 \in T PROVE k \in T
  <2>1. k \in 0..n /\ flatten[k] = IF k = 1 THEN ss[k] ELSE flatten[k - 1] \o ss[k]
    BY <1>1, <1>16
  <2>2. CASE k = 1
    <3>1. g[1] = <<>> \o ss[1] /\ ss[1] \in U
      BY <1>1, <1>8, <2>2, 1 - 1 = 0
    <3> QED
      BY <3>1, <1>3, <2>1, <2>2
  <2>3. CASE k # 1
    <3>1. k - 1 # 0
      BY <2>3
    <3>2. flatten[k - 1] = g[k - 1]
      BY <3>1, <1>13
    <3> QED
      BY <3>2, <1>8, <2>1, <2>3
  <2> QED
    BY <2>2, <2>3
<1>14. n \in T
  <2> HIDE DEF T
  <2> QED
    BY <1>1, <1>12, <1>13, UpTo, n \in 0..n
<1>15. FlattenSeq(ss) = g[n]
  BY <1>4, <1>5, <1>8, <1>14
<1> QED
  BY <1>8, <1>15 DEF Joins, n, U

(* One more sequence comes at the end. *)
LEMMA FlattenSeqAppend ==
    ASSUME NEW S, NEW ss \in Seq(Seq(S)), NEW x \in Seq(S)
    PROVE  FlattenSeq(ss) \in Seq(S) /\ FlattenSeq(Append(ss, x)) = FlattenSeq(ss) \o x
<1> DEFINE n == Len(ss)
           a == Append(ss, x)
<1>1. n \in Nat
  BY LenProperties
<1>2. a \in Seq(Seq(S)) /\ Len(a) = n + 1 /\ (\A i \in 1..n : a[i] = ss[i]) /\ a[n + 1] = x
  BY AppendProperties
<1> HIDE DEF a
<1>3. PICK g : Joins(ss, g, S) /\ FlattenSeq(ss) = g[n]
  BY FlattenSeqIs
<1>4. PICK h : Joins(a, h, S) /\ FlattenSeq(a) = h[n + 1]
  BY <1>2, FlattenSeqIs
<1> HIDE DEF n
<1>5. /\ g[0] = <<>> /\ h[0] = <<>> /\ g \in [0..n -> Seq(S)]
      /\ \A k \in 1..n : g[k] = g[k - 1] \o ss[k]
      /\ \A k \in 1..n + 1 : h[k] = h[k - 1] \o a[k]
  BY <1>2, <1>3, <1>4 DEF Joins, n
<1> DEFINE T == {k \in 0..n : g[k] = h[k]}
<1>6. 0 \in T
  BY <1>1, <1>5
<1>7. ASSUME NEW k \in 1..n, k - 1 \in T PROVE k \in T
  <2>1. k \in 0..n /\ k \in 1..n + 1
    BY <1>1
  <2> QED
    BY <1>2, <1>5, <1>7, <2>1
<1>8. n \in T
  <2> HIDE DEF T
  <2> QED
    BY <1>1, <1>6, <1>7, UpTo, n \in 0..n
<1>9. h[n + 1] = h[n] \o x
  <2>1. n + 1 \in 1..n + 1 /\ (n + 1) - 1 = n
    BY <1>1
  <2> QED
    BY <1>2, <1>5, <2>1
<1>10. g[n] \in Seq(S)
  BY <1>1, <1>5, n \in 0..n
<1> QED
  BY <1>3, <1>4, <1>8, <1>9, <1>10 DEF a

(* What is hinted, and what the proof carries of it. *)
Openings == UNION {{Opening(paths[k]) : k \in 1..Len(paths)} : paths \in Batches}
Pruned == {Merkle!Prune(paths) : paths \in Batches}

(* The openings of a hinted batch, in the order of the paths. *)
Opened(paths) == [k \in 1..Len(paths) |-> Opening(paths[k])]

(* A batch is restored to the openings of its paths, and there is one at least. *)
LEMMA BatchIs ==
    ASSUME NEW paths \in Batches
    PROVE  /\ Opened(paths) \in Seq(Openings)
           /\ Len(Opened(paths)) = Len(paths)
           /\ Len(paths) \in Nat \ {0}
           /\ OpeningsOf(Merkle!Prune(paths)) = Opened(paths)
           /\ Merkle!Restore(Merkle!Prune(paths)).ok
<1>1. /\ paths \in Seq(ToSet(paths)) /\ paths # <<>>
      /\ Merkle!Restore(Merkle!Prune(paths)).ok
      /\ OpeningsOf(Merkle!Prune(paths)) = [k \in 1..Len(paths) |-> Opening(paths[k])]
  BY BatchesAssumption
<1>2. Len(paths) \in Nat \ {0}
  BY <1>1, EmptySeq
<1>3. Opened(paths) \in [1..Len(paths) -> Openings]
  BY DEF Opened, Openings
<1>4. Opened(paths) \in Seq(Openings) /\ Len(Opened(paths)) = Len(paths)
  BY <1>2, <1>3, FunctionIsSequence
<1> QED
  BY <1>1, <1>2, <1>4 DEF Opened

(* The openings the verifier restores grow with each batch. *)
LEMMA AllOpeningsAppend ==
    ASSUME NEW batches \in Seq(Pruned), NEW paths \in Batches
    PROVE  /\ AllOpenings(batches) \in Seq(Openings)
           /\ AllOpenings(Append(batches, Merkle!Prune(paths))) = AllOpenings(batches) \o Opened(paths)
           /\ \A k \in 1..Len(batches) : Merkle!Restore(batches[k]).ok
<1> DEFINE n == Len(batches)
           x == Merkle!Prune(paths)
           a == Append(batches, x)
           ss == [k \in 1..n |-> OpeningsOf(batches[k])]
           tt == [k \in 1..Len(a) |-> OpeningsOf(a[k])]
<1>1. n \in Nat /\ x \in Pruned /\ \A k \in 1..n : batches[k] \in Pruned
  BY LenProperties, ElementOfSeq DEF Pruned
<1>2. \A p \in Pruned : OpeningsOf(p) \in Seq(Openings) /\ Merkle!Restore(p).ok
  BY BatchIs DEF Pruned
<1>3. a \in Seq(Pruned) /\ Len(a) = n + 1 /\ (\A i \in 1..n : a[i] = batches[i]) /\ a[n + 1] = x
  BY <1>1, AppendProperties
<1>4. AllOpenings(batches) = FlattenSeq(ss) /\ AllOpenings(a) = FlattenSeq(tt)
  BY DEF AllOpenings
<1> HIDE DEF n, x, a
<1>5. ss \in Seq(Seq(Openings)) /\ Len(ss) = n
  <2>1. ss \in [1..n -> Seq(Openings)]
    BY <1>1, <1>2
  <2> HIDE DEF ss
  <2> QED
    BY <1>1, <2>1, FunctionIsSequence
<1>6. Opened(paths) \in Seq(Openings) /\ OpeningsOf(x) = Opened(paths)
  BY BatchIs DEF x
<1>7. tt = Append(ss, Opened(paths))
  <2> DEFINE u == Append(ss, Opened(paths))
  <2>1. /\ u \in Seq(Seq(Openings)) /\ Len(u) = n + 1
        /\ \A i \in 1..n : u[i] = ss[i]
        /\ u[n + 1] = Opened(paths)
    <3> HIDE DEF ss
    <3> QED
      BY <1>5, <1>6, AppendProperties
  <2> HIDE DEF u
  <2>2. u = [i \in 1..n + 1 |-> u[i]]
    BY <2>1, LenProperties
  <2>3. ASSUME NEW i \in 1..n + 1 PROVE u[i] = OpeningsOf(a[i])
    <3>1. CASE i = n + 1
      BY <1>3, <1>6, <2>1, <3>1
    <3>2. CASE i # n + 1
      <4>1. i \in 1..n
        BY <1>1, <3>2
      <4> QED
        BY <1>3, <2>1, <4>1
    <3> QED
      BY <3>1, <3>2
  <2>4. u = tt
    BY <1>3, <2>2, <2>3
  <2> QED
    BY <2>4 DEF u
<1>8. FlattenSeq(ss) \in Seq(Openings) /\ FlattenSeq(tt) = FlattenSeq(ss) \o Opened(paths)
  <2> HIDE DEF ss, tt
  <2> QED
    BY <1>5, <1>6, <1>7, FlattenSeqAppend
<1>9. \A k \in 1..n : Merkle!Restore(batches[k]).ok
  BY <1>1, <1>2
<1> QED
  BY <1>4, <1>8, <1>9 DEF a, x, n

-----------------------------------------------------------------------------
(* The sponge *)

Blocks == [1..Rate -> F]
Sponges == [blocks : Seq(Blocks), fresh : BOOLEAN]

(* Nothing is taken back from a sponge, and a rate becomes fresh only with a   *)
(* block.                                                                      *)
Grows(s, t) ==
    /\ Len(s.blocks) <= Len(t.blocks)
    /\ t.fresh => s.fresh \/ Len(s.blocks) < Len(t.blocks)

(* Growing is reflexive and transitive. *)
LEMMA GrowingIs ==
    /\ \A s \in Sponges : Len(s.blocks) \in Nat /\ Grows(s, s)
    /\ \A s, t, u \in Sponges : Grows(s, t) /\ Grows(t, u) => Grows(s, u)
<1>1. \A s \in Sponges : Len(s.blocks) \in Nat
  BY LenProperties DEF Sponges
<1> QED
  BY <1>1 DEF Grows

(* A block of zeros is a block. *)
LEMMA ZeroBlockIs == ZeroBlock \in Blocks
BY TranscriptAssumption DEF ZeroBlock, Blocks

(* Absorbing scalars adds their padded chunks. *)
LEMMA ObservingIs ==
    ASSUME NEW s \in Sponges, NEW x \in Seq(F)
    PROVE  /\ ObserveMany(s, x) \in Sponges
           /\ ObserveMany(s, x).blocks = s.blocks \o PaddedChunks(x)
           /\ Grows(s, ObserveMany(s, x))
<1>1. s.blocks \in Seq(Blocks) /\ PaddedChunks(x) \in Seq(Blocks) /\ Len(PaddedChunks(x)) = ChunkCount(Len(x))
  BY PaddingIs DEF Sponges, Blocks
<1>2. /\ s.blocks \o PaddedChunks(x) \in Seq(Blocks)
      /\ Len(s.blocks \o PaddedChunks(x)) = Len(s.blocks) + Len(PaddedChunks(x))
      /\ Len(s.blocks) \in Nat /\ Len(PaddedChunks(x)) \in Nat
  BY <1>1, ConcatProperties, LenProperties
<1>3. CASE x = <<>>
  <2>1. ObserveMany(s, x) = s
    BY <1>3 DEF ObserveMany
  <2>2. PaddedChunks(x) = <<>>
    <3>1. Len(PaddedChunks(x)) = 0
      BY <1>1, <1>3, ChunkCountIs, EmptySeq
    <3> QED
      BY <1>1, <3>1, EmptySeq
  <2>3. s.blocks \o <<>> = s.blocks
    BY <1>1, ConcatEmptySeq
  <2> QED
    BY <2>1, <2>2, <2>3, GrowingIs
<1>4. CASE x # <<>>
  <2>1. ObserveMany(s, x) = [blocks |-> s.blocks \o PaddedChunks(x), fresh |-> TRUE]
    BY <1>4 DEF ObserveMany
  <2>2. Len(PaddedChunks(x)) > 0
    <3>1. Len(x) \in Nat \ {0}
      BY <1>4, EmptySeq
    <3> QED
      BY <3>1, <1>1, ChunkCountIs
  <2> DEFINE b == s.blocks \o PaddedChunks(x)
  <2>3. b \in Seq(Blocks) /\ Len(s.blocks) < Len(b)
    BY <1>2, <2>2
  <2>4. ObserveMany(s, x) = [blocks |-> b, fresh |-> TRUE]
    BY <2>1
  <2> HIDE DEF b
  <2>5. /\ ObserveMany(s, x) \in Sponges /\ ObserveMany(s, x).blocks = b
        /\ Grows(s, ObserveMany(s, x))
    BY <1>2, <2>3, <2>4 DEF Sponges, Grows
  <2> QED
    BY <2>5 DEF b
<1> QED
  BY <1>3, <1>4

(* A duplex adds a block of zeros. *)
LEMMA DuplexIs ==
    ASSUME NEW s \in Sponges
    PROVE  /\ Duplex(s) \in Sponges
           /\ Duplex(s).blocks = s.blocks \o <<ZeroBlock>>
           /\ Grows(s, Duplex(s))
<1>1. s.blocks \in Seq(Blocks) /\ Len(s.blocks) \in Nat
  BY LenProperties DEF Sponges
<1> DEFINE b == Append(s.blocks, ZeroBlock)
<1>2. b \in Seq(Blocks) /\ Len(b) = Len(s.blocks) + 1 /\ b = s.blocks \o <<ZeroBlock>>
  BY <1>1, ZeroBlockIs, AppendProperties, AppendIsConcat
<1>3. Duplex(s) = [blocks |-> b, fresh |-> TRUE]
  BY DEF Duplex, Observe
<1> HIDE DEF b
<1> QED
  BY <1>1, <1>2, <1>3 DEF Sponges, Grows

(* Sampling n rates adds a block of zeros between two of them. *)
LEMMA SamplingIs ==
    ASSUME NEW s \in Sponges, NEW n \in Nat
    PROVE  /\ AfterSampling(s, n) \in Sponges
           /\ AfterSampling(s, n).blocks = s.blocks \o [j \in 1..n - 1 |-> ZeroBlock]
           /\ Grows(s, AfterSampling(s, n))
           /\ n > 0 => /\ ~AfterSampling(s, n).fresh
                       /\ Len(AfterSampling(s, n).blocks) = Len(s.blocks) + (n - 1)
<1>1. s.blocks \in Seq(Blocks) /\ Len(s.blocks) \in Nat
  BY LenProperties DEF Sponges
<1>2. CASE n = 0
  <2> DEFINE z == [j \in 1..n - 1 |-> ZeroBlock]
  <2>1. z = <<>>
    <3>1. z \in [1..0 -> Blocks]
      BY <1>2
    <3>2. z \in Seq(Blocks) /\ Len(z) = 0
      BY <3>1, FunctionIsSequence
    <3> QED
      BY <3>2, EmptySeq
  <2>2. s.blocks \o <<>> = s.blocks
    BY <1>1, ConcatEmptySeq
  <2>3. AfterSampling(s, n) = s
    BY <1>2 DEF AfterSampling
  <2> HIDE DEF z
  <2>4. /\ AfterSampling(s, n) \in Sponges
        /\ AfterSampling(s, n).blocks = s.blocks \o z
        /\ Grows(s, AfterSampling(s, n))
    BY <2>1, <2>2, <2>3, GrowingIs
  <2> QED
    BY <1>2, <2>4 DEF z
<1>3. CASE n # 0
  <2> DEFINE z == [j \in 1..n - 1 |-> ZeroBlock]
             b == s.blocks \o z
  <2>1. n - 1 \in Nat /\ z \in [1..n - 1 -> Blocks]
    BY <1>3, ZeroBlockIs
  <2> HIDE DEF z
  <2>2. z \in Seq(Blocks) /\ Len(z) = n - 1
    BY <2>1, FunctionIsSequence
  <2>3. b \in Seq(Blocks) /\ Len(b) = Len(s.blocks) + (n - 1)
    <3>1. b \in Seq(Blocks) /\ Len(b) = Len(s.blocks) + Len(z)
      BY <1>1, <2>2, ConcatProperties
    <3> QED
      BY <2>2, <3>1
  <2>4. AfterSampling(s, n) = [blocks |-> b, fresh |-> FALSE]
    BY <1>3 DEF AfterSampling, z
  <2> HIDE DEF b
  <2>5. /\ AfterSampling(s, n) \in Sponges /\ AfterSampling(s, n).blocks = b
        /\ Grows(s, AfterSampling(s, n)) /\ ~AfterSampling(s, n).fresh
        /\ Len(AfterSampling(s, n).blocks) = Len(s.blocks) + (n - 1)
    BY <1>1, <2>1, <2>3, <2>4 DEF Sponges, Grows
  <2> QED
    BY <2>5 DEF b, z
<1> QED
  BY <1>2, <1>3

-----------------------------------------------------------------------------
(* The history of a schedule *)

(* A moment between two operations: the sponge, and how much has been sent,    *)
(* opened and recorded.                                                        *)
Moments == [sponge : Sponges, read : Nat, opened : Nat, recorded : Nat]

FirstMoment == [sponge |-> NewSponge, read |-> 0, opened |-> 0, recorded |-> 0]

(* What an operation absorbs of what was said, and the verifier writes down. *)
Absorbed(op, thing) ==
    IF op.kind \in {"sumcheck", "eqSumcheck"} THEN Flatten(thing)
    ELSE IF op.kind \in {"scalars", "grinding"} THEN thing
    ELSE <<>>

(* Each operation: what is said, what of it is sent or opened, and the sponges *)
(* before and after.                                                           *)
SaysScalars(op, thing, sent, opens, s, t) ==
    /\ op.kind = "scalars"
    /\ thing \in Seq(F) /\ op.n = Len(thing)
    /\ sent = thing /\ opens = <<>>
    /\ t = ObserveMany(s, thing)

Observes(op, thing, sent, opens, s, t) ==
    /\ op.kind = "observe"
    /\ op.data \in Seq(F) /\ thing = <<>>
    /\ sent = <<>> /\ opens = <<>>
    /\ t = ObserveMany(s, op.data)

Duplexes(op, thing, sent, opens, s, t) ==
    /\ op.kind = "duplex"
    /\ thing = <<>> /\ sent = <<>> /\ opens = <<>>
    /\ t = Duplex(s)

Samples(op, thing, sent, opens, s, t) ==
    /\ op.kind = "sample"
    /\ op.n \in Nat
    /\ MaySample(s, ChunkCount(op.n))
    /\ thing = SampledRates(s, ChunkCount(op.n))
    /\ sent = <<>> /\ opens = <<>>
    /\ t = AfterSampling(s, ChunkCount(op.n))

SaysPolynomial(op, thing, sent, opens, s, t) ==
    /\ op.kind = "sumcheck"
    /\ thing \in Seq(EF) /\ thing # <<>>
    /\ op.n = Len(thing) /\ op.claim = ClaimedSum(thing)
    /\ sent = Flatten(Tail(thing)) /\ opens = <<>>
    /\ t = ObserveMany(s, Flatten(thing))

SaysEqPolynomial(op, thing, sent, opens, s, t) ==
    /\ op.kind = "eqSumcheck"
    /\ \E bare \in Seq(EF) :
          /\ bare # <<>> /\ op.alpha \in EF
          /\ thing = ExpandBareToFull(bare, op.alpha)
          /\ sent = Flatten(Tail(bare))
    /\ op.n = Len(thing) /\ op.claim = ClaimedSum(thing)
    /\ opens = <<>>
    /\ t = ObserveMany(s, Flatten(thing))

Opens(op, thing, sent, opens, s, t) ==
    /\ op.kind = "openings"
    /\ thing \in Seq(Openings) /\ op.n = Len(thing)
    /\ sent = <<>> /\ opens = thing
    /\ t = s

Grinds(op, thing, sent, opens, s, t) ==
    /\ op.kind = "grinding" /\ opens = <<>> /\ sent = thing
    /\ \/ op.bits = 0 /\ thing = <<>> /\ t = s
       \/ /\ op.bits # 0
          /\ \E witness \in F : thing = <<witness>>
          /\ t = ObserveMany(s, thing)
          /\ GrindingPasses(t, op.bits)

Operation(op, thing, sent, opens, s, t) ==
    \/ SaysScalars(op, thing, sent, opens, s, t)
    \/ Observes(op, thing, sent, opens, s, t)
    \/ Duplexes(op, thing, sent, opens, s, t)
    \/ Samples(op, thing, sent, opens, s, t)
    \/ SaysPolynomial(op, thing, sent, opens, s, t)
    \/ SaysEqPolynomial(op, thing, sent, opens, s, t)
    \/ Opens(op, thing, sent, opens, s, t)
    \/ Grinds(op, thing, sent, opens, s, t)

(* One operation takes the interaction from a moment to the next. *)
Performed(op, thing, sent, opens, m, n) ==
    /\ Operation(op, thing, sent, opens, m.sponge, n.sponge)
    /\ sent \in Seq(F) /\ opens \in Seq(Openings) /\ Absorbed(op, thing) \in Seq(F)
    /\ n.read = m.read + Len(sent)
    /\ n.opened = m.opened + Len(opens)
    /\ n.recorded = m.recorded + Len(PaddedCells(Absorbed(op, thing)))

Follows(m, n) ==
    /\ m.read <= n.read /\ m.opened <= n.opened /\ m.recorded <= n.recorded
    /\ Grows(m.sponge, n.sponge)

(* h is a history of the operations: each one accounts for its piece of the    *)
(* scalars and of the openings, and nothing else is in them.                   *)
History(h, ops, things, scalars, openings, last) ==
    /\ h \in [1..Len(ops) + 1 -> Moments]
    /\ h[1] = FirstMoment
    /\ h[Len(ops) + 1].sponge = last
    /\ h[Len(ops) + 1].read = Len(scalars)
    /\ h[Len(ops) + 1].opened = Len(openings)
    /\ \A k \in 1..Len(ops) :
          Performed(ops[k], things[k],
                    SubSeq(scalars, h[k].read + 1, h[k + 1].read),
                    SubSeq(openings, h[k].opened + 1, h[k + 1].opened),
                    h[k], h[k + 1])
    /\ \A j, k \in 1..Len(ops) + 1 : j <= k => Follows(h[j], h[k])

(* An empty schedule has a history. *)
LEMMA FirstHistory == \E h : History(h, <<>>, <<>>, <<>>, <<>>, NewSponge)
<1> DEFINE h == [k \in 1..1 |-> FirstMoment]
<1>1. NewSponge \in Sponges
  BY EmptySeq DEF NewSponge, Sponges
<1>2. FirstMoment \in Moments
  BY <1>1 DEF FirstMoment, Moments
<1>3. h \in [1..0 + 1 -> Moments] /\ h[1] = FirstMoment /\ h[0 + 1] = FirstMoment
  BY <1>2
<1>4. Len(<<>>) = 0
  BY EmptySeq
<1>5. \A j, k \in 1..0 + 1 : Follows(h[j], h[k])
  <2>1. Follows(FirstMoment, FirstMoment)
    BY <1>1, <1>2, GrowingIs DEF Follows, FirstMoment
  <2> QED
    BY <2>1
<1>6. \A k \in 1..0 : FALSE
  OBVIOUS
<1>7. FirstMoment.sponge = NewSponge /\ FirstMoment.read = 0 /\ FirstMoment.opened = 0
  BY DEF FirstMoment
<1> HIDE DEF h
<1>8. History(h, <<>>, <<>>, <<>>, <<>>, NewSponge)
  BY <1>3, <1>4, <1>5, <1>6, <1>7 DEF History
<1> QED
  BY <1>8

(* Any operation follows what came before it. *)
LEMMA PerformedFollows ==
    ASSUME NEW op, NEW thing, NEW sent, NEW opens, NEW s \in Sponges, NEW t,
           Operation(op, thing, sent, opens, s, t)
    PROVE  t \in Sponges /\ Grows(s, t) /\ Absorbed(op, thing) \in Seq(F)
<1>1. s \in Sponges
  OBVIOUS
<1>3. <<>> \in Seq(F)
  BY EmptySeq
<1>4. CASE SaysScalars(op, thing, sent, opens, s, t)
  BY <1>1, <1>4, ObservingIs DEF SaysScalars, Absorbed
<1>5. CASE Observes(op, thing, sent, opens, s, t)
  BY <1>1, <1>3, <1>5, ObservingIs DEF Observes, Absorbed
<1>6. CASE Duplexes(op, thing, sent, opens, s, t)
  BY <1>1, <1>3, <1>6, DuplexIs DEF Duplexes, Absorbed
<1>7. CASE Samples(op, thing, sent, opens, s, t)
  <2>1. op.n \in Nat /\ t = AfterSampling(s, ChunkCount(op.n)) /\ op.kind = "sample"
    BY <1>7 DEF Samples
  <2>2. ChunkCount(op.n) \in Nat
    BY <2>1, ChunkCountIs
  <2> QED
    BY <1>1, <1>3, <2>1, <2>2, SamplingIs DEF Absorbed
<1>8. CASE SaysPolynomial(op, thing, sent, opens, s, t)
  <2>1. thing \in Seq(EF) /\ t = ObserveMany(s, Flatten(thing)) /\ op.kind = "sumcheck"
    BY <1>8 DEF SaysPolynomial
  <2>2. Flatten(thing) \in Seq(F)
    BY <2>1, PackFlatten
  <2> QED
    BY <1>1, <2>1, <2>2, ObservingIs DEF Absorbed
<1>9. CASE SaysEqPolynomial(op, thing, sent, opens, s, t)
  <2>1. PICK bare \in Seq(EF) : bare # <<>> /\ op.alpha \in EF /\ thing = ExpandBareToFull(bare, op.alpha)
    BY <1>9 DEF SaysEqPolynomial
  <2>2. t = ObserveMany(s, Flatten(thing)) /\ op.kind = "eqSumcheck"
    BY <1>9 DEF SaysEqPolynomial
  <2>3. thing \in Seq(EF)
    BY <2>1, ExpansionIs
  <2>4. Flatten(thing) \in Seq(F)
    BY <2>3, PackFlatten
  <2> QED
    BY <1>1, <2>2, <2>4, ObservingIs DEF Absorbed
<1>10. CASE Opens(op, thing, sent, opens, s, t)
  BY <1>1, <1>3, <1>10, GrowingIs DEF Opens, Absorbed
<1>11. CASE Grinds(op, thing, sent, opens, s, t)
  <2>1. thing \in Seq(F) /\ Absorbed(op, thing) = thing
    <3>1. op.kind = "grinding" /\ (thing = <<>> \/ \E witness \in F : thing = <<witness>>)
      BY <1>11 DEF Grinds
    <3>2. \A witness \in F : <<witness>> \in Seq(F)
      OBVIOUS
    <3> QED
      BY <1>3, <3>1, <3>2 DEF Absorbed
  <2>2. t = s \/ t = ObserveMany(s, thing)
    BY <1>11 DEF Grinds
  <2> QED
    BY <1>1, <2>1, <2>2, ObservingIs, GrowingIs
<1> QED
  BY <1>4, <1>5, <1>6, <1>7, <1>8, <1>9, <1>10, <1>11 DEF Operation

(* Following is reflexive and transitive. *)
LEMMA FollowingIs ==
    /\ \A a \in Moments : Follows(a, a)
    /\ \A a, b, c \in Moments : Follows(a, b) /\ Follows(b, c) => Follows(a, c)
<1>1. \A a \in Moments : a.sponge \in Sponges /\ a.read \in Nat /\ a.opened \in Nat /\ a.recorded \in Nat
  BY DEF Moments
<1>2. \A x, y, z \in Nat : x <= y /\ y <= z => x <= z
  OBVIOUS
<1>3. ASSUME NEW a \in Moments PROVE Follows(a, a)
  BY <1>1, GrowingIs DEF Follows
<1>4. ASSUME NEW a \in Moments, NEW b \in Moments, NEW c \in Moments, Follows(a, b), Follows(b, c)
      PROVE  Follows(a, c)
  <2>1. Grows(a.sponge, c.sponge)
    BY <1>1, <1>4, GrowingIs DEF Follows
  <2>2. a.read <= c.read
    BY <1>1, <1>2, <1>4 DEF Follows
  <2>3. a.opened <= c.opened
    BY <1>1, <1>2, <1>4 DEF Follows
  <2>4. a.recorded <= c.recorded
    BY <1>1, <1>2, <1>4 DEF Follows
  <2> QED
    BY <2>1, <2>2, <2>3, <2>4 DEF Follows
<1> QED
  BY <1>3, <1>4

(* An operation leads from one moment to the next. *)
Leads(op, thing, sent, opens, t, m, n) ==
    /\ n.sponge = t /\ n.read = m.read + Len(sent) /\ n.opened = m.opened + Len(opens)
    /\ Performed(op, thing, sent, opens, m, n)
    /\ Follows(m, n)

(* What an operation adds to the first moment after it. *)
LEMMA NextMoment ==
    ASSUME NEW m \in Moments, NEW op, NEW thing, NEW sent \in Seq(F), NEW opens \in Seq(Openings), NEW t,
           Operation(op, thing, sent, opens, m.sponge, t)
    PROVE  \E n \in Moments : Leads(op, thing, sent, opens, t, m, n)
<1> DEFINE cells == PaddedCells(Absorbed(op, thing))
           n == [sponge |-> t, read |-> m.read + Len(sent), opened |-> m.opened + Len(opens),
                 recorded |-> m.recorded + Len(cells)]
<1>1. m.sponge \in Sponges /\ m.read \in Nat /\ m.opened \in Nat /\ m.recorded \in Nat
  BY DEF Moments
<1>2. t \in Sponges /\ Grows(m.sponge, t) /\ Absorbed(op, thing) \in Seq(F)
  BY <1>1, PerformedFollows
<1>3. Len(sent) \in Nat /\ Len(opens) \in Nat /\ Len(cells) \in Nat
  <2>1. cells \in Seq(F)
    BY <1>2, PaddingIs
  <2> HIDE DEF cells
  <2> QED
    BY <2>1, LenProperties
<1> HIDE DEF cells
<1>4. n \in Moments
  BY <1>1, <1>2, <1>3 DEF Moments
<1>5. /\ n.sponge = t /\ n.read = m.read + Len(sent) /\ n.opened = m.opened + Len(opens)
      /\ n.recorded = m.recorded + Len(cells)
  OBVIOUS
<1> HIDE DEF n
<1>6. Performed(op, thing, sent, opens, m, n)
  BY <1>2, <1>5 DEF Performed, cells
<1>7. Follows(m, n)
  BY <1>1, <1>2, <1>3, <1>5 DEF Follows
<1> QED
  BY <1>4, <1>5, <1>6, <1>7 DEF Leads

(* A history goes on with any operation that starts where it ends. *)
LEMMA HistoryGoesOn ==
    ASSUME NEW ops, NEW things, Sequence(ops), Sequence(things), Len(things) = Len(ops),
           NEW scalars \in Seq(F), NEW openings \in Seq(Openings), NEW last,
           NEW h, History(h, ops, things, scalars, openings, last),
           NEW op, NEW thing, NEW sent \in Seq(F), NEW opens \in Seq(Openings), NEW t,
           Operation(op, thing, sent, opens, last, t)
    PROVE  \E g : History(g, Append(ops, op), Append(things, thing),
                          scalars \o sent, openings \o opens, t)
<1> DEFINE n == Len(ops)
           m == h[n + 1]
           ops2 == Append(ops, op)
           things2 == Append(things, thing)
           scalars2 == scalars \o sent
           openings2 == openings \o opens
<1>1. /\ h \in [1..n + 1 -> Moments] /\ h[1] = FirstMoment
      /\ m.sponge = last /\ m.read = Len(scalars) /\ m.opened = Len(openings)
      /\ \A k \in 1..n :
            Performed(ops[k], things[k],
                      SubSeq(scalars, h[k].read + 1, h[k + 1].read),
                      SubSeq(openings, h[k].opened + 1, h[k + 1].opened),
                      h[k], h[k + 1])
      /\ \A j, k \in 1..n + 1 : j <= k => Follows(h[j], h[k])
  BY DEF History
<1>2. n \in Nat /\ Len(things) = n /\ Len(scalars) \in Nat /\ Len(openings) \in Nat
      /\ Len(sent) \in Nat /\ Len(opens) \in Nat
  BY SequenceIs, LenProperties
<1>3. /\ Len(ops2) = n + 1 /\ (\A i \in 1..n : ops2[i] = ops[i]) /\ ops2[n + 1] = op
      /\ (\A i \in 1..n : things2[i] = things[i]) /\ things2[n + 1] = thing
  BY <1>2, Appending
<1>4. /\ Len(scalars2) = Len(scalars) + Len(sent)
      /\ Len(openings2) = Len(openings) + Len(opens)
      /\ SubSeq(scalars2, Len(scalars) + 1, Len(scalars) + Len(sent)) = sent
      /\ SubSeq(openings2, Len(openings) + 1, Len(openings) + Len(opens)) = opens
  BY ConcatProperties, PieceAdded
<1>5. /\ \A a, b \in Nat : a <= b /\ b <= Len(scalars) => SubSeq(scalars2, a + 1, b) = SubSeq(scalars, a + 1, b)
      /\ \A a, b \in Nat : a <= b /\ b <= Len(openings) => SubSeq(openings2, a + 1, b) = SubSeq(openings, a + 1, b)
  BY PieceOfConcat
<1> HIDE DEF n, m, ops2, things2, scalars2, openings2
<1>6. m \in Moments
  BY <1>1, <1>2, n + 1 \in 1..n + 1 DEF m
<1>7. PICK z \in Moments : Leads(op, thing, sent, opens, t, m, z)
  <2>1. Operation(op, thing, sent, opens, m.sponge, t)
    BY <1>1
  <2> QED
    BY <1>6, <2>1, NextMoment
<1>14. /\ z.sponge = t /\ z.read = m.read + Len(sent) /\ z.opened = m.opened + Len(opens)
       /\ Performed(op, thing, sent, opens, m, z)
       /\ Follows(m, z)
  BY <1>7 DEF Leads
<1> DEFINE g == [k \in 1..(n + 1) + 1 |-> IF k = n + 2 THEN z ELSE h[k]]
<1>8. /\ g \in [1..(n + 1) + 1 -> Moments]
      /\ \A k \in 1..n + 1 : g[k] = h[k] /\ h[k] \in Moments
      /\ g[(n + 1) + 1] = z
  <2>1. /\ n + 2 \in 1..(n + 1) + 1 /\ (n + 1) + 1 = n + 2
        /\ \A k \in 1..n + 1 : k # n + 2 /\ k \in 1..(n + 1) + 1
        /\ \A k \in 1..(n + 1) + 1 : k # n + 2 => k \in 1..n + 1
    BY <1>2
  <2> QED
    BY <1>1, <2>1
<1> HIDE DEF g
<1>9. g[1] = FirstMoment /\ g[n + 1] = m
  BY <1>1, <1>2, <1>8, 1 \in 1..n + 1, n + 1 \in 1..n + 1 DEF m
<1>10. ASSUME NEW k \in 1..n + 1
       PROVE  Performed(ops2[k], things2[k],
                        SubSeq(scalars2, g[k].read + 1, g[k + 1].read),
                        SubSeq(openings2, g[k].opened + 1, g[k + 1].opened),
                        g[k], g[k + 1])
  <2>1. CASE k = n + 1
    <3>1. g[k] = m /\ g[k + 1] = z /\ ops2[k] = op /\ things2[k] = thing
      BY <1>3, <1>8, <1>9, <2>1
    <3>2. /\ SubSeq(scalars2, m.read + 1, z.read) = sent
          /\ SubSeq(openings2, m.opened + 1, z.opened) = opens
      BY <1>1, <1>4, <1>14
    <3> QED
      BY <1>14, <3>1, <3>2
  <2>2. CASE k # n + 1
    <3>1. k \in 1..n /\ k \in 1..n + 1 /\ k + 1 \in 1..n + 1 /\ n + 1 \in 1..n + 1 /\ k <= k + 1 /\ k + 1 <= n + 1
      BY <1>2, <2>2
    <3>2. g[k] = h[k] /\ g[k + 1] = h[k + 1] /\ ops2[k] = ops[k] /\ things2[k] = things[k]
      BY <1>3, <1>8, <3>1
    <3>3. Follows(h[k], h[k + 1]) /\ Follows(h[k + 1], m) /\ h[k] \in Moments /\ h[k + 1] \in Moments
      BY <1>1, <1>8, <3>1 DEF m
    <3>4. /\ h[k].read \in Nat /\ h[k + 1].read \in Nat /\ h[k].opened \in Nat /\ h[k + 1].opened \in Nat
          /\ h[k].read <= h[k + 1].read /\ h[k + 1].read <= Len(scalars)
          /\ h[k].opened <= h[k + 1].opened /\ h[k + 1].opened <= Len(openings)
      BY <1>1, <3>3 DEF Follows, Moments
    <3>5. /\ SubSeq(scalars2, h[k].read + 1, h[k + 1].read) = SubSeq(scalars, h[k].read + 1, h[k + 1].read)
          /\ SubSeq(openings2, h[k].opened + 1, h[k + 1].opened) = SubSeq(openings, h[k].opened + 1, h[k + 1].opened)
      BY <1>5, <3>4
    <3> QED
      BY <1>1, <3>1, <3>2, <3>5
  <2> QED
    BY <2>1, <2>2
<1>11. ASSUME NEW j \in 1..(n + 1) + 1, NEW k \in 1..(n + 1) + 1, j <= k PROVE Follows(g[j], g[k])
  <2>1. CASE k = n + 2 /\ j = n + 2
    <3>2. Follows(z, z)
      BY FollowingIs
    <3> QED
      BY <1>2, <1>8, <2>1, <3>2, (n + 1) + 1 = n + 2
  <2>2. CASE k = n + 2 /\ j # n + 2
    <3>1. j \in 1..n + 1 /\ n + 1 \in 1..n + 1 /\ j <= n + 1 /\ (n + 1) + 1 = n + 2
      BY <1>2, <2>2
    <3>2. Follows(h[j], m) /\ g[j] = h[j] /\ g[k] = z /\ h[j] \in Moments
      BY <1>1, <1>8, <2>2, <3>1 DEF m
    <3>5. Follows(h[j], z)
      BY <1>6, <1>14, <3>2, FollowingIs
    <3> QED
      BY <3>2, <3>5
  <2>3. CASE k # n + 2
    <3>1. j \in 1..n + 1 /\ k \in 1..n + 1
      BY <1>2, <1>11, <2>3
    <3> QED
      BY <1>1, <1>8, <1>11, <3>1
  <2> QED
    BY <2>1, <2>2, <2>3
<1>12. z.sponge = t /\ z.read = Len(scalars2) /\ z.opened = Len(openings2)
  BY <1>1, <1>4, <1>14
<1>13. History(g, ops2, things2, scalars2, openings2, t)
  <2>1. History(g, ops2, things2, scalars2, openings2, t) <=>
          /\ g \in [1..(n + 1) + 1 -> Moments] /\ g[1] = FirstMoment
          /\ g[(n + 1) + 1].sponge = t /\ g[(n + 1) + 1].read = Len(scalars2)
          /\ g[(n + 1) + 1].opened = Len(openings2)
          /\ \A k \in 1..n + 1 :
                Performed(ops2[k], things2[k],
                          SubSeq(scalars2, g[k].read + 1, g[k + 1].read),
                          SubSeq(openings2, g[k].opened + 1, g[k + 1].opened),
                          g[k], g[k + 1])
          /\ \A j, k \in 1..(n + 1) + 1 : j <= k => Follows(g[j], g[k])
    BY <1>3 DEF History
  <2> QED
    BY <1>8, <1>9, <1>10, <1>11, <1>12, <2>1
<1> QED
  BY <1>13 DEF ops2, things2, scalars2, openings2

-----------------------------------------------------------------------------
(* The prover *)

(* h is the history of what the prover has done. *)
ProverKnows(h) ==
    /\ Sequence(schedule) /\ Sequence(said) /\ Len(said) = Len(schedule)
    /\ transcript \in Seq(F) /\ merklePaths \in Seq(Pruned)
    /\ History(h, schedule, said, transcript, AllOpenings(merklePaths), sponge)

(* The batches sent so far and the openings in them are sequences. *)
LEMMA OpeningsAre ==
    ASSUME NEW batches \in Seq(Pruned)
    PROVE  /\ AllOpenings(batches) \in Seq(Openings)
           /\ \A k \in 1..Len(batches) : Merkle!Restore(batches[k]).ok
<1>1. CASE Batches = {}
  <2>1. batches = <<>>
    <3>1. Pruned = {}
      BY <1>1 DEF Pruned
    <3>2. Len(batches) \in Nat
      BY LenProperties
    <3>3. ASSUME Len(batches) # 0 PROVE FALSE
      <4>1. 1 \in 1..Len(batches)
        BY <3>2, <3>3
      <4>2. batches[1] \in Pruned
        BY <4>1, ElementOfSeq
      <4> QED
        BY <3>1, <4>2
    <3> QED
      BY <3>3, EmptySeq
  <2>2. AllOpenings(batches) = <<>>
    <3> DEFINE ss == [k \in 1..Len(batches) |-> OpeningsOf(batches[k])]
    <3>1. ss \in [1..0 -> Seq(Openings)]
      BY <2>1, EmptySeq
    <3> HIDE DEF ss
    <3>2. ss \in Seq(Seq(Openings)) /\ Len(ss) = 0
      BY <3>1, FunctionIsSequence
    <3>3. ss = <<>>
      BY <3>2, EmptySeq
    <3>4. FlattenSeq(ss) = ss
      BY <3>2 DEF FlattenSeq
    <3> QED
      BY <3>3, <3>4 DEF AllOpenings, ss
  <2>3. Len(batches) = 0 /\ <<>> \in Seq(Openings)
    BY <2>1, EmptySeq
  <2>4. \A k \in 1..Len(batches) : FALSE
    BY <2>3
  <2> QED
    BY <2>2, <2>3, <2>4
<1>2. CASE Batches # {}
  <2>1. PICK paths \in Batches : TRUE
    BY <1>2
  <2> QED
    BY <2>1, AllOpeningsAppend
<1> QED
  BY <1>1, <1>2

(* Whatever the prover does, its history goes on. *)
LEMMA ProverGoesOn ==
    ASSUME NEW h, ProverKnows(h), NEW op, NEW thing, NEW t, NEW sent \in Seq(F), NEW opens \in Seq(Openings),
           Performs(op, thing, t, sent),
           Operation(op, thing, sent, opens, sponge, t),
           merklePaths' \in Seq(Pruned),
           AllOpenings(merklePaths') = AllOpenings(merklePaths) \o opens
    PROVE  \E g : ProverKnows(g)'
<1> DEFINE all == AllOpenings(merklePaths)
<1>1. /\ Sequence(schedule) /\ Sequence(said) /\ Len(said) = Len(schedule)
      /\ transcript \in Seq(F) /\ all \in Seq(Openings)
      /\ History(h, schedule, said, transcript, all, sponge)
  BY OpeningsAre DEF ProverKnows
<1>2. /\ schedule' = Append(schedule, op) /\ said' = Append(said, thing)
      /\ sponge' = t /\ transcript' = transcript \o sent
  BY DEF Performs
<1> HIDE DEF all
<1>3. PICK g : History(g, Append(schedule, op), Append(said, thing), transcript \o sent, all \o opens, t)
  <2> DEFINE goes == \E g : History(g, Append(schedule, op), Append(said, thing), transcript \o sent,
                                    all \o opens, t)
  <2>1. goes
    BY ONLY <1>1, HistoryGoesOn, sent \in Seq(F), opens \in Seq(Openings),
       Operation(op, thing, sent, opens, sponge, t)
  <2> QED
    BY <2>1
<1>4. /\ Sequence(schedule') /\ Sequence(said') /\ Len(said') = Len(schedule')
  <2>1. /\ Sequence(Append(schedule, op)) /\ Len(Append(schedule, op)) = Len(schedule) + 1
        /\ Sequence(Append(said, thing)) /\ Len(Append(said, thing)) = Len(said) + 1
    BY ONLY <1>1, Appending
  <2> QED
    BY <1>1, <1>2, <2>1
<1>5. transcript' \in Seq(F)
  BY <1>1, <1>2, ConcatProperties
<1>6. History(g, schedule', said', transcript', AllOpenings(merklePaths'), sponge')
  BY <1>2, <1>3 DEF all
<1>7. ProverKnows(g)'
  BY <1>4, <1>5, <1>6 DEF ProverKnows
<1> QED
  BY <1>7

(* ... and it says one thing more. *)
LEMMA ProverStepIs ==
    ASSUME NEW h, ProverKnows(h), ProverStep
    PROVE  /\ \E g : ProverKnows(g)'
           /\ phase = "proving" /\ UNCHANGED <<phase, intact, verifier, guest, heard>>
           /\ \E thing : said' = Append(said, thing)
<1> DEFINE Goal == /\ \E g : ProverKnows(g)'
                   /\ phase = "proving" /\ UNCHANGED <<phase, intact, verifier, guest, heard>>
                   /\ \E thing : said' = Append(said, thing)
<1>1. ASSUME NEW op, NEW thing, NEW t, NEW sent \in Seq(F), NEW opens \in Seq(Openings),
             Performs(op, thing, t, sent),
             Operation(op, thing, sent, opens, sponge, t),
             merklePaths' \in Seq(Pruned),
             AllOpenings(merklePaths') = AllOpenings(merklePaths) \o opens
      PROVE  Goal
  <2>1. \E g : ProverKnows(g)'
    BY <1>1, ProverGoesOn
  <2>2. phase = "proving" /\ UNCHANGED <<phase, intact, verifier, guest, heard>> /\ said' = Append(said, thing)
    BY <1>1 DEF Performs
  <2> QED
    BY <2>1, <2>2
<1>2. ASSUME NEW op, NEW thing, NEW t, NEW sent \in Seq(F),
             Performs(op, thing, t, sent), UNCHANGED merklePaths,
             Operation(op, thing, sent, <<>>, sponge, t)
      PROVE  Goal
  <2>1. merklePaths' \in Seq(Pruned)
    BY <1>2 DEF ProverKnows
  <2>2. AllOpenings(merklePaths') = AllOpenings(merklePaths) \o <<>> /\ <<>> \in Seq(Openings)
    <3>1. AllOpenings(merklePaths) \in Seq(Openings)
      BY OpeningsAre DEF ProverKnows
    <3> QED
      BY <1>2, <3>1, EmptySeq, ConcatEmptySeq
  <2> HIDE DEF Goal
  <2> QED
    BY <1>1, <1>2, <2>1, <2>2
<1>3. <<>> \in Seq(F) /\ Rate \in Nat \ {0} /\ Messages \subseteq Seq(F) /\ PublicInputs \subseteq Seq(F)
      /\ SampleSizes \subseteq Nat
  BY EmptySeq, TranscriptAssumption, ChallengerAssumption
<1> HIDE DEF Goal
<1>4. ASSUME NEW s \in Messages, AddBaseScalars(s) PROVE Goal
  <2>1. s \in Seq(F)
    BY <1>3
  <2> DEFINE op == [kind |-> "scalars", n |-> Len(s)]
  <2>2. Performs(op, s, ObserveMany(sponge, s), s) /\ UNCHANGED merklePaths
    BY <1>4 DEF AddBaseScalars
  <2>3. Operation(op, s, s, <<>>, sponge, ObserveMany(sponge, s))
    BY <2>1 DEF Operation, SaysScalars
  <2> HIDE DEF op
  <2> QED
    BY <1>2, <2>1, <2>2, <2>3
<1>5. ASSUME NEW s \in PublicInputs, ObserveScalars(s) PROVE Goal
  <2>1. s \in Seq(F)
    BY <1>3
  <2> DEFINE op == [kind |-> "observe", data |-> s]
  <2>2. Performs(op, <<>>, ObserveMany(sponge, s), <<>>) /\ UNCHANGED merklePaths
    BY <1>5 DEF ObserveScalars
  <2>3. Operation(op, <<>>, <<>>, <<>>, sponge, ObserveMany(sponge, s))
    BY <2>1 DEF Operation, Observes
  <2> HIDE DEF op
  <2> QED
    BY <1>2, <1>3, <2>2, <2>3
<1>6. ASSUME DuplexSponge PROVE Goal
  <2> DEFINE op == [kind |-> "duplex"]
  <2>2. Performs(op, <<>>, Duplex(sponge), <<>>) /\ UNCHANGED merklePaths
    BY <1>6 DEF DuplexSponge
  <2>3. Operation(op, <<>>, <<>>, <<>>, sponge, Duplex(sponge))
    BY DEF Operation, Duplexes
  <2> HIDE DEF op
  <2> QED
    BY <1>2, <1>3, <2>2, <2>3
<1>7. ASSUME NEW n \in SampleSizes, SampleScalars(n) PROVE Goal
  <2> DEFINE op == [kind |-> "sample", n |-> n]
             c == ChunkCount(n)
  <2>2. /\ Performs(op, SampledRates(sponge, c), AfterSampling(sponge, c), <<>>)
        /\ MaySample(sponge, c) /\ UNCHANGED merklePaths
    BY <1>7 DEF SampleScalars
  <2>3. op.kind = "sample" /\ op.n = n /\ n \in Nat
    BY <1>3
  <2> HIDE DEF op
  <2>4. Samples(op, SampledRates(sponge, c), <<>>, <<>>, sponge, AfterSampling(sponge, c))
    BY <2>2, <2>3 DEF Samples
  <2>5. Operation(op, SampledRates(sponge, c), <<>>, <<>>, sponge, AfterSampling(sponge, c))
    BY <2>4 DEF Operation
  <2> HIDE DEF c
  <2> QED
    BY <1>2, <1>3, <2>2, <2>5
<1>8. ASSUME NEW coeffs \in Polynomials, AddSumcheckPolynomial(coeffs) PROVE Goal
  <2> DEFINE op == [kind |-> "sumcheck", n |-> Len(coeffs), claim |-> ClaimedSum(coeffs)]
             t == ObserveMany(sponge, Flatten(coeffs))
             sent == Flatten(Tail(coeffs))
  <2>1. coeffs \in Seq(EF) /\ coeffs # <<>>
    BY PolynomialsAssumption
  <2>2. Performs(op, coeffs, t, sent) /\ UNCHANGED merklePaths
    BY <1>8 DEF AddSumcheckPolynomial, Sent
  <2>3. op.kind = "sumcheck" /\ op.n = Len(coeffs) /\ op.claim = ClaimedSum(coeffs)
    OBVIOUS
  <2> HIDE DEF op
  <2>4. SaysPolynomial(op, coeffs, sent, <<>>, sponge, t)
    BY <2>1, <2>3 DEF SaysPolynomial
  <2>5. Operation(op, coeffs, sent, <<>>, sponge, t)
    BY <2>4 DEF Operation
  <2>6. sent \in Seq(F)
    <3>1. Tail(coeffs) \in Seq(EF)
      BY <2>1, HeadTailProperties
    <3> QED
      BY <3>1, PackFlatten
  <2> HIDE DEF t, sent
  <2> QED
    BY <1>2, <2>2, <2>5, <2>6
<1>9. ASSUME NEW b \in BarePolynomials, AddBarePolynomial(b.bare, b.alpha) PROVE Goal
  <2> DEFINE bare == b.bare
             alpha == b.alpha
             full == ExpandBareToFull(bare, alpha)
             op == [kind |-> "eqSumcheck", n |-> Len(full), claim |-> ClaimedSum(full), alpha |-> alpha]
             t == ObserveMany(sponge, Flatten(full))
             sent == Flatten(Tail(bare))
  <2>1. bare \in Seq(EF) /\ bare # <<>> /\ alpha \in EF
    BY PolynomialsAssumption
  <2>2. Performs(op, full, t, sent) /\ UNCHANGED merklePaths
    BY <1>9 DEF AddBarePolynomial, Sent
  <2> HIDE DEF bare, alpha, full
  <2>3. op.kind = "eqSumcheck" /\ op.n = Len(full) /\ op.claim = ClaimedSum(full) /\ op.alpha = alpha
    OBVIOUS
  <2> HIDE DEF op
  <2>4. SaysEqPolynomial(op, full, sent, <<>>, sponge, t)
    BY <2>1, <2>3 DEF SaysEqPolynomial, full
  <2>5. Operation(op, full, sent, <<>>, sponge, t)
    BY <2>4 DEF Operation
  <2>6. sent \in Seq(F)
    <3>1. Tail(bare) \in Seq(EF)
      BY <2>1, HeadTailProperties
    <3> QED
      BY <3>1, PackFlatten
  <2> HIDE DEF t, sent
  <2> QED
    BY <1>2, <2>2, <2>5, <2>6
<1>10. ASSUME NEW paths \in Batches, HintMerklePaths(paths) PROVE Goal
  <2> DEFINE op == [kind |-> "openings", n |-> Len(paths)]
             x == Merkle!Prune(paths)
  <2>1. /\ Opened(paths) \in Seq(Openings) /\ Len(Opened(paths)) = Len(paths) /\ x \in Pruned
    BY BatchIs DEF Pruned
  <2>2. Performs(op, Opened(paths), sponge, <<>>) /\ merklePaths' = Append(merklePaths, x)
    BY <1>10 DEF HintMerklePaths, Opened
  <2>3. merklePaths \in Seq(Pruned)
    BY DEF ProverKnows
  <2>4. AllOpenings(Append(merklePaths, x)) = AllOpenings(merklePaths) \o Opened(paths)
    BY <2>3, AllOpeningsAppend
  <2>5. op.kind = "openings" /\ op.n = Len(paths)
    OBVIOUS
  <2> HIDE DEF op, x
  <2>6. merklePaths' \in Seq(Pruned)
    BY <2>1, <2>2, <2>3, AppendProperties
  <2>7. Operation(op, Opened(paths), <<>>, Opened(paths), sponge, sponge)
    <3>1. Opens(op, Opened(paths), <<>>, Opened(paths), sponge, sponge)
      BY <2>1, <2>5 DEF Opens
    <3> QED
      BY <3>1 DEF Operation
  <2> QED
    BY <1>1, <1>3, <2>1, <2>2, <2>4, <2>6, <2>7
<1>11. ASSUME NEW bits \in GrindingBits, PowGrinding(bits) PROVE Goal
  <2> DEFINE op == [kind |-> "grinding", bits |-> bits]
  <2>1. op.kind = "grinding" /\ op.bits = bits
    OBVIOUS
  <2>2. CASE bits = 0
    <3>1. op = [kind |-> "grinding", bits |-> 0]
      BY <2>2
    <3>2. Performs(op, <<>>, sponge, <<>>) /\ UNCHANGED merklePaths
      BY <1>11, <2>2, <3>1 DEF PowGrinding
    <3> HIDE DEF op
    <3>3. Grinds(op, <<>>, <<>>, <<>>, sponge, sponge)
      BY <2>1, <2>2 DEF Grinds
    <3>4. Operation(op, <<>>, <<>>, <<>>, sponge, sponge)
      BY <3>3 DEF Operation
    <3> QED
      BY <1>2, <1>3, <3>2, <3>4
  <2>3. CASE bits # 0
    <3>1. PICK witness \in F :
              /\ GrindingPasses(ObserveMany(sponge, <<witness>>), bits)
              /\ Performs(op, <<witness>>, ObserveMany(sponge, <<witness>>), <<witness>>)
      BY <1>11, <2>3 DEF PowGrinding
    <3> DEFINE w == <<witness>>
    <3>2. w \in Seq(F) /\ UNCHANGED merklePaths
      BY <1>11 DEF PowGrinding
    <3>3. GrindingPasses(ObserveMany(sponge, w), bits) /\ Performs(op, w, ObserveMany(sponge, w), w)
          /\ \E v \in F : w = <<v>>
      BY <3>1
    <3> HIDE DEF op, w
    <3>4. Grinds(op, w, w, <<>>, sponge, ObserveMany(sponge, w))
      BY <2>1, <2>3, <3>3 DEF Grinds
    <3>5. Operation(op, w, w, <<>>, sponge, ObserveMany(sponge, w))
      BY <3>4 DEF Operation
    <3> QED
      BY <1>2, <3>2, <3>3, <3>5
  <2> QED
    BY <2>2, <2>3
<1>12. Goal
  BY <1>4, <1>5, <1>6, <1>7, <1>8, <1>9, <1>10, <1>11 DEF ProverStep
<1> QED
  BY <1>12 DEF Goal

-----------------------------------------------------------------------------
(* The verifier *)

Verifiers == [step : Nat, status : {"ok", "exceeded"}, sponge : Sponges,
              transcript : Seq(F), offset : Nat,
              openings : Seq(Openings), openingIndex : Nat, raw : Seq(F)]

(* What v holds and where it stands: at a moment of the history, with a part   *)
(* of the proof before it and the record of what was absorbed behind it.       *)
Stands(v, h) ==
    /\ v \in Verifiers
    /\ v.step \in 1..Len(schedule) + 1
    /\ v.sponge = h[v.step].sponge
    /\ v.offset = h[v.step].read /\ v.offset <= Len(v.transcript)
    /\ v.openingIndex = h[v.step].opened /\ v.openingIndex <= Len(v.openings)

Holds(v) ==
    /\ Len(v.transcript) <= Len(transcript)
    /\ v.transcript = SubSeq(transcript, 1, Len(v.transcript))
    /\ Len(v.openings) <= Len(AllOpenings(merklePaths))
    /\ v.openings = SubSeq(AllOpenings(merklePaths), 1, Len(v.openings))
    /\ intact \in BOOLEAN
    /\ intact <=> /\ Len(v.transcript) = Len(transcript)
                  /\ Len(v.openings) = Len(AllOpenings(merklePaths))
    /\ intact => v.status = "ok"

Recorded(v, h) ==
    /\ Len(v.raw) = h[v.step].recorded
    /\ \A k \in 1..v.step - 1 :
          SubSeq(v.raw, h[k].recorded + 1, h[k + 1].recorded) = PaddedCells(Absorbed(schedule[k], said[k]))

(* A reader has heard the first things that were said. *)
HasHeard(things, step) ==
    /\ Sequence(things)
    /\ Len(things) = step - 1
    /\ \A k \in 1..step - 1 : things[k] = said[k]

VerifierKnows(h) ==
    /\ Stands(verifier, h) /\ Holds(verifier) /\ Recorded(verifier, h)
    /\ HasHeard(heard["verifier"], verifier.step)

(* What the k-th operation accounts for. *)
SentAt(h, k) == SubSeq(transcript, h[k].read + 1, h[k + 1].read)
OpenedAt(h, k) == SubSeq(AllOpenings(merklePaths), h[k].opened + 1, h[k + 1].opened)

(* One operation of the history. *)
LEMMA OperationAt ==
    ASSUME NEW h, ProverKnows(h), NEW k \in 1..Len(schedule)
    PROVE  /\ h[k] \in Moments /\ h[k + 1] \in Moments
           /\ Performed(schedule[k], said[k], SentAt(h, k), OpenedAt(h, k), h[k], h[k + 1])
           /\ Follows(h[k], h[k + 1])
           /\ h[k + 1].read <= Len(transcript) /\ h[k + 1].opened <= Len(AllOpenings(merklePaths))
<1> DEFINE n == Len(schedule)
<1>1. n \in Nat
  BY SequenceIs DEF ProverKnows
<1>2. k \in 1..n + 1 /\ k + 1 \in 1..n + 1 /\ n + 1 \in 1..n + 1 /\ k <= k + 1 /\ k + 1 <= n + 1
  BY <1>1
<1>3. History(h, schedule, said, transcript, AllOpenings(merklePaths), sponge)
  BY DEF ProverKnows
<1>4. /\ h \in [1..n + 1 -> Moments]
      /\ Follows(h[k], h[k + 1]) /\ Follows(h[k + 1], h[n + 1])
      /\ h[n + 1].read = Len(transcript) /\ h[n + 1].opened = Len(AllOpenings(merklePaths))
  BY <1>2, <1>3 DEF History
<1>5. Performed(schedule[k], said[k], SentAt(h, k), OpenedAt(h, k), h[k], h[k + 1])
  BY <1>3 DEF History, SentAt, OpenedAt
<1> HIDE DEF n
<1> QED
  BY <1>2, <1>4, <1>5 DEF Follows

(* The part of the proof a reader holds is the proof's, as far as it goes. *)
LEMMA ReadsWhatWasSent ==
    ASSUME NEW h, ProverKnows(h), NEW k \in 1..Len(schedule), NEW v, Stands(v, h), Holds(v)
    PROVE  /\ h[k + 1].read <= Len(v.transcript) =>
                 SubSeq(v.transcript, h[k].read + 1, h[k + 1].read) = SentAt(h, k)
           /\ h[k + 1].opened <= Len(v.openings) =>
                 SubSeq(v.openings, h[k].opened + 1, h[k + 1].opened) = OpenedAt(h, k)
           /\ intact => h[k + 1].read <= Len(v.transcript) /\ h[k + 1].opened <= Len(v.openings)
<1> DEFINE all == AllOpenings(merklePaths)
<1>1. transcript \in Seq(F) /\ all \in Seq(Openings)
  BY OpeningsAre DEF ProverKnows
<1>2. Len(v.transcript) \in Nat /\ Len(v.openings) \in Nat
  BY LenProperties DEF Stands, Verifiers
<1>3. /\ h[k].read \in Nat /\ h[k + 1].read \in Nat /\ h[k].read <= h[k + 1].read
      /\ h[k].opened \in Nat /\ h[k + 1].opened \in Nat /\ h[k].opened <= h[k + 1].opened
      /\ h[k + 1].read <= Len(transcript) /\ h[k + 1].opened <= Len(all)
  BY OperationAt DEF Moments, Follows
<1>4. /\ Len(v.transcript) <= Len(transcript) /\ v.transcript = SubSeq(transcript, 1, Len(v.transcript))
      /\ Len(v.openings) <= Len(all) /\ v.openings = SubSeq(all, 1, Len(v.openings))
      /\ intact => Len(v.transcript) = Len(transcript) /\ Len(v.openings) = Len(all)
  BY DEF Holds
<1> HIDE DEF all
<1>5. ASSUME h[k + 1].read <= Len(v.transcript)
      PROVE  SubSeq(v.transcript, h[k].read + 1, h[k + 1].read) = SentAt(h, k)
  <2>1. SubSeq(SubSeq(transcript, 1, Len(v.transcript)), h[k].read + 1, h[k + 1].read) = SentAt(h, k)
    <3> DEFINE m == Len(v.transcript)
               a == h[k].read
               b == h[k + 1].read
    <3>1. m \in Nat /\ m <= Len(transcript) /\ a \in Nat /\ b \in Nat /\ a <= b /\ b <= m
      BY <1>2, <1>3, <1>4, <1>5
    <3> HIDE DEF m, a, b
    <3>2. SubSeq(SubSeq(transcript, 1, m), a + 1, b) = SubSeq(transcript, a + 1, b)
      BY <1>1, <3>1, PieceOfPrefix
    <3> QED
      BY <3>2 DEF m, a, b, SentAt
  <2> QED
    BY <1>4, <2>1
<1>6. ASSUME h[k + 1].opened <= Len(v.openings)
      PROVE  SubSeq(v.openings, h[k].opened + 1, h[k + 1].opened) = OpenedAt(h, k)
  <2>1. SubSeq(SubSeq(all, 1, Len(v.openings)), h[k].opened + 1, h[k + 1].opened) = OpenedAt(h, k)
    <3> DEFINE m == Len(v.openings)
               a == h[k].opened
               b == h[k + 1].opened
    <3>1. m \in Nat /\ m <= Len(all) /\ a \in Nat /\ b \in Nat /\ a <= b /\ b <= m
      BY <1>2, <1>3, <1>4, <1>6
    <3> HIDE DEF m, a, b
    <3>2. SubSeq(SubSeq(all, 1, m), a + 1, b) = SubSeq(all, a + 1, b)
      BY <1>1, <3>1, PieceOfPrefix
    <3> QED
      BY <3>2 DEF m, a, b, OpenedAt, all
  <2> QED
    BY <1>4, <2>1
<1> QED
  BY <1>3, <1>4, <1>5, <1>6

(* The reader v, one operation on. *)
Moved(v, h) ==
    [step |-> v.step + 1, status |-> "ok", sponge |-> h[v.step + 1].sponge,
     transcript |-> v.transcript, offset |-> h[v.step + 1].read,
     openings |-> v.openings, openingIndex |-> h[v.step + 1].opened,
     raw |-> v.raw \o PaddedCells(Absorbed(schedule[v.step], said[v.step]))]

(* It stands where the history says. *)
LEMMA Advancing ==
    ASSUME NEW h, ProverKnows(h), NEW v, Stands(v, h), Holds(v), Recorded(v, h),
           v.step <= Len(schedule), v.status = "ok",
           h[v.step + 1].read <= Len(v.transcript), h[v.step + 1].opened <= Len(v.openings)
    PROVE  Stands(Moved(v, h), h) /\ Holds(Moved(v, h)) /\ Recorded(Moved(v, h), h)
<1> DEFINE k == v.step
           cells == PaddedCells(Absorbed(schedule[k], said[k]))
           raw == v.raw \o cells
           w == Moved(v, h)
<1>1. v \in Verifiers /\ k \in 1..Len(schedule) /\ k + 1 \in 1..Len(schedule) + 1 /\ k \in Nat
  BY SequenceIs DEF Stands, Verifiers, ProverKnows
<1>2. /\ h[k] \in Moments /\ h[k + 1] \in Moments
      /\ Performed(schedule[k], said[k], SentAt(h, k), OpenedAt(h, k), h[k], h[k + 1])
  BY <1>1, OperationAt
<1>3. Absorbed(schedule[k], said[k]) \in Seq(F) /\ h[k + 1].recorded = h[k].recorded + Len(cells)
  BY <1>2 DEF Performed
<1>4. cells \in Seq(F) /\ v.raw \in Seq(F) /\ Len(v.raw) = h[k].recorded
  BY <1>1, <1>3, PaddingIs DEF Verifiers, Recorded
<1> HIDE DEF cells
<1>5. raw \in Seq(F) /\ Len(raw) = h[k + 1].recorded /\ Len(v.raw) \in Nat /\ Len(cells) \in Nat
  <2>1. v.raw \o cells \in Seq(F) /\ Len(v.raw \o cells) = Len(v.raw) + Len(cells)
    BY <1>4, ConcatProperties
  <2>2. Len(v.raw) \in Nat /\ Len(cells) \in Nat
    BY <1>4, LenProperties
  <2> QED
    BY <1>3, <1>4, <2>1, <2>2
<1>6. /\ w.step = k + 1 /\ w.status = "ok" /\ w.sponge = h[k + 1].sponge
      /\ w.transcript = v.transcript /\ w.offset = h[k + 1].read
      /\ w.openings = v.openings /\ w.openingIndex = h[k + 1].opened /\ w.raw = raw
  BY DEF Moved, cells
<1>7. w \in Verifiers
  <2>1. /\ h[k + 1].sponge \in Sponges /\ h[k + 1].read \in Nat /\ h[k + 1].opened \in Nat
        /\ v.transcript \in Seq(F) /\ v.openings \in Seq(Openings) /\ k + 1 \in Nat
    <3>1. \A m \in Moments : m.sponge \in Sponges /\ m.read \in Nat /\ m.opened \in Nat
      BY DEF Moments
    <3>2. v.transcript \in Seq(F) /\ v.openings \in Seq(Openings) /\ k + 1 \in Nat
      BY <1>1 DEF Verifiers
    <3> QED
      BY <1>2, <3>1, <3>2
  <2> QED
    BY <1>5, <2>1 DEF Moved, Verifiers, cells
<1> HIDE DEF w, raw
<1>8. Stands(w, h)
  BY <1>1, <1>6, <1>7 DEF Stands
<1>9. Holds(w)
  BY <1>6 DEF Holds
<1>10. Recorded(w, h)
  <2>1. ASSUME NEW j \in 1..k
        PROVE  SubSeq(raw, h[j].recorded + 1, h[j + 1].recorded) = PaddedCells(Absorbed(schedule[j], said[j]))
    <3>1. CASE j = k
      <4>1. SubSeq(raw, Len(v.raw) + 1, Len(v.raw) + Len(cells)) = cells
        BY <1>4, PieceAdded DEF raw
      <4> QED
        BY <1>3, <1>4, <3>1, <4>1 DEF cells
    <3>2. CASE j # k
      <4>1. /\ j \in 1..k - 1 /\ j \in 1..Len(schedule) /\ j \in 1..Len(schedule) + 1
            /\ j + 1 \in 1..Len(schedule) + 1 /\ k \in 1..Len(schedule) + 1 /\ j + 1 <= k
        BY <1>1, <3>2
      <4>2. \A a, b \in 1..Len(schedule) + 1 : a <= b => Follows(h[a], h[b])
        BY DEF ProverKnows, History
      <4>3. Follows(h[j], h[j + 1]) /\ Follows(h[j + 1], h[k]) /\ h[j] \in Moments /\ h[j + 1] \in Moments
        BY <4>1, <4>2, OperationAt
      <4>4. /\ h[j].recorded \in Nat /\ h[j + 1].recorded \in Nat
            /\ h[j].recorded <= h[j + 1].recorded /\ h[j + 1].recorded <= Len(v.raw)
        BY <1>4, <4>3 DEF Follows, Moments
      <4>5. SubSeq(raw, h[j].recorded + 1, h[j + 1].recorded) = SubSeq(v.raw, h[j].recorded + 1, h[j + 1].recorded)
        <5> DEFINE a == h[j].recorded
                   b == h[j + 1].recorded
        <5>1. a \in Nat /\ b \in Nat /\ a <= b /\ b <= Len(v.raw) /\ v.raw \in Seq(F) /\ cells \in Seq(F)
          BY <1>4, <4>4
        <5> HIDE DEF a, b, cells
        <5>2. SubSeq(v.raw \o cells, a + 1, b) = SubSeq(v.raw, a + 1, b)
          BY ONLY <5>1, PieceOfConcat
        <5> QED
          BY <5>2 DEF a, b, cells, raw
      <4>6. SubSeq(v.raw, h[j].recorded + 1, h[j + 1].recorded) = PaddedCells(Absorbed(schedule[j], said[j]))
        BY <1>4, <4>1 DEF Recorded
      <4> QED
        BY <4>5, <4>6
    <3> QED
      BY <3>1, <3>2
  <2>2. w.step - 1 = k
    BY <1>1, <1>6
  <2> QED
    BY <1>5, <1>6, <2>1, <2>2 DEF Recorded
<1> QED
  BY <1>8, <1>9, <1>10 DEF w

(* What is heard next is what was said next. *)
LEMMA Hearing ==
    ASSUME NEW things, NEW step \in Nat \ {0}, HasHeard(things, step)
    PROVE  /\ HasHeard(Append(things, said[step]), step + 1)
           /\ Append(things, said[step]) = Append(things, said[Len(things) + 1])
<1>1. /\ Sequence(Append(things, said[step])) /\ Len(Append(things, said[step])) = Len(things) + 1
      /\ (\A i \in 1..Len(things) : Append(things, said[step])[i] = things[i])
      /\ Append(things, said[step])[Len(things) + 1] = said[step]
  BY Appending DEF HasHeard
<1>2. Len(things) = step - 1 /\ Len(things) + 1 = step /\ (step + 1) - 1 = step
      /\ \A k \in 1..step : k = step \/ k \in 1..step - 1
  BY DEF HasHeard
<1>3. \A k \in 1..step : Append(things, said[step])[k] = said[k]
  BY <1>1, <1>2 DEF HasHeard
<1> QED
  BY <1>1, <1>2, <1>3 DEF HasHeard

(* What the verifier does: it goes on as the prover did, or the end of the     *)
(* proof is missing and it says so.                                            *)
VerifierMoves(h) ==
    \/ /\ verifier' = Moved(verifier, h) /\ VerifierHears(said[verifier.step])
       /\ h[verifier.step + 1].read <= Len(verifier.transcript)
       /\ h[verifier.step + 1].opened <= Len(verifier.openings)
    \/ ~intact /\ Refuses("exceeded")

(* Before any operation of the verifier. *)
LEMMA VerifierIsAt ==
    ASSUME NEW h, ProverKnows(h), VerifierKnows(h), NEW kind, VerifierRuns(kind)
    PROVE  /\ verifier.step \in 1..Len(schedule)
           /\ Operation(schedule[verifier.step], said[verifier.step], SentAt(h, verifier.step),
                        OpenedAt(h, verifier.step), h[verifier.step].sponge, h[verifier.step + 1].sponge)
           /\ h[verifier.step + 1].read = h[verifier.step].read + Len(SentAt(h, verifier.step))
           /\ h[verifier.step + 1].opened = h[verifier.step].opened + Len(OpenedAt(h, verifier.step))
           /\ h[verifier.step] \in Moments /\ h[verifier.step + 1] \in Moments
           /\ schedule[verifier.step].kind = kind
           /\ Absorbed(schedule[verifier.step], said[verifier.step]) \in Seq(F)
           /\ SentAt(h, verifier.step) \in Seq(F) /\ OpenedAt(h, verifier.step) \in Seq(Openings)
<1>1. verifier.step \in 1..Len(schedule)
  BY SequenceIs DEF VerifierRuns, VerifierKnows, Stands, ProverKnows
<1>2. schedule[verifier.step].kind = kind
  BY DEF VerifierRuns
<1> QED
  BY <1>1, <1>2, OperationAt DEF Performed

(* Absorbing what the operation accounts for is going on. *)
LEMMA AbsorbingIs ==
    ASSUME NEW h, ProverKnows(h), VerifierKnows(h), verifier.status = "ok", NEW scalars, NEW n,
           h[verifier.step + 1].sponge = ObserveMany(h[verifier.step].sponge, scalars),
           scalars = Absorbed(schedule[verifier.step], said[verifier.step]),
           h[verifier.step + 1].read = h[verifier.step].read + n,
           h[verifier.step + 1].opened = h[verifier.step].opened,
           Absorbs(scalars, n)
    PROVE  verifier' = Moved(verifier, h)
<1>1. verifier \in Verifiers
  BY DEF VerifierKnows, Stands
<1>2. /\ verifier.sponge = h[verifier.step].sponge /\ verifier.offset = h[verifier.step].read
      /\ verifier.openingIndex = h[verifier.step].opened
  BY DEF VerifierKnows, Stands
<1> QED
  BY <1>1, <1>2 DEF Absorbs, Moved, Verifiers

(* An operation of which nothing is absorbed leaves the record as it is. *)
LEMMA NothingRecorded ==
    ASSUME NEW raw \in Seq(F)
    PROVE  raw \o PaddedCells(<<>>) = raw
<1>1. <<>> \in Seq(F) /\ Len(<<>>) = 0
  BY EmptySeq
<1>2. ASSUME NEW z \in Seq(F), Len(z) = 0 PROVE PaddedCells(z) = <<>>
  <2>1. PaddedCells(z) \in Seq(F) /\ Len(PaddedCells(z)) = 0 * Rate
    BY <1>2, PaddingIs, ChunkCountIs
  <2>2. 0 * Rate = 0
    BY ChallengerAssumption
  <2> QED
    BY <2>1, <2>2, EmptySeq
<1>3. PaddedCells(<<>>) = <<>>
  BY <1>1, <1>2
<1> QED
  BY <1>3, ConcatEmptySeq

(* The scalars of an operation are there and are the prover's, or the proof    *)
(* lacks its end.                                                              *)
LEMMA Reading ==
    ASSUME NEW h, ProverKnows(h), VerifierKnows(h), NEW kind, VerifierRuns(kind),
           NEW n, n = Len(SentAt(h, verifier.step))
    PROVE  /\ HasScalars(n) => /\ Read(n) = SentAt(h, verifier.step)
                               /\ h[verifier.step + 1].read <= Len(verifier.transcript)
           /\ ~HasScalars(n) => ~intact
           /\ h[verifier.step + 1].read = h[verifier.step].read + n
<1> DEFINE k == verifier.step
<1>1. k \in 1..Len(schedule) /\ h[k + 1].read = h[k].read + n /\ h[k].read = verifier.offset
  BY VerifierIsAt DEF VerifierKnows, Stands
<1>2. /\ h[k + 1].read <= Len(verifier.transcript) =>
            SubSeq(verifier.transcript, h[k].read + 1, h[k + 1].read) = SentAt(h, k)
      /\ intact => h[k + 1].read <= Len(verifier.transcript)
  BY <1>1, ReadsWhatWasSent DEF VerifierKnows
<1> HIDE DEF k
<1>3. HasScalars(n) <=> h[k + 1].read <= Len(verifier.transcript)
  BY <1>1 DEF HasScalars
<1>4. Read(n) = SubSeq(verifier.transcript, h[k].read + 1, h[k + 1].read)
  BY <1>1 DEF Read
<1> QED
  BY <1>1, <1>2, <1>3, <1>4 DEF k

(* An operation that opens nothing leaves the openings where they are. *)
LEMMA OpensNothing ==
    ASSUME NEW h, ProverKnows(h), VerifierKnows(h), NEW kind, VerifierRuns(kind),
           OpenedAt(h, verifier.step) = <<>>
    PROVE  /\ h[verifier.step + 1].opened = h[verifier.step].opened
           /\ h[verifier.step + 1].opened <= Len(verifier.openings)
<1>1. h[verifier.step + 1].opened = h[verifier.step].opened + 0 /\ h[verifier.step].opened \in Nat
  BY VerifierIsAt, EmptySeq DEF Moments
<1> QED
  BY <1>1 DEF VerifierKnows, Stands

(* An operation that reads n scalars and absorbs what was absorbed. *)
LEMMA VerifierAbsorbs ==
    ASSUME NEW h, ProverKnows(h), VerifierKnows(h), NEW kind, VerifierRuns(kind),
           NEW n, n = Len(SentAt(h, verifier.step)), OpenedAt(h, verifier.step) = <<>>,
           NEW scalars, NEW thing,
           HasScalars(n) => /\ scalars = Absorbed(schedule[verifier.step], said[verifier.step])
                            /\ thing = said[verifier.step],
           h[verifier.step + 1].sponge =
               ObserveMany(h[verifier.step].sponge, Absorbed(schedule[verifier.step], said[verifier.step])),
           IF ~HasScalars(n) THEN Refuses("exceeded") ELSE Absorbs(scalars, n) /\ VerifierHears(thing)
    PROVE  VerifierMoves(h)
<1>1. /\ HasScalars(n) => h[verifier.step + 1].read <= Len(verifier.transcript)
      /\ ~HasScalars(n) => ~intact
      /\ h[verifier.step + 1].read = h[verifier.step].read + n
      /\ h[verifier.step + 1].opened = h[verifier.step].opened
      /\ h[verifier.step + 1].opened <= Len(verifier.openings)
      /\ verifier.status = "ok"
  BY Reading, OpensNothing DEF VerifierRuns
<1>2. CASE HasScalars(n)
  <2>1. verifier' = Moved(verifier, h)
    BY <1>1, <1>2, AbsorbingIs
  <2> QED
    BY <1>1, <1>2, <2>1 DEF VerifierMoves
<1>3. CASE ~HasScalars(n)
  BY <1>1, <1>3 DEF VerifierMoves
<1> QED
  BY <1>2, <1>3

(* The reader, with its step and its sponge changed. *)
LEMMA SteppedOn ==
    ASSUME NEW v \in Verifiers, v.status = "ok", NEW t
    PROVE  [v EXCEPT !.step = @ + 1, !.sponge = t] =
             [step |-> v.step + 1, status |-> "ok", sponge |-> t,
              transcript |-> v.transcript, offset |-> v.offset,
              openings |-> v.openings, openingIndex |-> v.openingIndex, raw |-> v.raw]
<1> DEFINE w == [v EXCEPT !.step = @ + 1, !.sponge = t]
           fields == {"step", "status", "sponge", "transcript", "offset", "openings", "openingIndex", "raw"}
<1>1. DOMAIN v = fields /\ v.step \in Nat
  BY DEF Verifiers
<1>2. w = [f \in fields |-> IF f = "step" THEN v.step + 1 ELSE IF f = "sponge" THEN t ELSE v[f]]
  BY <1>1
<1> QED
  BY <1>2

(* The reader, with its step and its place in the openings changed. *)
LEMMA OpenedOn ==
    ASSUME NEW v \in Verifiers, v.status = "ok", NEW n
    PROVE  [v EXCEPT !.step = @ + 1, !.openingIndex = @ + n] =
             [step |-> v.step + 1, status |-> "ok", sponge |-> v.sponge,
              transcript |-> v.transcript, offset |-> v.offset,
              openings |-> v.openings, openingIndex |-> v.openingIndex + n, raw |-> v.raw]
<1> DEFINE w == [v EXCEPT !.step = @ + 1, !.openingIndex = @ + n]
           fields == {"step", "status", "sponge", "transcript", "offset", "openings", "openingIndex", "raw"}
<1>1. DOMAIN v = fields /\ v.step \in Nat
  BY DEF Verifiers
<1>2. w = [f \in fields |-> IF f = "step" THEN v.step + 1
                            ELSE IF f = "openingIndex" THEN v.openingIndex + n ELSE v[f]]
  BY <1>1
<1> QED
  BY <1>2

(* An operation that sends, opens and records nothing. *)
LEMMA VerifierGoesOn ==
    ASSUME NEW h, ProverKnows(h), VerifierKnows(h), NEW kind, VerifierRuns(kind), NEW t,
           SentAt(h, verifier.step) = <<>>, OpenedAt(h, verifier.step) = <<>>,
           Absorbed(schedule[verifier.step], said[verifier.step]) = <<>>,
           h[verifier.step + 1].sponge = t,
           verifier' = [verifier EXCEPT !.step = @ + 1, !.sponge = t],
           VerifierHears(said[verifier.step])
    PROVE  VerifierMoves(h)
<1>1. Len(<<>>) = 0
  BY EmptySeq
<1>2. /\ h[verifier.step + 1].opened = h[verifier.step].opened
      /\ h[verifier.step + 1].opened <= Len(verifier.openings)
  BY OpensNothing
<1>3. h[verifier.step + 1].read = h[verifier.step].read + 0 /\ h[verifier.step].read \in Nat
  BY <1>1, VerifierIsAt DEF Moments
<1>4. /\ verifier \in Verifiers /\ verifier.status = "ok" /\ verifier.offset <= Len(verifier.transcript)
      /\ verifier.offset = h[verifier.step].read /\ verifier.openingIndex = h[verifier.step].opened
  BY DEF VerifierKnows, Stands, VerifierRuns
<1>5. verifier.raw \o PaddedCells(Absorbed(schedule[verifier.step], said[verifier.step])) = verifier.raw
  BY <1>4, NothingRecorded DEF Verifiers
<1>6. /\ h[verifier.step + 1].read = verifier.offset /\ h[verifier.step + 1].opened = verifier.openingIndex
      /\ h[verifier.step + 1].read <= Len(verifier.transcript)
  BY <1>2, <1>3, <1>4
<1>7. Moved(verifier, h) =
        [step |-> verifier.step + 1, status |-> "ok", sponge |-> t,
         transcript |-> verifier.transcript, offset |-> verifier.offset,
         openings |-> verifier.openings, openingIndex |-> verifier.openingIndex, raw |-> verifier.raw]
  BY <1>5, <1>6 DEF Moved
<1>8. verifier' = Moved(verifier, h)
  <2>3. [verifier EXCEPT !.step = @ + 1, !.sponge = t] = Moved(verifier, h)
    BY <1>4, <1>7, SteppedOn
  <2> QED
    BY <2>3
<1> QED
  BY <1>2, <1>6, <1>8 DEF VerifierMoves

(* Scalars are read back as they were written. *)
LEMMA ScalarsMove ==
    ASSUME NEW h, ProverKnows(h), VerifierKnows(h), NextBaseScalars PROVE VerifierMoves(h)
<1> DEFINE op == schedule[verifier.step]
           thing == said[verifier.step]
<1>1. VerifierRuns("scalars")
  BY DEF NextBaseScalars
<1>2. SaysScalars(op, thing, SentAt(h, verifier.step), OpenedAt(h, verifier.step),
                  h[verifier.step].sponge, h[verifier.step + 1].sponge)
  BY <1>1, VerifierIsAt DEF Operation, SaysScalars, Observes, Duplexes, Samples, SaysPolynomial,
                            SaysEqPolynomial, Opens, Grinds
<1>3. /\ op.n = Len(SentAt(h, verifier.step)) /\ SentAt(h, verifier.step) = thing
      /\ OpenedAt(h, verifier.step) = <<>> /\ Absorbed(op, thing) = thing
      /\ h[verifier.step + 1].sponge = ObserveMany(h[verifier.step].sponge, thing)
  BY <1>2 DEF SaysScalars, Absorbed
<1>4. HasScalars(op.n) => Read(op.n) = thing
  BY <1>1, <1>3, Reading
<1>5. IF ~HasScalars(op.n) THEN Refuses("exceeded")
      ELSE Absorbs(Read(op.n), op.n) /\ VerifierHears(Read(op.n))
  BY DEF NextBaseScalars
<1> QED
  BY <1>1, <1>3, <1>4, <1>5, VerifierAbsorbs

(* Observing, the verifier absorbs what both sides know. *)
LEMMA ObservingMoves ==
    ASSUME NEW h, ProverKnows(h), VerifierKnows(h), VerifierObserves PROVE VerifierMoves(h)
<1> DEFINE op == schedule[verifier.step]
           thing == said[verifier.step]
           t == ObserveMany(verifier.sponge, op.data)
<1>1. VerifierRuns("observe") /\ VerifierHears(<<>>)
      /\ verifier' = [verifier EXCEPT !.step = @ + 1, !.sponge = t]
  BY DEF VerifierObserves
<1>2. Observes(op, thing, SentAt(h, verifier.step), OpenedAt(h, verifier.step),
               h[verifier.step].sponge, h[verifier.step + 1].sponge)
  BY <1>1, VerifierIsAt DEF Operation, SaysScalars, Observes, Duplexes, Samples, SaysPolynomial,
                            SaysEqPolynomial, Opens, Grinds
<1>3. /\ SentAt(h, verifier.step) = <<>> /\ OpenedAt(h, verifier.step) = <<>> /\ thing = <<>>
      /\ Absorbed(op, thing) = <<>> /\ h[verifier.step + 1].sponge = t
  BY <1>2 DEF Observes, Absorbed, VerifierKnows, Stands
<1> HIDE DEF t
<1> QED
  BY <1>1, <1>3, VerifierGoesOn

(* A duplex is a duplex on both sides. *)
LEMMA DuplexingMoves ==
    ASSUME NEW h, ProverKnows(h), VerifierKnows(h), VerifierDuplexes PROVE VerifierMoves(h)
<1> DEFINE op == schedule[verifier.step]
           thing == said[verifier.step]
           t == Duplex(verifier.sponge)
<1>1. VerifierRuns("duplex") /\ VerifierHears(<<>>)
      /\ verifier' = [verifier EXCEPT !.step = @ + 1, !.sponge = t]
  BY DEF VerifierDuplexes
<1>2. Duplexes(op, thing, SentAt(h, verifier.step), OpenedAt(h, verifier.step),
               h[verifier.step].sponge, h[verifier.step + 1].sponge)
  BY <1>1, VerifierIsAt DEF Operation, SaysScalars, Observes, Duplexes, Samples, SaysPolynomial,
                            SaysEqPolynomial, Opens, Grinds
<1>3. /\ SentAt(h, verifier.step) = <<>> /\ OpenedAt(h, verifier.step) = <<>> /\ thing = <<>>
      /\ Absorbed(op, thing) = <<>> /\ h[verifier.step + 1].sponge = t
  BY <1>2 DEF Duplexes, Absorbed, VerifierKnows, Stands
<1> HIDE DEF t
<1> QED
  BY <1>1, <1>3, VerifierGoesOn

(* The verifier samples the rates the prover sampled, which are fresh. *)
LEMMA SamplingMoves ==
    ASSUME NEW h, ProverKnows(h), VerifierKnows(h), VerifierSamples PROVE VerifierMoves(h)
<1> DEFINE op == schedule[verifier.step]
           thing == said[verifier.step]
           c == ChunkCount(op.n)
           t == AfterSampling(verifier.sponge, c)
<1>1. VerifierRuns("sample")
  BY DEF VerifierSamples
<1>2. Samples(op, thing, SentAt(h, verifier.step), OpenedAt(h, verifier.step),
              h[verifier.step].sponge, h[verifier.step + 1].sponge)
  BY <1>1, VerifierIsAt DEF Operation, SaysScalars, Observes, Duplexes, Samples, SaysPolynomial,
                            SaysEqPolynomial, Opens, Grinds
<1>3. /\ SentAt(h, verifier.step) = <<>> /\ OpenedAt(h, verifier.step) = <<>>
      /\ thing = SampledRates(verifier.sponge, c) /\ MaySample(verifier.sponge, c)
      /\ Absorbed(op, thing) = <<>> /\ h[verifier.step + 1].sponge = t
  BY <1>2 DEF Samples, Absorbed, VerifierKnows, Stands
<1>4. VerifierHears(thing) /\ verifier' = [verifier EXCEPT !.step = @ + 1, !.sponge = t]
  BY <1>3 DEF VerifierSamples
<1> HIDE DEF t
<1> QED
  BY <1>1, <1>3, <1>4, VerifierGoesOn

(* The coefficient that was not sent is recovered from the claim. *)
LEMMA PolynomialMoves ==
    ASSUME NEW h, ProverKnows(h), VerifierKnows(h), NextSumcheckPolynomial PROVE VerifierMoves(h)
<1> DEFINE op == schedule[verifier.step]
           thing == said[verifier.step]
           n == (op.n - 1) * Dim
           rest == Pack(Read(n))
           full == <<EHalf(ESub(op.claim, ESum(rest)))>> \o rest
<1>1. VerifierRuns("sumcheck")
  BY DEF NextSumcheckPolynomial
<1>2. SaysPolynomial(op, thing, SentAt(h, verifier.step), OpenedAt(h, verifier.step),
                     h[verifier.step].sponge, h[verifier.step + 1].sponge)
  BY <1>1, VerifierIsAt DEF Operation, SaysScalars, Observes, Duplexes, Samples, SaysPolynomial,
                            SaysEqPolynomial, Opens, Grinds
<1>3. /\ thing \in Seq(EF) /\ thing # <<>> /\ op.n = Len(thing) /\ op.claim = ClaimedSum(thing)
      /\ SentAt(h, verifier.step) = Flatten(Tail(thing)) /\ OpenedAt(h, verifier.step) = <<>>
      /\ Absorbed(op, thing) = Flatten(thing)
      /\ h[verifier.step + 1].sponge = ObserveMany(h[verifier.step].sponge, Flatten(thing))
  BY <1>2 DEF SaysPolynomial, Absorbed
<1>4. Tail(thing) \in Seq(EF) /\ Len(Tail(thing)) = op.n - 1
  BY <1>3, HeadTailProperties
<1>5. n = Len(SentAt(h, verifier.step))
  BY <1>3, <1>4, PackFlatten
<1>6. HasScalars(n) => full = thing
  <2>1. HasScalars(n) => Read(n) = Flatten(Tail(thing))
    BY <1>1, <1>3, <1>5, Reading
  <2>2. Pack(Flatten(Tail(thing))) = Tail(thing)
    BY <1>4, PackFlatten
  <2>3. HasScalars(n) => rest = Tail(thing)
    BY <2>1, <2>2
  <2>4. <<EHalf(ESub(op.claim, ESum(Tail(thing))))>> \o Tail(thing) = thing
    BY <1>3, SumcheckRecovers
  <2> QED
    BY <2>3, <2>4
<1>7. IF ~HasScalars(n) THEN Refuses("exceeded") ELSE Absorbs(Flatten(full), n) /\ VerifierHears(full)
  BY DEF NextSumcheckPolynomial
<1> HIDE DEF n, full
<1> QED
  BY <1>1, <1>3, <1>5, <1>6, <1>7, VerifierAbsorbs

(* ... and so it is when the eq factor is left out. *)
LEMMA EqPolynomialMoves ==
    ASSUME NEW h, ProverKnows(h), VerifierKnows(h), NextEqSumcheckPolynomial PROVE VerifierMoves(h)
<1> DEFINE op == schedule[verifier.step]
           thing == said[verifier.step]
           n == (op.n - 2) * Dim
           rest == Pack(Read(n))
           h0 == ESub(op.claim, EMul(op.alpha, ESum(rest)))
           full == ExpandBareToFull(<<h0>> \o rest, op.alpha)
<1>1. VerifierRuns("eqSumcheck")
  BY DEF NextEqSumcheckPolynomial
<1>2. SaysEqPolynomial(op, thing, SentAt(h, verifier.step), OpenedAt(h, verifier.step),
                       h[verifier.step].sponge, h[verifier.step + 1].sponge)
  BY <1>1, VerifierIsAt DEF Operation, SaysScalars, Observes, Duplexes, Samples, SaysPolynomial,
                            SaysEqPolynomial, Opens, Grinds
<1>3. PICK bare \in Seq(EF) :
         /\ bare # <<>> /\ op.alpha \in EF
         /\ thing = ExpandBareToFull(bare, op.alpha)
         /\ SentAt(h, verifier.step) = Flatten(Tail(bare))
  BY <1>2 DEF SaysEqPolynomial
<1>4. /\ op.n = Len(thing) /\ op.claim = ClaimedSum(thing) /\ OpenedAt(h, verifier.step) = <<>>
      /\ Absorbed(op, thing) = Flatten(thing)
      /\ h[verifier.step + 1].sponge = ObserveMany(h[verifier.step].sponge, Flatten(thing))
  BY <1>2 DEF SaysEqPolynomial, Absorbed
<1>5. Tail(bare) \in Seq(EF) /\ Len(Tail(bare)) = op.n - 2
  <2>1. Len(thing) = Len(bare) + 1
    BY <1>3, ExpansionIs
  <2>2. Tail(bare) \in Seq(EF) /\ Len(Tail(bare)) = Len(bare) - 1 /\ Len(bare) \in Nat
    BY <1>3, HeadTailProperties, LenProperties
  <2> QED
    BY <1>4, <2>1, <2>2
<1>6. n = Len(SentAt(h, verifier.step))
  BY <1>3, <1>5, PackFlatten
<1>7. HasScalars(n) => full = thing
  <2>1. HasScalars(n) => Read(n) = Flatten(Tail(bare))
    BY <1>1, <1>3, <1>6, Reading
  <2>2. Pack(Flatten(Tail(bare))) = Tail(bare)
    BY <1>5, PackFlatten
  <2>3. HasScalars(n) => rest = Tail(bare)
    BY <2>1, <2>2
  <2>4. <<ESub(op.claim, EMul(op.alpha, ESum(Tail(bare))))>> \o Tail(bare) = bare
    BY <1>3, <1>4, EqSumcheckRecovers
  <2> QED
    BY <1>3, <2>3, <2>4
<1>8. IF ~HasScalars(n) THEN Refuses("exceeded") ELSE Absorbs(Flatten(full), n) /\ VerifierHears(full)
  BY DEF NextEqSumcheckPolynomial
<1> HIDE DEF n, full
<1> QED
  BY <1>1, <1>3, <1>4, <1>6, <1>7, <1>8, VerifierAbsorbs

(* The openings restored are the ones that were hinted, or some are missing. *)
LEMMA OpeningsMove ==
    ASSUME NEW h, ProverKnows(h), VerifierKnows(h), NextMerkleOpenings PROVE VerifierMoves(h)
<1> DEFINE k == verifier.step
           op == schedule[verifier.step]
           thing == said[verifier.step]
           n == op.n
           first == verifier.openingIndex
<1>1. VerifierRuns("openings")
  BY DEF NextMerkleOpenings
<1>2. Opens(op, thing, SentAt(h, k), OpenedAt(h, k), h[k].sponge, h[k + 1].sponge)
  BY <1>1, VerifierIsAt DEF Operation, SaysScalars, Observes, Duplexes, Samples, SaysPolynomial,
                            SaysEqPolynomial, Opens, Grinds
<1>3. /\ n = Len(thing) /\ SentAt(h, k) = <<>> /\ OpenedAt(h, k) = thing /\ Absorbed(op, thing) = <<>>
      /\ h[k + 1].sponge = h[k].sponge
  BY <1>2 DEF Opens, Absorbed
<1>4. /\ verifier \in Verifiers /\ verifier.status = "ok" /\ verifier.offset <= Len(verifier.transcript)
      /\ verifier.offset = h[k].read /\ first = h[k].opened /\ verifier.sponge = h[k].sponge
  BY <1>1 DEF VerifierKnows, Stands, VerifierRuns
<1>5. h[k + 1].opened = first + n /\ h[k + 1].read = verifier.offset
  <2>1. h[k + 1].opened = first + n /\ h[k + 1].read = h[k].read + 0 /\ h[k].read \in Nat
    BY <1>1, <1>3, <1>4, VerifierIsAt, EmptySeq DEF Moments
  <2> QED
    BY <1>4, <2>1
<1>6. /\ h[k + 1].opened <= Len(verifier.openings) =>
            SubSeq(verifier.openings, h[k].opened + 1, h[k + 1].opened) = OpenedAt(h, k)
      /\ intact => h[k + 1].opened <= Len(verifier.openings)
  BY <1>1, VerifierIsAt, ReadsWhatWasSent DEF VerifierKnows
<1>10. h[k + 1].opened \in Nat /\ Len(verifier.openings) \in Nat
  BY <1>1, <1>4, VerifierIsAt, LenProperties DEF Moments, Verifiers
<1>7. CASE first + n > Len(verifier.openings)
  <2>1. Refuses("exceeded")
    BY <1>7 DEF NextMerkleOpenings
  <2>2. ~intact
    BY <1>5, <1>6, <1>7, <1>10
  <2> QED
    BY <2>1, <2>2 DEF VerifierMoves
<1>8. CASE ~(first + n > Len(verifier.openings))
  <2>1. /\ verifier' = [verifier EXCEPT !.step = @ + 1, !.openingIndex = @ + n]
        /\ VerifierHears(SubSeq(verifier.openings, first + 1, first + n))
    BY <1>8 DEF NextMerkleOpenings
  <2>2. h[k + 1].opened <= Len(verifier.openings)
    BY <1>5, <1>8, <1>10
  <2>3. SubSeq(verifier.openings, first + 1, first + n) = thing
    BY <1>3, <1>4, <1>5, <1>6, <2>2
  <2>4. verifier.raw \o PaddedCells(Absorbed(op, thing)) = verifier.raw
    BY <1>3, <1>4, NothingRecorded DEF Verifiers
  <2>5. Moved(verifier, h) =
          [step |-> k + 1, status |-> "ok", sponge |-> verifier.sponge,
           transcript |-> verifier.transcript, offset |-> verifier.offset,
           openings |-> verifier.openings, openingIndex |-> first + n, raw |-> verifier.raw]
    BY <1>3, <1>4, <1>5, <2>4 DEF Moved
  <2>6. verifier' = Moved(verifier, h)
    BY <1>4, <2>1, <2>5, OpenedOn
  <2> QED
    BY <1>4, <1>5, <2>1, <2>2, <2>3, <2>6 DEF VerifierMoves
<1> QED
  BY <1>7, <1>8

(* A witness that passed where it was found passes again. *)
LEMMA GrindingMoves ==
    ASSUME NEW h, ProverKnows(h), VerifierKnows(h), CheckPowGrinding PROVE VerifierMoves(h)
<1> DEFINE k == verifier.step
           op == schedule[verifier.step]
           thing == said[verifier.step]
<1>1. VerifierRuns("grinding")
  BY DEF CheckPowGrinding
<1>2. Grinds(op, thing, SentAt(h, k), OpenedAt(h, k), h[k].sponge, h[k + 1].sponge)
  BY <1>1, VerifierIsAt DEF Operation, SaysScalars, Observes, Duplexes, Samples, SaysPolynomial,
                            SaysEqPolynomial, Opens, Grinds
<1>3. /\ OpenedAt(h, k) = <<>> /\ SentAt(h, k) = thing /\ Absorbed(op, thing) = thing
      /\ verifier.sponge = h[k].sponge /\ verifier \in Verifiers
  BY <1>2 DEF Grinds, Absorbed, VerifierKnows, Stands
<1>4. CASE op.bits = 0
  <2>1. thing = <<>> /\ h[k + 1].sponge = verifier.sponge
    BY <1>2, <1>3, <1>4 DEF Grinds
  <2>2. verifier' = [verifier EXCEPT !.step = @ + 1] /\ VerifierHears(<<>>)
    BY <1>4 DEF CheckPowGrinding
  <2>3. verifier' = [verifier EXCEPT !.step = @ + 1, !.sponge = verifier.sponge]
    BY <1>3, <2>2 DEF Verifiers
  <2> QED
    BY <1>1, <1>3, <2>1, <2>2, <2>3, VerifierGoesOn
<1>5. CASE op.bits # 0
  <2>1. PICK witness \in F : thing = <<witness>>
    BY <1>2, <1>5 DEF Grinds
  <2>2. /\ h[k + 1].sponge = ObserveMany(h[k].sponge, thing)
        /\ GrindingPasses(h[k + 1].sponge, op.bits)
    BY <1>2, <1>5 DEF Grinds
  <2>3. 1 = Len(SentAt(h, k))
    BY <1>3, <2>1
  <2>4. HasScalars(1) => Read(1) = thing
    BY <1>1, <1>3, <2>3, Reading
  <2>5. IF ~HasScalars(1) THEN Refuses("exceeded") ELSE Absorbs(Read(1), 1) /\ VerifierHears(Read(1))
    BY <1>3, <1>5, <2>2, <2>4 DEF CheckPowGrinding
  <2> QED
    BY <1>1, <1>3, <2>2, <2>3, <2>4, <2>5, VerifierAbsorbs
<1> QED
  BY <1>4, <1>5

(* Every step of the verifier is one of the two. *)
LEMMA VerifierStepIs ==
    ASSUME NEW h, ProverKnows(h), VerifierKnows(h), VerifierStep
    PROVE  VerifierMoves(h) /\ \E kind : VerifierRuns(kind)
<1>1. VerifierMoves(h)
  BY ScalarsMove, ObservingMoves, DuplexingMoves, SamplingMoves, PolynomialMoves, EqPolynomialMoves,
     OpeningsMove, GrindingMoves DEF VerifierStep
<1>2. \E kind : VerifierRuns(kind)
  BY DEF VerifierStep, NextBaseScalars, VerifierObserves, VerifierDuplexes, VerifierSamples,
         NextSumcheckPolynomial, NextEqSumcheckPolynomial, NextMerkleOpenings, CheckPowGrinding
<1> QED
  BY <1>1, <1>2

(* Both ways, the history holds of the verifier after its step, and it has     *)
(* heard one thing more or nothing.                                            *)
LEMMA VerifierMovesOn ==
    ASSUME NEW h, ProverKnows(h), VerifierKnows(h), VerifierStep, DOMAIN heard = {"verifier", "guest"}
    PROVE  /\ ProverKnows(h)' /\ VerifierKnows(h)'
           /\ phase = "verifying" /\ UNCHANGED <<phase, proverVars, intact, guest>>
           /\ DOMAIN heard' = {"verifier", "guest"} /\ heard'["guest"] = heard["guest"]
           /\ \/ heard' = heard
              \/ /\ Len(heard["verifier"]) < Len(said)
                 /\ heard' = [heard EXCEPT !["verifier"] = Append(@, said[Len(@) + 1])]
<1>1. VerifierMoves(h)
  BY VerifierStepIs
<1>2. PICK kind : VerifierRuns(kind)
  BY VerifierStepIs
<1>3. /\ phase = "verifying" /\ UNCHANGED <<phase, proverVars, intact, guest>>
      /\ verifier.status = "ok" /\ verifier.step <= Len(schedule)
  BY <1>2 DEF VerifierRuns
<1>4. ProverKnows(h)'
  BY <1>3 DEF ProverKnows, proverVars
<1>5. /\ Stands(verifier, h) /\ Holds(verifier) /\ Recorded(verifier, h)
      /\ HasHeard(heard["verifier"], verifier.step)
      /\ verifier \in Verifiers /\ verifier.step \in Nat \ {0}
  BY SequenceIs DEF VerifierKnows, Stands, ProverKnows
<1>6. CASE ~intact /\ Refuses("exceeded")
  <2>1. /\ verifier' \in Verifiers
        /\ verifier'.step = verifier.step /\ verifier'.sponge = verifier.sponge
        /\ verifier'.transcript = verifier.transcript /\ verifier'.offset = verifier.offset
        /\ verifier'.openings = verifier.openings /\ verifier'.openingIndex = verifier.openingIndex
        /\ verifier'.raw = verifier.raw
    BY <1>5, <1>6 DEF Refuses, Verifiers
  <2>2. heard' = heard
    BY <1>6 DEF Refuses
  <2>3. Stands(verifier', h)
    BY <1>5, <2>1 DEF Stands
  <2>4. Holds(verifier')
    BY <1>5, <1>6, <2>1 DEF Holds
  <2>5. Recorded(verifier', h)
    BY <1>5, <2>1 DEF Recorded
  <2>6. HasHeard(heard'["verifier"], verifier'.step)
    BY <1>5, <2>1, <2>2
  <2>7. VerifierKnows(h)'
    BY <1>3, <2>3, <2>4, <2>5, <2>6 DEF VerifierKnows, Stands, Holds, Recorded, HasHeard, proverVars
  <2> QED
    BY <1>3, <1>4, <2>2, <2>7
<1>7. CASE /\ verifier' = Moved(verifier, h) /\ VerifierHears(said[verifier.step])
           /\ h[verifier.step + 1].read <= Len(verifier.transcript)
           /\ h[verifier.step + 1].opened <= Len(verifier.openings)
  <2>1. Stands(verifier', h) /\ Holds(verifier') /\ Recorded(verifier', h)
    BY <1>3, <1>5, <1>7, Advancing
  <2>2. verifier'.step = verifier.step + 1
    BY <1>7 DEF Moved
  <2>3. heard' = [heard EXCEPT !["verifier"] = Append(@, said[verifier.step])]
    BY <1>7 DEF VerifierHears
  <2>4. /\ heard'["verifier"] = Append(heard["verifier"], said[verifier.step])
        /\ heard'["guest"] = heard["guest"] /\ DOMAIN heard' = {"verifier", "guest"}
    BY <2>3
  <2>5. /\ HasHeard(Append(heard["verifier"], said[verifier.step]), verifier.step + 1)
        /\ Append(heard["verifier"], said[verifier.step]) =
             Append(heard["verifier"], said[Len(heard["verifier"]) + 1])
    BY <1>5, Hearing
  <2>6. HasHeard(heard'["verifier"], verifier'.step)
    BY <2>2, <2>4, <2>5
  <2>7. VerifierKnows(h)'
    BY <1>3, <2>1, <2>6 DEF VerifierKnows, Stands, Holds, Recorded, HasHeard, proverVars
  <2>8. Len(heard["verifier"]) < Len(said)
    <3>1. Len(heard["verifier"]) = verifier.step - 1 /\ Len(said) = Len(schedule) /\ Len(schedule) \in Nat
      BY <1>5, SequenceIs DEF HasHeard, ProverKnows
    <3> QED
      BY <1>3, <1>5, <3>1
  <2>9. heard' = [heard EXCEPT !["verifier"] = Append(@, said[Len(@) + 1])]
    BY <2>3, <2>5
  <2> QED
    BY <1>3, <1>4, <2>4, <2>7, <2>8, <2>9
<1> QED
  BY <1>1, <1>6, <1>7 DEF VerifierMoves

(* A verifier that starts with a part of the scalars and of the openings.      *)
LEMMA VerifierStarts ==
    ASSUME NEW h, ProverKnows(h), heard["verifier"] = <<>>,
           NEW scalars, NEW batches, NewVerifier(scalars, batches),
           scalars \in Seq(F), Len(scalars) <= Len(transcript),
           scalars = SubSeq(transcript, 1, Len(scalars)),
           AllOpenings(batches) \in Seq(Openings),
           Len(AllOpenings(batches)) <= Len(AllOpenings(merklePaths)),
           AllOpenings(batches) = SubSeq(AllOpenings(merklePaths), 1, Len(AllOpenings(batches))),
           (scalars = transcript /\ batches = merklePaths) <=>
               /\ Len(scalars) = Len(transcript)
               /\ Len(AllOpenings(batches)) = Len(AllOpenings(merklePaths))
    PROVE  VerifierKnows(h)'
<1> DEFINE some == AllOpenings(batches)
           v == [step |-> 1, status |-> "ok", sponge |-> NewSponge,
                 transcript |-> scalars, offset |-> 0,
                 openings |-> some, openingIndex |-> 0, raw |-> <<>>]
<1>1. /\ verifier' = v /\ intact' = (scalars = transcript /\ batches = merklePaths)
      /\ UNCHANGED <<proverVars, guest, heard>>
  BY DEF NewVerifier
<1>2. /\ h[1] = FirstMoment /\ Len(schedule) \in Nat
  BY SequenceIs DEF ProverKnows, History
<1>3. /\ v.step = 1 /\ v.status = "ok" /\ v.sponge = NewSponge /\ v.transcript = scalars
      /\ v.offset = 0 /\ v.openings = some /\ v.openingIndex = 0 /\ v.raw = <<>>
  OBVIOUS
<1>4. v \in Verifiers
  <2>1. NewSponge \in Sponges /\ <<>> \in Seq(F)
    BY EmptySeq DEF NewSponge, Sponges
  <2> QED
    BY <2>1 DEF Verifiers
<1> HIDE DEF v, some
<1>5. Stands(v, h)
  <2>1. Len(scalars) \in Nat /\ Len(some) \in Nat
    BY LenProperties DEF some
  <2> QED
    BY <1>2, <1>3, <1>4, <2>1 DEF Stands, FirstMoment
<1>6. Recorded(v, h)
  <2>1. Len(<<>>) = 0 /\ \A k \in 1..1 - 1 : FALSE
    BY EmptySeq
  <2> QED
    BY <1>2, <1>3, <2>1 DEF Recorded, FirstMoment
<1>7. HasHeard(<<>>, 1)
  <2>1. Len(<<>>) = 0 /\ \A k \in 1..1 - 1 : FALSE
    BY EmptySeq
  <2>2. Sequence(<<>>)
    BY EmptySeq DEF Sequence
  <2> QED
    BY <2>1, <2>2 DEF HasHeard
<1>8. Holds(v)'
  BY <1>1, <1>3 DEF Holds, some, proverVars
<1>9. Stands(v, h)' /\ Recorded(v, h)' /\ HasHeard(<<>>, 1)'
  BY <1>1, <1>5, <1>6, <1>7 DEF Stands, Recorded, HasHeard, proverVars
<1> QED
  BY <1>1, <1>3, <1>8, <1>9 DEF VerifierKnows, proverVars

(* A sequence is all of itself, and only itself has all of it. *)
LEMMA WholeIs ==
    ASSUME NEW S, NEW s \in Seq(S)
    PROVE  s = SubSeq(s, 1, Len(s)) /\ Len(s) \in Nat
<1>1. Len(s) \in Nat
  BY LenProperties
<1>2. SubSeq(s, 0 + 1, Len(s)) \in Seq(S) /\ Len(SubSeq(s, 0 + 1, Len(s))) = Len(s)
      /\ \A i \in 1..Len(s) : SubSeq(s, 0 + 1, Len(s))[i] = s[0 + i]
  <2>1. Len(s) - 0 = Len(s)
    BY <1>1
  <2> QED
    BY <1>1, <2>1, PieceIs
<1>3. SubSeq(s, 0 + 1, Len(s)) = s
  <2>1. \A i \in 1..Len(s) : 0 + i = i
    BY <1>1
  <2> QED
    BY <1>2, <2>1, SameSequence DEF Sequence
<1> QED
  BY <1>1, <1>3

(* Without its last batch, a proof has fewer openings, and they are the first. *)
LEMMA WithoutLast ==
    ASSUME NEW batches \in Seq(Pruned), batches # <<>>
    PROVE  LET all == AllOpenings(batches)
               some == AllOpenings(Front(batches))
           IN  /\ some \in Seq(Openings) /\ Len(some) < Len(all)
               /\ some = SubSeq(all, 1, Len(some))
<1>1. PICK s \in Seq(Pruned), x \in Pruned : batches = Append(s, x)
  BY SequenceEmptyOrAppend
<1>2. PICK paths \in Batches : x = Merkle!Prune(paths)
  BY DEF Pruned
<1>3. Front(batches) = s
  <2>1. SubSeq(Append(s, x), 1, Len(s)) = s /\ Len(Append(s, x)) = Len(s) + 1 /\ Len(s) \in Nat
    BY Appending, LenProperties DEF Sequence
  <2>2. Len(batches) - 1 = Len(s)
    BY <1>1, <2>1
  <2> QED
    BY <1>1, <2>1, <2>2 DEF Front
<1> DEFINE some == AllOpenings(s)
           more == Opened(paths)
<1>4. some \in Seq(Openings) /\ AllOpenings(batches) = some \o more
  BY <1>1, <1>2, AllOpeningsAppend
<1>5. more \in Seq(Openings) /\ Len(more) \in Nat \ {0}
  BY BatchIs
<1> HIDE DEF some, more
<1>6. Len(some \o more) = Len(some) + Len(more) /\ Len(some) \in Nat
  BY <1>4, <1>5, ConcatProperties, LenProperties
<1>7. SubSeq(some \o more, 0 + 1, Len(some)) = SubSeq(some, 0 + 1, Len(some))
  BY <1>4, <1>5, <1>6, PieceOfConcat
<1>8. some = SubSeq(some, 1, Len(some))
  BY <1>4, WholeIs
<1>9. some = SubSeq(some \o more, 1, Len(some))
  BY <1>7, <1>8
<1>10. Len(some) < Len(some \o more)
  BY <1>5, <1>6
<1> QED
  BY <1>3, <1>4, <1>9, <1>10 DEF some

(* However much of the proof arrives, the verifier starts at its beginning. *)
LEMMA ReceivingIs ==
    ASSUME NEW h, ProverKnows(h), heard["verifier"] = <<>>, ReceiveProof
    PROVE  /\ ProverKnows(h)' /\ VerifierKnows(h)'
           /\ phase = "proving" /\ phase' = "verifying" /\ UNCHANGED <<proverVars, guest, heard>>
<1> DEFINE all == AllOpenings(merklePaths)
<1>1. transcript \in Seq(F) /\ merklePaths \in Seq(Pruned) /\ all \in Seq(Openings)
  BY OpeningsAre DEF ProverKnows
<1>2. /\ transcript = SubSeq(transcript, 1, Len(transcript)) /\ Len(transcript) \in Nat
      /\ all = SubSeq(all, 1, Len(all)) /\ Len(all) \in Nat
  BY <1>1, WholeIs
<1>7. Len(transcript) \in Nat /\ Len(all) \in Nat
  BY <1>2
<1>8. all = SubSeq(all, 1, Len(all))
  BY <1>2
<1>9. \A x, y \in Nat : x < y => x <= y /\ x # y
  OBVIOUS
<1>3. ASSUME NEW scalars, NEW batches, NewVerifier(scalars, batches)
      PROVE  /\ ProverKnows(h)' /\ phase = "proving" /\ phase' = "verifying"
             /\ UNCHANGED <<proverVars, guest, heard>>
  BY <1>3 DEF NewVerifier, ProverKnows, proverVars
<1>4. CASE NewVerifier(transcript, merklePaths)
  <2>1. VerifierKnows(h)'
    BY <1>1, <1>2, <1>4, VerifierStarts
  <2> QED
    BY <1>3, <1>4, <2>1
<1>5. CASE /\ transcript # <<>>
           /\ \E n \in 0..Len(transcript) - 1 : NewVerifier(SubSeq(transcript, 1, n), merklePaths)
  <2>1. PICK n \in 0..Len(transcript) - 1 : NewVerifier(SubSeq(transcript, 1, n), merklePaths)
    BY <1>5
  <2> DEFINE scalars == SubSeq(transcript, 1, n)
  <2>2. n \in Nat /\ n < Len(transcript) /\ n - 0 = n
    BY <1>2
  <2>3. scalars \in Seq(F) /\ Len(scalars) = n
    <3>1. SubSeq(transcript, 0 + 1, n) \in Seq(F) /\ Len(SubSeq(transcript, 0 + 1, n)) = n - 0
      BY <1>1, <1>2, <2>2, PieceIs
    <3> QED
      BY <2>2, <3>1
  <2>4. scalars = SubSeq(transcript, 1, Len(scalars))
    BY <2>3
  <2>5. NewVerifier(scalars, merklePaths)
    BY <2>1
  <2> HIDE DEF scalars
  <2>6. Len(scalars) <= Len(transcript) /\ Len(scalars) # Len(transcript) /\ scalars # transcript
    <3>1. Len(scalars) <= Len(transcript) /\ Len(scalars) # Len(transcript)
      BY <1>7, <1>9, <2>2, <2>3
    <3> QED
      BY <3>1
  <2>7. VerifierKnows(h)'
    <3>1. /\ Len(all) <= Len(all)
          /\ ~(scalars = transcript /\ merklePaths = merklePaths)
          /\ ~(Len(scalars) = Len(transcript) /\ Len(all) = Len(all))
      BY <1>7, <2>6
    <3> QED
      BY <1>1, <1>8, <2>3, <2>4, <2>5, <2>6, <3>1, VerifierStarts
  <2> QED
    BY <1>3, <2>5, <2>7
<1>6. CASE /\ merklePaths # <<>>
           /\ NewVerifier(transcript, Front(merklePaths))
  <2> DEFINE some == AllOpenings(Front(merklePaths))
  <2>1. /\ some \in Seq(Openings) /\ Len(some) < Len(all) /\ some = SubSeq(all, 1, Len(some))
        /\ Len(some) \in Nat
    BY <1>1, <1>6, WithoutLast, LenProperties
  <2>4. Len(some) \in Nat /\ Len(some) < Len(all)
    BY <2>1
  <2>2. Len(some) <= Len(all) /\ Len(some) # Len(all) /\ Front(merklePaths) # merklePaths
    <3>1. Len(some) <= Len(all) /\ Len(some) # Len(all)
      BY <1>7, <1>9, <2>4
    <3> QED
      BY <3>1
  <2>3. VerifierKnows(h)'
    <3> DEFINE front == Front(merklePaths)
    <3>1. /\ Len(transcript) <= Len(transcript)
          /\ ~(transcript = transcript /\ front = merklePaths)
          /\ ~(Len(transcript) = Len(transcript) /\ Len(some) = Len(all))
      BY <1>7, <2>2
    <3>2. NewVerifier(transcript, front) /\ AllOpenings(front) = some
      BY <1>6
    <3>3. transcript = SubSeq(transcript, 1, Len(transcript)) /\ some \in Seq(Openings)
          /\ some = SubSeq(all, 1, Len(some))
      BY <1>2, <2>1
    <3> HIDE DEF front, some
    <3> QED
      BY <1>1, <2>2, <3>1, <3>2, <3>3, VerifierStarts
  <2> QED
    BY <1>3, <1>6, <2>3
<1> QED
  BY <1>4, <1>5, <1>6 DEF ReceiveProof

-----------------------------------------------------------------------------
(* The guest *)

Guests == [step : Nat, status : {"ok"}, blocks : Seq(Blocks), ptr : Nat, openingIndex : Nat]

(* The guest stands at a moment of the history as well. *)
GuestKnows(h) ==
    /\ guest \in Guests
    /\ guest.step \in 1..Len(schedule) + 1
    /\ guest.blocks = h[guest.step].sponge.blocks
    /\ guest.ptr = h[guest.step].recorded
    /\ guest.openingIndex = h[guest.step].opened
    /\ HasHeard(heard["guest"], guest.step)

(* What it replays: the record of a verifier that got to the end. *)
Replays(h) == ProverKnows(h) /\ VerifierKnows(h) /\ VerifierDone /\ GuestKnows(h)

(* A verifier that got to the end has read all there is.                       *)
LEMMA DoneIsWhole ==
    ASSUME NEW h, ProverKnows(h), VerifierKnows(h), VerifierDone
    PROVE  /\ intact
           /\ verifier.step = Len(schedule) + 1
           /\ verifier.sponge = sponge
           /\ verifier.offset = Len(transcript)
           /\ verifier.openingIndex = Len(verifier.openings)
<1>1. Len(schedule) \in Nat /\ verifier \in Verifiers /\ verifier.step \in 1..Len(schedule) + 1
  BY SequenceIs DEF ProverKnows, VerifierKnows, Stands
<1>2. verifier.step = Len(schedule) + 1
  BY <1>1 DEF VerifierDone
<1>3. /\ verifier.sponge = sponge
      /\ verifier.offset = Len(transcript) /\ verifier.offset <= Len(verifier.transcript)
      /\ verifier.openingIndex = Len(AllOpenings(merklePaths))
      /\ verifier.openingIndex <= Len(verifier.openings)
  BY <1>2 DEF ProverKnows, History, VerifierKnows, Stands
<1>4. /\ Len(verifier.transcript) \in Nat /\ Len(verifier.openings) \in Nat
      /\ Len(transcript) \in Nat /\ Len(AllOpenings(merklePaths)) \in Nat
  BY <1>1, OpeningsAre, LenProperties DEF Verifiers, ProverKnows
<1>5. /\ Len(verifier.transcript) <= Len(transcript)
      /\ Len(verifier.openings) <= Len(AllOpenings(merklePaths))
  BY DEF VerifierKnows, Holds
<1>6. /\ Len(verifier.transcript) = Len(transcript)
      /\ Len(verifier.openings) = Len(AllOpenings(merklePaths))
  BY <1>3, <1>4, <1>5
<1>7. intact
  BY <1>6 DEF VerifierKnows, Holds
<1> QED
  BY <1>2, <1>3, <1>6, <1>7

(* The cells recorded of an operation, without and with their padding. *)
LEMMA StartOfPadding ==
    ASSUME NEW x \in Seq(F)
    PROVE  SubSeq(PaddedCells(x), 1, Len(x)) = x
<1> DEFINE n == Len(x)
           p == PaddedCells(x)
<1>1. n \in Nat /\ p \in Seq(F) /\ Len(p) = ChunkCount(n) * Rate /\ n <= Len(p)
      /\ \A i \in 1..n : p[i] = x[i]
  BY PaddingIs, ChunkCountIs, LenProperties
<1> HIDE DEF n, p
<1>2. SubSeq(p, 0 + 1, n) \in Seq(F) /\ Len(SubSeq(p, 0 + 1, n)) = n - 0
      /\ \A i \in 1..n - 0 : SubSeq(p, 0 + 1, n)[i] = p[0 + i]
  BY <1>1, PieceIs
<1>3. n - 0 = n /\ 0 + 1 = 1 /\ \A i \in 1..n : 0 + i = i
  BY <1>1
<1>4. SubSeq(p, 1, n) \in Seq(F) /\ Len(SubSeq(p, 1, n)) = Len(x)
      /\ \A i \in 1..Len(x) : SubSeq(p, 1, n)[i] = x[i]
  BY <1>1, <1>2, <1>3 DEF n
<1>5. SubSeq(p, 1, n) = x
  <2>1. Sequence(SubSeq(p, 1, n)) /\ Sequence(x)
    BY <1>4 DEF Sequence
  <2> QED
    BY <1>4, <2>1, SameSequence
<1> QED
  BY <1>5 DEF n, p

(* What the guest finds at its cursor is what the operation absorbed. *)
LEMMA RecordIs ==
    ASSUME NEW h, Replays(h), guest.step <= Len(schedule),
           NEW x, x = Absorbed(schedule[guest.step], said[guest.step])
    PROVE  LET cells == ChunkCount(Len(x)) * Rate
           IN  /\ x \in Seq(F)
               /\ h[guest.step + 1].recorded = guest.ptr + cells
               /\ guest.ptr + cells <= Len(verifier.raw)
               /\ RawCells(cells) = PaddedCells(x)
               /\ RawCells(Len(x)) = x
<1> DEFINE k == guest.step
           n == Len(schedule)
           cells == ChunkCount(Len(x)) * Rate
<1>1. k \in 1..n /\ k + 1 \in 1..n + 1 /\ n + 1 \in 1..n + 1 /\ k + 1 <= n + 1 /\ n \in Nat
  BY SequenceIs DEF Replays, GuestKnows, ProverKnows
<1>2. verifier.step = n + 1 /\ verifier.step - 1 = n /\ verifier.raw \in Seq(F)
  <2>1. verifier.step = n + 1
    BY DoneIsWhole DEF Replays
  <2> QED
    BY <1>1, <2>1 DEF Replays, VerifierKnows, Stands, Verifiers
<1>3. /\ x \in Seq(F)
      /\ h[k + 1].recorded = h[k].recorded + Len(PaddedCells(x))
      /\ h[k].recorded \in Nat /\ h[k + 1].recorded \in Nat
  BY <1>1, OperationAt DEF Replays, Performed, Moments
<1>4. Len(PaddedCells(x)) = cells /\ cells \in Nat /\ Len(x) \in Nat /\ Len(x) <= cells
  BY <1>3, PaddingIs, ChunkCountIs, LenProperties
<1>5. Len(verifier.raw) = h[n + 1].recorded
      /\ SubSeq(verifier.raw, h[k].recorded + 1, h[k + 1].recorded) = PaddedCells(x)
  BY <1>1, <1>2 DEF Replays, VerifierKnows, Recorded
<1>6. h[k + 1].recorded <= Len(verifier.raw)
  <2>1. Follows(h[k + 1], h[n + 1])
    BY <1>1 DEF Replays, ProverKnows, History
  <2> QED
    BY <1>5, <2>1 DEF Follows
<1>7. guest.ptr = h[k].recorded
  BY DEF Replays, GuestKnows
<1> HIDE DEF k, n, cells
<1>8. RawCells(cells) = PaddedCells(x)
  BY <1>3, <1>4, <1>5, <1>7 DEF RawCells
<1>9. guest.ptr + cells <= Len(verifier.raw) /\ guest.ptr \in Nat
  BY <1>3, <1>4, <1>6, <1>7
<1>10. SubSeq(RawCells(cells), 1, Len(x)) = RawCells(Len(x))
  <2> DEFINE r == verifier.raw
             p == guest.ptr
             m == Len(x)
  <2>1. r \in Seq(F) /\ p \in Nat /\ m \in Nat /\ m <= cells /\ p + cells <= Len(r)
    BY <1>2, <1>4, <1>9
  <2> HIDE DEF r, p, m
  <2>2. SubSeq(SubSeq(r, p + 1, p + cells), 1, m) = SubSeq(r, p + 1, p + m)
    BY <1>4, <2>1, StartOfPiece
  <2> QED
    BY <2>2 DEF r, p, m, RawCells
<1>11. RawCells(Len(x)) = x
  BY <1>3, <1>8, <1>10, StartOfPadding
<1>12. h[k + 1].recorded = guest.ptr + cells
  BY <1>3, <1>4, <1>7
<1> QED
  BY <1>3, <1>8, <1>9, <1>11, <1>12 DEF k, cells

(* The guest, one operation on. *)
GuestMoved(h) ==
    [step |-> guest.step + 1, status |-> "ok", blocks |-> h[guest.step + 1].sponge.blocks,
     ptr |-> h[guest.step + 1].recorded, openingIndex |-> h[guest.step + 1].opened]

GuestMoves(h) == guest' = GuestMoved(h) /\ GuestHears(said[guest.step])

(* The ways the guest changes. *)
LEMMA GuestChanges ==
    ASSUME NEW g \in Guests, NEW b, NEW p, NEW o
    PROVE  /\ [g EXCEPT !.step = @ + 1, !.blocks = b] =
                [step |-> g.step + 1, status |-> "ok", blocks |-> b, ptr |-> g.ptr,
                 openingIndex |-> g.openingIndex]
           /\ [g EXCEPT !.step = @ + 1, !.ptr = p, !.blocks = b] =
                [step |-> g.step + 1, status |-> "ok", blocks |-> b, ptr |-> p,
                 openingIndex |-> g.openingIndex]
           /\ [g EXCEPT !.step = @ + 1, !.openingIndex = o] =
                [step |-> g.step + 1, status |-> "ok", blocks |-> g.blocks, ptr |-> g.ptr,
                 openingIndex |-> o]
<1> DEFINE fields == {"step", "status", "blocks", "ptr", "openingIndex"}
<1>1. DOMAIN g = fields /\ g.status = "ok" /\ g = [f \in fields |-> g[f]]
  BY DEF Guests
<1>2. [g EXCEPT !.step = @ + 1, !.blocks = b] =
        [f \in fields |-> IF f = "step" THEN g.step + 1 ELSE IF f = "blocks" THEN b ELSE g[f]]
  BY <1>1
<1>3. [g EXCEPT !.step = @ + 1, !.ptr = p, !.blocks = b] =
        [f \in fields |-> IF f = "step" THEN g.step + 1 ELSE IF f = "ptr" THEN p
                          ELSE IF f = "blocks" THEN b ELSE g[f]]
  BY <1>1
<1>4. [g EXCEPT !.step = @ + 1, !.openingIndex = o] =
        [f \in fields |-> IF f = "step" THEN g.step + 1 ELSE IF f = "openingIndex" THEN o ELSE g[f]]
  BY <1>1
<1>5. [step |-> g.step + 1, status |-> "ok", blocks |-> b, ptr |-> g.ptr, openingIndex |-> g.openingIndex] =
        [f \in fields |-> IF f = "step" THEN g.step + 1 ELSE IF f = "blocks" THEN b ELSE g[f]]
  BY <1>1
<1>6. [step |-> g.step + 1, status |-> "ok", blocks |-> b, ptr |-> p, openingIndex |-> g.openingIndex] =
        [f \in fields |-> IF f = "step" THEN g.step + 1 ELSE IF f = "ptr" THEN p
                          ELSE IF f = "blocks" THEN b ELSE g[f]]
  BY <1>1
<1>7. [step |-> g.step + 1, status |-> "ok", blocks |-> g.blocks, ptr |-> g.ptr, openingIndex |-> o] =
        [f \in fields |-> IF f = "step" THEN g.step + 1 ELSE IF f = "openingIndex" THEN o ELSE g[f]]
  BY <1>1
<1> QED
  BY <1>2, <1>3, <1>4, <1>5, <1>6, <1>7

(* Before any operation of the guest. *)
LEMMA GuestIsAt ==
    ASSUME NEW h, Replays(h), NEW kind, GuestRuns(kind)
    PROVE  /\ guest.step \in 1..Len(schedule) /\ guest \in Guests
           /\ Operation(schedule[guest.step], said[guest.step], SentAt(h, guest.step),
                        OpenedAt(h, guest.step), h[guest.step].sponge, h[guest.step + 1].sponge)
           /\ h[guest.step + 1].opened = h[guest.step].opened + Len(OpenedAt(h, guest.step))
           /\ h[guest.step] \in Moments /\ h[guest.step + 1] \in Moments
           /\ schedule[guest.step].kind = kind
           /\ guest.blocks = h[guest.step].sponge.blocks /\ guest.openingIndex = h[guest.step].opened
           /\ h[guest.step].sponge \in Sponges
           /\ guest.step <= Len(schedule)
<1>1. guest.step \in 1..Len(schedule) /\ guest \in Guests
  BY SequenceIs DEF GuestRuns, Replays, GuestKnows, ProverKnows
<1>2. /\ schedule[guest.step].kind = kind
      /\ guest.blocks = h[guest.step].sponge.blocks /\ guest.openingIndex = h[guest.step].opened
  BY DEF GuestRuns, Replays, GuestKnows
<1>3. /\ h[guest.step] \in Moments /\ h[guest.step + 1] \in Moments
      /\ Performed(schedule[guest.step], said[guest.step], SentAt(h, guest.step), OpenedAt(h, guest.step),
                   h[guest.step], h[guest.step + 1])
  BY <1>1, OperationAt DEF Replays
<1> QED
  BY <1>1, <1>2, <1>3 DEF Performed, Moments, GuestRuns

(* An operation that opens nothing. *)
LEMMA GuestOpensNothing ==
    ASSUME NEW h, Replays(h), NEW kind, GuestRuns(kind), OpenedAt(h, guest.step) = <<>>
    PROVE  h[guest.step + 1].opened = guest.openingIndex
<1>1. h[guest.step + 1].opened = h[guest.step].opened + 0 /\ h[guest.step].opened \in Nat
  BY GuestIsAt, EmptySeq DEF Moments
<1> QED
  BY <1>1, GuestIsAt

(* The guest absorbs the padded cells it finds as the prover absorbed them. *)
LEMMA GuestReceives ==
    ASSUME NEW h, Replays(h), NEW kind, GuestRuns(kind), OpenedAt(h, guest.step) = <<>>,
           NEW x, x = Absorbed(schedule[guest.step], said[guest.step]),
           h[guest.step + 1].sponge = ObserveMany(h[guest.step].sponge, x),
           NEW n, n = Len(x), NEW checked, NEW thing, thing = said[guest.step],
           Receives(n, checked, thing)
    PROVE  GuestMoves(h)
<1> DEFINE cells == ChunkCount(n) * Rate
<1>1. /\ x \in Seq(F) /\ h[guest.step + 1].recorded = guest.ptr + cells
      /\ guest.ptr + cells <= Len(verifier.raw) /\ RawCells(cells) = PaddedCells(x)
  BY GuestIsAt, RecordIs
<1>2. \A i \in n + 1..cells : RawCells(cells)[i] = 0
  <2>1. \A i \in Len(x) + 1..ChunkCount(Len(x)) * Rate : PaddedCells(x)[i] = 0
    BY <1>1, PaddingIs
  <2> QED
    BY <1>1, <2>1
<1>3. guest.blocks \o PaddedChunks(RawCells(cells)) = h[guest.step + 1].sponge.blocks
  <2>1. PaddedChunks(PaddedCells(x)) = PaddedChunks(x)
    BY <1>1, PaddedOnce
  <2>2. ObserveMany(h[guest.step].sponge, x).blocks = h[guest.step].sponge.blocks \o PaddedChunks(x)
    BY <1>1, GuestIsAt, ObservingIs
  <2> QED
    BY <1>1, <2>1, <2>2, GuestIsAt
<1>4. h[guest.step + 1].opened = guest.openingIndex
  BY GuestOpensNothing
<1>5. ~(guest.ptr + cells > Len(verifier.raw))
  <2>1. guest.ptr \in Nat /\ cells \in Nat /\ Len(verifier.raw) \in Nat
    <3>1. guest.ptr \in Nat /\ verifier.raw \in Seq(F)
      BY GuestIsAt DEF Guests, Replays, VerifierKnows, Stands, Verifiers
    <3>2. n \in Nat
      BY <1>1, LenProperties
    <3> QED
      BY <3>1, <3>2, ChunkCountIs, LenProperties
  <2> HIDE DEF cells
  <2> QED
    BY <1>1, <2>1
<1>6. /\ guest' = [guest EXCEPT !.step = @ + 1, !.ptr = @ + cells,
                                !.blocks = @ \o PaddedChunks(RawCells(cells))]
      /\ GuestHears(thing)
  BY <1>2, <1>5 DEF Receives
<1> HIDE DEF cells
<1>7. guest' = [guest EXCEPT !.step = @ + 1, !.ptr = h[guest.step + 1].recorded,
                             !.blocks = h[guest.step + 1].sponge.blocks]
  BY <1>1, <1>3, <1>6
<1>8. guest' = GuestMoved(h)
  <2>1. guest \in Guests
    BY GuestIsAt
  <2>2. guest' = [step |-> guest.step + 1, status |-> "ok", blocks |-> h[guest.step + 1].sponge.blocks,
                  ptr |-> h[guest.step + 1].recorded, openingIndex |-> guest.openingIndex]
    BY <1>7, <2>1, GuestChanges
  <2> QED
    BY <1>4, <2>2 DEF GuestMoved
<1> QED
  BY <1>6, <1>8 DEF GuestMoves

(* An operation of which nothing is recorded: only blocks are added. *)
LEMMA GuestGoesOn ==
    ASSUME NEW h, Replays(h), NEW kind, GuestRuns(kind), OpenedAt(h, guest.step) = <<>>,
           Absorbed(schedule[guest.step], said[guest.step]) = <<>>,
           NEW blocks, h[guest.step + 1].sponge.blocks = guest.blocks \o blocks,
           GuestAbsorbs(blocks), GuestHears(said[guest.step])
    PROVE  GuestMoves(h)
<1>1. h[guest.step + 1].recorded = guest.ptr + ChunkCount(0) * Rate
  BY GuestIsAt, RecordIs, EmptySeq
<1>2. h[guest.step + 1].recorded = guest.ptr
  <2>1. ChunkCount(0) * Rate = 0
    BY ChunkCountIs, ChallengerAssumption
  <2>2. guest.ptr \in Nat
    BY GuestIsAt DEF Guests
  <2> QED
    BY <1>1, <2>1, <2>2
<1>3. guest' = [guest EXCEPT !.step = @ + 1, !.blocks = h[guest.step + 1].sponge.blocks]
  BY DEF GuestAbsorbs
<1>4. h[guest.step + 1].opened = guest.openingIndex
  BY GuestOpensNothing
<1>5. guest' = GuestMoved(h)
  <2>1. guest \in Guests
    BY GuestIsAt
  <2>2. guest' = [step |-> guest.step + 1, status |-> "ok", blocks |-> h[guest.step + 1].sponge.blocks,
                  ptr |-> guest.ptr, openingIndex |-> guest.openingIndex]
    BY <1>3, <2>1, GuestChanges
  <2> QED
    BY <1>2, <1>4, <2>2 DEF GuestMoved
<1> QED
  BY <1>5 DEF GuestMoves

(* Scalars are found at the cursor, padding behind them. *)
LEMMA GuestScalarsMove ==
    ASSUME NEW h, Replays(h), GuestReceivesScalars PROVE GuestMoves(h)
<1> DEFINE op == schedule[guest.step]
           thing == said[guest.step]
           n == op.n
<1>1. GuestRuns("scalars")
  BY DEF GuestReceivesScalars
<1>2. SaysScalars(op, thing, SentAt(h, guest.step), OpenedAt(h, guest.step),
                  h[guest.step].sponge, h[guest.step + 1].sponge)
  BY <1>1, GuestIsAt DEF Operation, SaysScalars, Observes, Duplexes, Samples, SaysPolynomial,
                         SaysEqPolynomial, Opens, Grinds
<1>3. /\ n = Len(thing) /\ OpenedAt(h, guest.step) = <<>> /\ Absorbed(op, thing) = thing
      /\ h[guest.step + 1].sponge = ObserveMany(h[guest.step].sponge, thing)
  BY <1>2 DEF SaysScalars, Absorbed
<1>4. RawCells(n) = thing
  BY <1>1, <1>3, GuestIsAt, RecordIs
<1>5. Receives(n, FALSE, thing)
  BY <1>4 DEF GuestReceivesScalars
<1> QED
  BY <1>1, <1>3, <1>5, GuestReceives

(* All the coefficients of a polynomial are there, the recovered one as well. *)
LEMMA GuestPolynomialMoves ==
    ASSUME NEW h, Replays(h), GuestReceivesPolynomial PROVE GuestMoves(h)
<1> DEFINE op == schedule[guest.step]
           thing == said[guest.step]
           n == op.n * Dim
<1>1. PICK kind \in {"sumcheck", "eqSumcheck"} : GuestRuns(kind)
  BY DEF GuestReceivesPolynomial
<1>2. \/ SaysPolynomial(op, thing, SentAt(h, guest.step), OpenedAt(h, guest.step),
                        h[guest.step].sponge, h[guest.step + 1].sponge)
      \/ SaysEqPolynomial(op, thing, SentAt(h, guest.step), OpenedAt(h, guest.step),
                          h[guest.step].sponge, h[guest.step + 1].sponge)
  BY <1>1, GuestIsAt DEF Operation, SaysScalars, Observes, Duplexes, Samples, SaysPolynomial,
                         SaysEqPolynomial, Opens, Grinds
<1>3. thing \in Seq(EF)
  <2>1. CASE SaysPolynomial(op, thing, SentAt(h, guest.step), OpenedAt(h, guest.step),
                            h[guest.step].sponge, h[guest.step + 1].sponge)
    BY <2>1 DEF SaysPolynomial
  <2>2. CASE SaysEqPolynomial(op, thing, SentAt(h, guest.step), OpenedAt(h, guest.step),
                              h[guest.step].sponge, h[guest.step + 1].sponge)
    <3>1. PICK bare \in Seq(EF) : bare # <<>> /\ op.alpha \in EF /\ thing = ExpandBareToFull(bare, op.alpha)
      BY <2>2 DEF SaysEqPolynomial
    <3> QED
      BY <3>1, ExpansionIs
  <2> QED
    BY <1>2, <2>1, <2>2
<1>4. /\ op.n = Len(thing) /\ OpenedAt(h, guest.step) = <<>> /\ Absorbed(op, thing) = Flatten(thing)
      /\ h[guest.step + 1].sponge = ObserveMany(h[guest.step].sponge, Flatten(thing))
  BY <1>2 DEF SaysPolynomial, SaysEqPolynomial, Absorbed
<1>5. n = Len(Flatten(thing)) /\ Pack(Flatten(thing)) = thing
  BY <1>3, <1>4, PackFlatten
<1>6. Pack(RawCells(n)) = thing
  <2>1. RawCells(Len(Flatten(thing))) = Flatten(thing)
    BY <1>1, <1>4, GuestIsAt, RecordIs
  <2> QED
    BY <1>5, <2>1
<1>7. Receives(n, TRUE, thing)
  BY <1>6 DEF GuestReceivesPolynomial
<1> HIDE DEF n
<1> QED
  BY <1>1, <1>4, <1>5, <1>7, GuestReceives

(* Observing is the same on both sides. *)
LEMMA GuestObservingMoves ==
    ASSUME NEW h, Replays(h), GuestObserves PROVE GuestMoves(h)
<1> DEFINE op == schedule[guest.step]
           thing == said[guest.step]
           blocks == PaddedChunks(op.data)
<1>1. GuestRuns("observe") /\ GuestAbsorbs(blocks) /\ GuestHears(<<>>)
  BY DEF GuestObserves
<1>2. Observes(op, thing, SentAt(h, guest.step), OpenedAt(h, guest.step),
               h[guest.step].sponge, h[guest.step + 1].sponge)
  BY <1>1, GuestIsAt DEF Operation, SaysScalars, Observes, Duplexes, Samples, SaysPolynomial,
                         SaysEqPolynomial, Opens, Grinds
<1>3. /\ op.data \in Seq(F) /\ thing = <<>> /\ OpenedAt(h, guest.step) = <<>> /\ Absorbed(op, thing) = <<>>
      /\ h[guest.step + 1].sponge = ObserveMany(h[guest.step].sponge, op.data)
  BY <1>2 DEF Observes, Absorbed
<1>4. h[guest.step + 1].sponge.blocks = guest.blocks \o blocks
  <2>1. h[guest.step].sponge \in Sponges /\ guest.blocks = h[guest.step].sponge.blocks
    BY <1>1, GuestIsAt
  <2>2. ObserveMany(h[guest.step].sponge, op.data).blocks = h[guest.step].sponge.blocks \o blocks
    BY <1>3, <2>1, ObservingIs
  <2> QED
    BY <1>3, <2>1, <2>2
<1> HIDE DEF blocks
<1> QED
  BY <1>1, <1>3, <1>4, GuestGoesOn

(* So is a duplex. *)
LEMMA GuestDuplexingMoves ==
    ASSUME NEW h, Replays(h), GuestDuplexes PROVE GuestMoves(h)
<1> DEFINE op == schedule[guest.step]
           thing == said[guest.step]
           blocks == <<ZeroBlock>>
<1>1. GuestRuns("duplex") /\ GuestAbsorbs(blocks) /\ GuestHears(<<>>)
  BY DEF GuestDuplexes
<1>2. Duplexes(op, thing, SentAt(h, guest.step), OpenedAt(h, guest.step),
               h[guest.step].sponge, h[guest.step + 1].sponge)
  BY <1>1, GuestIsAt DEF Operation, SaysScalars, Observes, Duplexes, Samples, SaysPolynomial,
                         SaysEqPolynomial, Opens, Grinds
<1>3. /\ thing = <<>> /\ OpenedAt(h, guest.step) = <<>> /\ Absorbed(op, thing) = <<>>
      /\ h[guest.step + 1].sponge = Duplex(h[guest.step].sponge)
  BY <1>2 DEF Duplexes, Absorbed
<1>4. h[guest.step + 1].sponge.blocks = guest.blocks \o blocks
  <2>1. h[guest.step].sponge \in Sponges /\ guest.blocks = h[guest.step].sponge.blocks
    BY <1>1, GuestIsAt
  <2>2. Duplex(h[guest.step].sponge).blocks = h[guest.step].sponge.blocks \o blocks
    BY <2>1, DuplexIs
  <2> QED
    BY <1>3, <2>1, <2>2
<1> HIDE DEF blocks
<1> QED
  BY <1>1, <1>3, <1>4, GuestGoesOn

(* The guest samples what was sampled, though its sponge forgets what is fresh. *)
LEMMA GuestSamplingMoves ==
    ASSUME NEW h, Replays(h), GuestSamples PROVE GuestMoves(h)
<1> DEFINE op == schedule[guest.step]
           thing == said[guest.step]
           chunks == ChunkCount(op.n)
           blocks == [k \in 1..chunks - 1 |-> ZeroBlock]
           s == [blocks |-> guest.blocks, fresh |-> TRUE]
<1>1. GuestRuns("sample") /\ GuestAbsorbs(blocks) /\ GuestHears(SampledRates(s, chunks))
  BY DEF GuestSamples
<1>2. Samples(op, thing, SentAt(h, guest.step), OpenedAt(h, guest.step),
              h[guest.step].sponge, h[guest.step + 1].sponge)
  <2>1. op.kind = "sample" /\ Operation(op, thing, SentAt(h, guest.step), OpenedAt(h, guest.step),
                                        h[guest.step].sponge, h[guest.step + 1].sponge)
    BY <1>1, GuestIsAt
  <2> HIDE DEF op, thing
  <2> QED
    BY ONLY <2>1 DEF Operation, SaysScalars, Observes, Duplexes, Samples, SaysPolynomial,
                     SaysEqPolynomial, Opens, Grinds
<1>3. /\ op.n \in Nat /\ thing = SampledRates(h[guest.step].sponge, chunks)
      /\ OpenedAt(h, guest.step) = <<>> /\ Absorbed(op, thing) = <<>>
      /\ h[guest.step + 1].sponge = AfterSampling(h[guest.step].sponge, chunks)
  BY <1>2 DEF Samples, Absorbed
<1>4. h[guest.step + 1].sponge.blocks = guest.blocks \o blocks
  <2>1. h[guest.step].sponge \in Sponges /\ guest.blocks = h[guest.step].sponge.blocks
    BY <1>1, GuestIsAt
  <2>2. chunks \in Nat
    BY <1>3, ChunkCountIs
  <2> HIDE DEF chunks
  <2>3. AfterSampling(h[guest.step].sponge, chunks).blocks = h[guest.step].sponge.blocks \o blocks
    BY <2>1, <2>2, SamplingIs
  <2> QED
    BY <1>3, <2>1, <2>3
<1>5. SampledRates(s, chunks) = thing
  <2>1. s.blocks = h[guest.step].sponge.blocks
    BY <1>1, GuestIsAt
  <2> QED
    BY <1>3, <2>1 DEF SampledRates
<1> HIDE DEF blocks
<1> QED
  BY <1>1, <1>3, <1>4, <1>5, GuestGoesOn

(* The openings are the verifier's. *)
LEMMA GuestOpeningsMove ==
    ASSUME NEW h, Replays(h), GuestOpens PROVE GuestMoves(h)
<1> DEFINE k == guest.step
           op == schedule[guest.step]
           thing == said[guest.step]
           n == op.n
<1>1. /\ GuestRuns("openings")
      /\ guest' = [guest EXCEPT !.step = @ + 1, !.openingIndex = @ + n]
      /\ GuestHears(SubSeq(verifier.openings, guest.openingIndex + 1, guest.openingIndex + n))
  BY DEF GuestOpens
<1>2. Opens(op, thing, SentAt(h, k), OpenedAt(h, k), h[k].sponge, h[k + 1].sponge)
  BY <1>1, GuestIsAt DEF Operation, SaysScalars, Observes, Duplexes, Samples, SaysPolynomial,
                         SaysEqPolynomial, Opens, Grinds
<1>3. /\ n = Len(thing) /\ OpenedAt(h, k) = thing /\ Absorbed(op, thing) = <<>>
      /\ h[k + 1].sponge = h[k].sponge
  BY <1>2 DEF Opens, Absorbed
<1>4. h[k + 1].opened = guest.openingIndex + n /\ guest.openingIndex = h[k].opened
  BY <1>1, <1>3, GuestIsAt
<1>5. SubSeq(verifier.openings, guest.openingIndex + 1, guest.openingIndex + n) = thing
  <2>1. SubSeq(verifier.openings, h[k].opened + 1, h[k + 1].opened) = OpenedAt(h, k)
    BY <1>1, GuestIsAt, ReadsWhatWasSent, DoneIsWhole DEF Replays, VerifierKnows
  <2> QED
    BY <1>3, <1>4, <2>1
<1>6. h[k + 1].recorded = guest.ptr
  <2>1. h[k + 1].recorded = guest.ptr + ChunkCount(0) * Rate
    BY <1>1, <1>3, GuestIsAt, RecordIs, EmptySeq
  <2>2. ChunkCount(0) * Rate = 0
    BY ChunkCountIs, ChallengerAssumption
  <2>3. guest.ptr \in Nat
    BY <1>1, GuestIsAt DEF Guests
  <2> QED
    BY <2>1, <2>2, <2>3
<1>7. h[k + 1].sponge.blocks = guest.blocks /\ guest \in Guests
  BY <1>1, <1>3, GuestIsAt
<1>8. guest' = GuestMoved(h)
  <2>1. guest' = [guest EXCEPT !.step = @ + 1, !.openingIndex = h[k + 1].opened]
    BY <1>1, <1>4
  <2>2. guest' = [step |-> guest.step + 1, status |-> "ok", blocks |-> guest.blocks, ptr |-> guest.ptr,
                  openingIndex |-> h[k + 1].opened]
    BY <1>7, <2>1, GuestChanges
  <2> QED
    BY <1>6, <1>7, <2>2 DEF GuestMoved
<1> QED
  BY <1>1, <1>5, <1>8 DEF GuestMoves

(* The witness is the first cell of its chunk, and its work is done. *)
LEMMA GuestGrindingMoves ==
    ASSUME NEW h, Replays(h), GuestGrinds PROVE GuestMoves(h)
<1> DEFINE k == guest.step
           op == schedule[guest.step]
           thing == said[guest.step]
           s == [blocks |-> guest.blocks \o PaddedChunks(RawCells(Rate))]
<1>1. GuestRuns("grinding")
  BY DEF GuestGrinds
<1>2. Grinds(op, thing, SentAt(h, k), OpenedAt(h, k), h[k].sponge, h[k + 1].sponge)
  BY <1>1, GuestIsAt DEF Operation, SaysScalars, Observes, Duplexes, Samples, SaysPolynomial,
                         SaysEqPolynomial, Opens, Grinds
<1>3. OpenedAt(h, k) = <<>> /\ Absorbed(op, thing) = thing
  BY <1>2 DEF Grinds, Absorbed
<1>4. CASE op.bits = 0
  <2>1. thing = <<>> /\ h[k + 1].sponge = h[k].sponge
    BY <1>2, <1>4 DEF Grinds
  <2>2. GuestAbsorbs(<<>>) /\ GuestHears(<<>>)
    BY <1>4 DEF GuestGrinds
  <2>3. h[k + 1].sponge.blocks = guest.blocks \o <<>>
    <3>1. guest.blocks \in Seq(Blocks) /\ h[k + 1].sponge.blocks = guest.blocks
      BY <1>1, <2>1, GuestIsAt DEF Sponges
    <3> QED
      BY <3>1, ConcatEmptySeq
  <2> QED
    BY <1>1, <1>3, <2>1, <2>2, <2>3, GuestGoesOn
<1>5. CASE op.bits # 0
  <2>1. PICK witness \in F : thing = <<witness>>
    BY <1>2, <1>5 DEF Grinds
  <2>2. /\ h[k + 1].sponge = ObserveMany(h[k].sponge, thing)
        /\ GrindingPasses(h[k + 1].sponge, op.bits)
    BY <1>2, <1>5 DEF Grinds
  <2>3. Len(thing) = 1 /\ ChunkCount(1) * Rate = Rate
    BY <2>1, ChunkCountIs, ChallengerAssumption
  <2>4. /\ thing \in Seq(F) /\ h[k + 1].recorded = guest.ptr + Rate
        /\ guest.ptr + Rate <= Len(verifier.raw)
        /\ RawCells(Rate) = PaddedCells(thing) /\ RawCells(1) = thing
    BY <1>1, <1>3, <2>3, GuestIsAt, RecordIs
  <2>5. s.blocks = h[k + 1].sponge.blocks
    <3>1. PaddedChunks(PaddedCells(thing)) = PaddedChunks(thing)
      BY <2>4, PaddedOnce
    <3>2. ObserveMany(h[k].sponge, thing).blocks = h[k].sponge.blocks \o PaddedChunks(thing)
      BY <1>1, <2>4, GuestIsAt, ObservingIs
    <3> QED
      BY <1>1, <2>2, <2>4, <3>1, <3>2, GuestIsAt
  <2>6. GrindingPasses(s, op.bits)
    <3> HIDE DEF s
    <3> QED
      BY <2>2, <2>5 DEF GrindingPasses
  <2>7. ~(guest.ptr + Rate > Len(verifier.raw))
    <3>1. guest.ptr \in Nat /\ Rate \in Nat /\ Len(verifier.raw) \in Nat
      BY <1>1, GuestIsAt, LenProperties, ChallengerAssumption DEF Guests, Replays, VerifierKnows, Stands, Verifiers
    <3> QED
      BY <2>4, <3>1
  <2>8. /\ guest' = [guest EXCEPT !.step = @ + 1, !.ptr = @ + Rate, !.blocks = s.blocks]
        /\ GuestHears(RawCells(1))
    BY <1>5, <2>6, <2>7 DEF GuestGrinds
  <2> HIDE DEF s
  <2>9. guest' = [guest EXCEPT !.step = @ + 1, !.ptr = h[k + 1].recorded, !.blocks = h[k + 1].sponge.blocks]
    BY <2>4, <2>5, <2>8
  <2>10. guest' = GuestMoved(h)
    <3>1. guest \in Guests /\ h[k + 1].opened = guest.openingIndex
      BY <1>1, <1>3, GuestIsAt, GuestOpensNothing
    <3>2. guest' = [step |-> guest.step + 1, status |-> "ok", blocks |-> h[k + 1].sponge.blocks,
                    ptr |-> h[k + 1].recorded, openingIndex |-> guest.openingIndex]
      BY <2>9, <3>1, GuestChanges
    <3> QED
      BY <3>1, <3>2 DEF GuestMoved
  <2> QED
    BY <2>4, <2>8, <2>10 DEF GuestMoves
<1> QED
  BY <1>4, <1>5

(* Every step of the guest goes on as the history does: it fails at nothing.   *)
LEMMA GuestMovesOn ==
    ASSUME NEW h, Replays(h), GuestStep, DOMAIN heard = {"verifier", "guest"}
    PROVE  /\ Replays(h)'
           /\ phase = "replaying" /\ UNCHANGED phase /\ UNCHANGED said
           /\ DOMAIN heard' = {"verifier", "guest"}
           /\ Len(heard["guest"]) < Len(said)
           /\ heard' = [heard EXCEPT !["guest"] = Append(@, said[Len(@) + 1])]
<1> DEFINE k == guest.step
<1>1. GuestMoves(h)
  BY GuestScalarsMove, GuestPolynomialMoves, GuestObservingMoves, GuestDuplexingMoves,
     GuestSamplingMoves, GuestOpeningsMove, GuestGrindingMoves DEF GuestStep
<1>2. PICK kind : GuestRuns(kind)
  BY DEF GuestStep, GuestReceivesScalars, GuestReceivesPolynomial, GuestObserves, GuestDuplexes,
         GuestSamples, GuestOpens, GuestGrinds
<1>3. /\ phase = "replaying" /\ UNCHANGED <<phase, proverVars, intact, verifier>>
      /\ k \in 1..Len(schedule) /\ guest \in Guests /\ k \in Nat \ {0}
  BY <1>2, GuestIsAt DEF GuestRuns
<1>4. HasHeard(heard["guest"], k)
  BY DEF Replays, GuestKnows
<1>5. heard' = [heard EXCEPT !["guest"] = Append(@, said[k])]
  BY <1>1 DEF GuestMoves, GuestHears
<1>6. /\ heard'["guest"] = Append(heard["guest"], said[k])
      /\ heard'["verifier"] = heard["verifier"] /\ DOMAIN heard' = {"verifier", "guest"}
  BY <1>5
<1>7. /\ HasHeard(Append(heard["guest"], said[k]), k + 1)
      /\ Append(heard["guest"], said[k]) = Append(heard["guest"], said[Len(heard["guest"]) + 1])
  BY <1>3, <1>4, Hearing
<1>8. GuestKnows(h)'
  <2>1. guest' = GuestMoved(h) /\ UNCHANGED <<schedule, said>>
    BY <1>1, <1>3 DEF GuestMoves, proverVars
  <2>2. /\ guest'.step = k + 1 /\ guest'.blocks = h[k + 1].sponge.blocks
        /\ guest'.ptr = h[k + 1].recorded /\ guest'.openingIndex = h[k + 1].opened
    BY <2>1 DEF GuestMoved
  <2>3. guest' \in Guests /\ k + 1 \in 1..Len(schedule) + 1
    <3>1. h[k + 1] \in Moments /\ Len(schedule) \in Nat
      BY <1>2, GuestIsAt, SequenceIs DEF Replays, ProverKnows
    <3>2. \A m \in Moments : m.sponge.blocks \in Seq(Blocks) /\ m.recorded \in Nat /\ m.opened \in Nat
      BY DEF Moments, Sponges
    <3>3. k + 1 \in Nat /\ k + 1 \in 1..Len(schedule) + 1
      BY <1>3, <3>1
    <3> QED
      BY <2>1, <3>1, <3>2, <3>3 DEF GuestMoved, Guests
  <2>4. HasHeard(heard'["guest"], guest'.step)
    BY <1>6, <1>7, <2>2
  <2> QED
    BY <2>1, <2>2, <2>3, <2>4 DEF GuestKnows, HasHeard
<1>9. Replays(h)'
  <2>1. ProverKnows(h)' /\ VerifierDone'
    BY <1>3 DEF Replays, ProverKnows, VerifierDone, proverVars
  <2>2. VerifierKnows(h)'
    BY <1>3, <1>6 DEF Replays, VerifierKnows, Stands, Holds, Recorded, HasHeard, proverVars
  <2> QED
    BY <1>8, <2>1, <2>2 DEF Replays
<1>10. Len(heard["guest"]) < Len(said)
  <2>1. Len(heard["guest"]) = k - 1 /\ Len(said) = Len(schedule) /\ Len(schedule) \in Nat
    BY <1>4, SequenceIs DEF HasHeard, Replays, ProverKnows
  <2> HIDE DEF k
  <2> QED
    BY <1>3, <2>1
<1>11. heard' = [heard EXCEPT !["guest"] = Append(@, said[Len(@) + 1])]
  BY <1>5, <1>7
<1> QED
  BY <1>3, <1>6, <1>9, <1>10, <1>11 DEF proverVars

(* The guest starts at the beginning of the record. *)
LEMMA GuestStarts ==
    ASSUME NEW h, ProverKnows(h), VerifierKnows(h), heard["guest"] = <<>>, IntoRawProof
    PROVE  Replays(h)' /\ phase' = "replaying" /\ UNCHANGED <<said, heard>>
<1> DEFINE g == [step |-> 1, status |-> "ok", blocks |-> <<>>, ptr |-> 0, openingIndex |-> 0]
<1>1. /\ VerifierDone /\ guest' = g /\ phase' = "replaying"
      /\ UNCHANGED <<proverVars, intact, verifier, heard>>
  BY DEF IntoRawProof
<1>2. h[1] = FirstMoment /\ Len(schedule) \in Nat
  BY SequenceIs DEF ProverKnows, History
<1>3. h[1].sponge.blocks = <<>> /\ h[1].recorded = 0 /\ h[1].opened = 0
  BY <1>2 DEF FirstMoment, NewSponge
<1>4. g \in Guests
  BY EmptySeq DEF Guests
<1>5. g.step = 1 /\ g.blocks = <<>> /\ g.ptr = 0 /\ g.openingIndex = 0
  OBVIOUS
<1> HIDE DEF g
<1>6. HasHeard(<<>>, 1)'
  <2>1. Len(<<>>) = 0 /\ \A k \in 1..1 - 1 : FALSE
    BY EmptySeq
  <2>2. Sequence(<<>>)
    BY EmptySeq DEF Sequence
  <2> QED
    BY <2>1, <2>2 DEF HasHeard
<1>7. GuestKnows(h)'
  <2>1. /\ g.step \in 1..Len(schedule) + 1
        /\ g.blocks = h[g.step].sponge.blocks /\ g.ptr = h[g.step].recorded
        /\ g.openingIndex = h[g.step].opened
    BY <1>2, <1>3, <1>5
  <2>2. schedule' = schedule /\ heard'["guest"] = <<>> /\ guest' = g
    BY <1>1 DEF proverVars
  <2>3. HasHeard(heard["guest"], guest.step)'
    BY <1>5, <1>6, <2>2 DEF HasHeard
  <2> QED
    BY <1>4, <2>1, <2>2, <2>3 DEF GuestKnows
<1>8. ProverKnows(h)' /\ VerifierKnows(h)' /\ VerifierDone'
  BY <1>1 DEF ProverKnows, VerifierKnows, VerifierDone, Stands, Holds, Recorded, HasHeard, proverVars
<1> QED
  BY <1>1, <1>7, <1>8 DEF Replays, proverVars

-----------------------------------------------------------------------------
(* The inductive invariant *)

(* There is a history, and each reader stands at one of its moments. *)
Known(h) ==
    /\ ProverKnows(h)
    /\ phase = "proving" => heard["verifier"] = <<>>
    /\ phase # "proving" => VerifierKnows(h)
    /\ phase # "replaying" => heard["guest"] = <<>>
    /\ phase = "replaying" => Replays(h)

TranscriptInv ==
    /\ phase \in {"proving", "verifying", "replaying"}
    /\ DOMAIN heard = {"verifier", "guest"}
    /\ \E h : Known(h)

(* At first the history is empty. *)
LEMMA InitInv == Init => TranscriptInv
<1> SUFFICES ASSUME Init PROVE TranscriptInv
  OBVIOUS
<1>1. /\ phase = "proving" /\ schedule = <<>> /\ said = <<>> /\ transcript = <<>> /\ merklePaths = <<>>
      /\ sponge = NewSponge /\ heard = [r \in {"verifier", "guest"} |-> <<>>]
  BY DEF Init
<1>2. PICK h : History(h, <<>>, <<>>, <<>>, <<>>, NewSponge)
  BY FirstHistory
<1>3. AllOpenings(<<>>) = <<>>
  <2> DEFINE ss == [k \in 1..Len(<<>>) |-> OpeningsOf(<<>>[k])]
  <2>1. ss \in [1..0 -> Seq(Openings)]
    BY EmptySeq
  <2> HIDE DEF ss
  <2>2. ss \in Seq(Seq(Openings)) /\ Len(ss) = 0
    BY <2>1, FunctionIsSequence
  <2>3. ss = <<>> /\ FlattenSeq(ss) = ss
    BY <2>2, EmptySeq DEF FlattenSeq
  <2> QED
    BY <2>3 DEF AllOpenings, ss
<1>4. ProverKnows(h)
  <2>1. Sequence(<<>>) /\ <<>> \in Seq(F) /\ <<>> \in Seq(Pruned)
    BY EmptySeq DEF Sequence
  <2> QED
    BY <1>1, <1>2, <1>3, <2>1 DEF ProverKnows
<1>5. Known(h)
  BY <1>1, <1>4 DEF Known
<1> QED
  BY <1>1, <1>5 DEF TranscriptInv

(* What a step does to the history, and to what is said and heard.             *)
LEMMA NextIs ==
    ASSUME TranscriptInv, Next
    PROVE  /\ TranscriptInv'
           /\ \/ UNCHANGED <<said, heard>>
              \/ Sequence(said) /\ (\E thing : said' = Append(said, thing)) /\ UNCHANGED heard
              \/ /\ UNCHANGED said
                 /\ \E r \in {"verifier", "guest"} :
                       /\ Len(heard[r]) < Len(said)
                       /\ heard' = [heard EXCEPT ![r] = Append(@, said[Len(@) + 1])]
<1>1. PICK h : Known(h)
  BY DEF TranscriptInv
<1>2. ProverKnows(h) /\ DOMAIN heard = {"verifier", "guest"}
  BY <1>1 DEF Known, TranscriptInv
<1>3. CASE ProverStep
  <2>1. /\ \E g : ProverKnows(g)'
        /\ phase = "proving" /\ UNCHANGED <<phase, intact, verifier, guest, heard>>
        /\ \E thing : said' = Append(said, thing)
    BY <1>2, <1>3, ProverStepIs
  <2>2. PICK g : ProverKnows(g)'
    BY <2>1
  <2>3. Known(g)'
    BY <1>1, <2>1, <2>2 DEF Known
  <2>4. TranscriptInv'
    BY <1>2, <2>1, <2>3 DEF TranscriptInv
  <2>5. Sequence(said)
    BY <1>2 DEF ProverKnows
  <2> QED
    BY <2>1, <2>4, <2>5
<1>4. CASE ReceiveProof
  <2>1. phase = "proving"
    BY <1>4 DEF ReceiveProof, NewVerifier
  <2>2. heard["verifier"] = <<>> /\ heard["guest"] = <<>>
    BY <1>1, <2>1 DEF Known
  <2>3. /\ ProverKnows(h)' /\ VerifierKnows(h)'
        /\ phase' = "verifying" /\ UNCHANGED <<proverVars, guest, heard>>
    BY <1>2, <1>4, <2>2, ReceivingIs
  <2>4. Known(h)'
    BY <2>2, <2>3 DEF Known
  <2>5. TranscriptInv'
    BY <1>2, <2>3, <2>4 DEF TranscriptInv
  <2> QED
    BY <2>3, <2>5 DEF proverVars
<1>5. CASE VerifierStep
  <2>1. phase = "verifying"
    BY <1>5 DEF VerifierStep, NextBaseScalars, VerifierObserves, VerifierDuplexes, VerifierSamples,
           NextSumcheckPolynomial, NextEqSumcheckPolynomial, NextMerkleOpenings, CheckPowGrinding, VerifierRuns
  <2>2. VerifierKnows(h) /\ heard["guest"] = <<>>
    BY <1>1, <2>1 DEF Known
  <2>3. /\ ProverKnows(h)' /\ VerifierKnows(h)'
        /\ UNCHANGED <<phase, proverVars, intact, guest>>
        /\ DOMAIN heard' = {"verifier", "guest"} /\ heard'["guest"] = heard["guest"]
        /\ \/ heard' = heard
           \/ /\ Len(heard["verifier"]) < Len(said)
              /\ heard' = [heard EXCEPT !["verifier"] = Append(@, said[Len(@) + 1])]
    BY <1>2, <1>5, <2>2, VerifierMovesOn
  <2>4. Known(h)'
    BY <2>1, <2>2, <2>3 DEF Known
  <2>5. TranscriptInv'
    BY <2>1, <2>3, <2>4 DEF TranscriptInv
  <2> QED
    BY <2>3, <2>5 DEF proverVars
<1>6. CASE IntoRawProof
  <2>1. phase = "verifying"
    BY <1>6 DEF IntoRawProof
  <2>2. VerifierKnows(h) /\ heard["guest"] = <<>>
    BY <1>1, <2>1 DEF Known
  <2>3. Replays(h)' /\ phase' = "replaying" /\ UNCHANGED <<said, heard>>
    BY <1>2, <1>6, <2>2, GuestStarts
  <2>4. Known(h)'
    BY <2>3 DEF Known, Replays
  <2>5. TranscriptInv'
    BY <1>2, <2>3, <2>4 DEF TranscriptInv
  <2> QED
    BY <2>3, <2>5
<1>7. CASE GuestStep
  <2>1. phase = "replaying"
    BY <1>7 DEF GuestStep, GuestReceivesScalars, GuestReceivesPolynomial, GuestObserves, GuestDuplexes,
           GuestSamples, GuestOpens, GuestGrinds, GuestRuns
  <2>2. Replays(h)
    BY <1>1, <2>1 DEF Known
  <2>3. /\ Replays(h)'
        /\ UNCHANGED phase /\ UNCHANGED said
        /\ DOMAIN heard' = {"verifier", "guest"}
        /\ Len(heard["guest"]) < Len(said)
        /\ heard' = [heard EXCEPT !["guest"] = Append(@, said[Len(@) + 1])]
    BY <1>2, <1>7, <2>2, GuestMovesOn
  <2>4. Known(h)'
    BY <2>1, <2>3 DEF Known, Replays
  <2>5. TranscriptInv'
    BY <2>1, <2>3, <2>4 DEF TranscriptInv
  <2> QED
    BY <2>3, <2>5
<1> QED
  BY <1>3, <1>4, <1>5, <1>6, <1>7 DEF Next

(* Nothing changes when nothing happens. *)
LEMMA StutterInv == TranscriptInv /\ UNCHANGED vars => TranscriptInv'
<1> SUFFICES ASSUME TranscriptInv, UNCHANGED vars PROVE TranscriptInv'
  OBVIOUS
<1>1. PICK h : Known(h)
  BY DEF TranscriptInv
<1>2. Known(h)'
  BY <1>1 DEF Known, Replays, ProverKnows, VerifierKnows, GuestKnows, VerifierDone, Stands, Holds, Recorded,
              HasHeard, vars, proverVars
<1> QED
  BY <1>2 DEF TranscriptInv, vars, proverVars

(* The history of a proof, from which everything else follows. *)
THEOREM InvAlways == Spec => []TranscriptInv
<1>1. TranscriptInv /\ [Next]_vars => TranscriptInv'
  BY NextIs, StutterInv
<1> QED
  BY <1>1, InitInv, PTL DEF Spec

-----------------------------------------------------------------------------
(* The properties *)

(* A whole proof is refused by nobody and one that lacks its end by the        *)
(* verifier, with an error; a verifier that gets to the end has the prover's   *)
(* sponge and has read everything.                                             *)
THEOREM WholeProofsAreAccepted == Spec => []OnlyWholeProofsAreAccepted
<1>1. TranscriptInv => OnlyWholeProofsAreAccepted
  <2> SUFFICES ASSUME TranscriptInv, phase # "proving"
               PROVE  /\ intact => verifier.status = "ok"
                      /\ verifier.status \in {"ok", "exceeded"}
                      /\ VerifierDone => /\ intact
                                         /\ verifier.sponge = sponge
                                         /\ verifier.offset = Len(transcript)
                                         /\ verifier.openingIndex = Len(verifier.openings)
    BY DEF OnlyWholeProofsAreAccepted
  <2>1. PICK h : Known(h)
    BY DEF TranscriptInv
  <2>2. ProverKnows(h) /\ VerifierKnows(h)
    BY <2>1 DEF Known
  <2>3. (intact => verifier.status = "ok") /\ verifier.status \in {"ok", "exceeded"}
    BY <2>2 DEF VerifierKnows, Stands, Holds, Verifiers
  <2> QED
    BY <2>2, <2>3, DoneIsWhole
<1> QED
  BY <1>1, InvAlways, PTL

(* The guest fails at nothing and ends in the verifier's state.                *)
THEOREM GuestEndsLikeTheVerifier == Spec => []GuestReplaysTheVerifier
<1>1. TranscriptInv => GuestReplaysTheVerifier
  <2> SUFFICES ASSUME TranscriptInv, phase = "replaying"
               PROVE  /\ guest.status = "ok"
                      /\ GuestDone => /\ guest.blocks = verifier.sponge.blocks
                                      /\ guest.ptr = Len(verifier.raw)
                                      /\ guest.openingIndex = verifier.openingIndex
    BY DEF GuestReplaysTheVerifier
  <2>1. PICK h : Known(h)
    BY DEF TranscriptInv
  <2>2. Replays(h)
    BY <2>1 DEF Known
  <2>3. guest \in Guests /\ guest.step \in 1..Len(schedule) + 1 /\ Len(schedule) \in Nat
    BY <2>2, SequenceIs DEF Replays, GuestKnows, ProverKnows
  <2>4. guest.status = "ok"
    BY <2>3 DEF Guests
  <2>5. ASSUME GuestDone
        PROVE  /\ guest.blocks = verifier.sponge.blocks
               /\ guest.ptr = Len(verifier.raw)
               /\ guest.openingIndex = verifier.openingIndex
    <3>1. guest.step = Len(schedule) + 1 /\ verifier.step = Len(schedule) + 1
      BY <2>2, <2>3, <2>5, DoneIsWhole DEF GuestDone, Replays
    <3>2. /\ guest.blocks = h[guest.step].sponge.blocks /\ guest.ptr = h[guest.step].recorded
          /\ guest.openingIndex = h[guest.step].opened
      BY <2>2 DEF Replays, GuestKnows
    <3>3. /\ verifier.sponge = h[verifier.step].sponge /\ Len(verifier.raw) = h[verifier.step].recorded
          /\ verifier.openingIndex = h[verifier.step].opened
      BY <2>2 DEF Replays, VerifierKnows, Stands, Recorded
    <3> QED
      BY <3>1, <3>2, <3>3
  <2> QED
    BY <2>4, <2>5
<1> QED
  BY <1>1, InvAlways, PTL

(* The rates of a sample: none without a fresh sponge, which they leave stale. *)
LEMMA SampledRateIs ==
    ASSUME NEW h, ProverKnows(h), NEW k \in 1..Len(schedule), schedule[k].kind = "sample",
           NEW x \in ToSet(said[k])
    PROVE  /\ h[k].sponge.fresh /\ ~h[k + 1].sponge.fresh
           /\ Len(h[k].sponge.blocks) <= Len(x) /\ Len(x) <= Len(h[k + 1].sponge.blocks)
           /\ Len(x) \in Nat
<1> DEFINE s == h[k].sponge
           op == schedule[k]
           c == ChunkCount(op.n)
<1>1. /\ h[k] \in Moments /\ h[k + 1] \in Moments
      /\ Operation(op, said[k], SentAt(h, k), OpenedAt(h, k), s, h[k + 1].sponge)
  BY OperationAt DEF Performed
<1>2. Samples(op, said[k], SentAt(h, k), OpenedAt(h, k), s, h[k + 1].sponge)
  BY <1>1 DEF Operation, SaysScalars, Observes, Duplexes, Samples, SaysPolynomial,
              SaysEqPolynomial, Opens, Grinds
<1>3. /\ op.n \in Nat /\ (c > 0 => s.fresh) /\ said[k] = SampledRates(s, c)
      /\ h[k + 1].sponge = AfterSampling(s, c)
  BY <1>2 DEF Samples, MaySample
<1>4. c \in Nat /\ s \in Sponges /\ s.blocks \in Seq(Blocks) /\ Len(s.blocks) \in Nat
  BY <1>1, <1>3, ChunkCountIs, LenProperties DEF Moments, Sponges
<1> HIDE DEF s, c
<1>5. PICK i \in 1..c : x = s.blocks \o [j \in 1..i - 1 |-> ZeroBlock]
  BY <1>3 DEF SampledRates, ToSet
<1> DEFINE z == [j \in 1..i - 1 |-> ZeroBlock]
<1>6. i - 1 \in Nat /\ z \in [1..i - 1 -> Blocks]
  BY <1>4, ZeroBlockIs
<1>7. z \in Seq(Blocks) /\ Len(z) = i - 1
  <2> HIDE DEF z
  <2> QED
    BY <1>6, FunctionIsSequence
<1>8. Len(x) = Len(s.blocks) + (i - 1)
  <2> HIDE DEF z
  <2>1. Len(s.blocks \o z) = Len(s.blocks) + Len(z)
    BY <1>4, <1>7, ConcatProperties
  <2> QED
    BY <1>5, <1>7, <2>1 DEF z
<1>9. /\ ~AfterSampling(s, c).fresh
      /\ Len(AfterSampling(s, c).blocks) = Len(s.blocks) + (c - 1)
  <2>1. c \in Nat /\ c > 0 /\ s \in Sponges
    BY <1>4
  <2> HIDE DEF z
  <2> QED
    BY <2>1, SamplingIs
<1>10. c > 0 /\ i - 1 <= c - 1 /\ c - 1 \in Nat
  BY <1>4
<1>11. s.fresh /\ ~h[k + 1].sponge.fresh /\ Len(h[k + 1].sponge.blocks) = Len(s.blocks) + (c - 1)
  BY <1>3, <1>9, <1>10
<1> HIDE DEF z
<1>12. Len(s.blocks) <= Len(x) /\ Len(x) <= Len(h[k + 1].sponge.blocks) /\ Len(x) \in Nat
  <2> DEFINE low == Len(s.blocks)
             here == Len(x)
             high == Len(h[k + 1].sponge.blocks)
  <2>1. low \in Nat /\ c \in Nat /\ i \in 1..c /\ here = low + (i - 1) /\ high = low + (c - 1)
    BY <1>4, <1>8, <1>11
  <2> HIDE DEF low, here, high
  <2>2. low <= here /\ here <= high /\ here \in Nat
    BY ONLY <2>1
  <2> QED
    BY <2>2 DEF low, here, high
<1> QED
  BY <1>11, <1>12 DEF s

(* Two samples, one after the other, have no rate in common: the guest, whose  *)
(* sponge does not know whether its rate was read, repeats none.               *)
THEOREM GuestRatesAreFresh == Spec => []GuestNeverRepeatsARate
<1>1. TranscriptInv => GuestNeverRepeatsARate
  <2> SUFFICES ASSUME TranscriptInv PROVE GuestNeverRepeatsARate
    OBVIOUS
  <2>1. PICK h : Known(h)
    BY DEF TranscriptInv
  <2> DEFINE samples == {k \in 1..Len(heard["guest"]) : schedule[k].kind = "sample"}
             rates(k) == ToSet(heard["guest"][k])
  <2>2. CASE phase # "replaying"
    <3>1. Len(heard["guest"]) = 0
      BY <2>1, <2>2, EmptySeq DEF Known
    <3>2. samples = {}
      BY <3>1
    <3> QED
      BY <3>2 DEF GuestNeverRepeatsARate
  <2>3. CASE phase = "replaying"
    <3>1. Replays(h)
      BY <2>1, <2>3 DEF Known
    <3>2. /\ Len(heard["guest"]) = guest.step - 1 /\ guest.step \in 1..Len(schedule) + 1
          /\ Len(schedule) \in Nat /\ ProverKnows(h)
          /\ \A k \in 1..guest.step - 1 : heard["guest"][k] = said[k]
      BY <3>1, SequenceIs DEF Replays, GuestKnows, HasHeard, ProverKnows
    <3>3. \A k \in samples : k \in 1..Len(schedule) /\ schedule[k].kind = "sample" /\ rates(k) = ToSet(said[k])
      BY <3>2
    <3> HIDE DEF samples, rates
    <3>4. ASSUME NEW j \in samples, NEW k \in samples, j < k, NEW x \in rates(j), x \in rates(k)
          PROVE  FALSE
      <4>1. /\ ~h[j + 1].sponge.fresh /\ Len(x) <= Len(h[j + 1].sponge.blocks)
            /\ h[k].sponge.fresh /\ Len(h[k].sponge.blocks) <= Len(x) /\ Len(x) \in Nat
        <5>1. j \in 1..Len(schedule) /\ schedule[j].kind = "sample" /\ x \in ToSet(said[j])
          BY <3>3, <3>4
        <5>2. k \in 1..Len(schedule) /\ schedule[k].kind = "sample" /\ x \in ToSet(said[k])
          BY <3>3, <3>4
        <5>3. ProverKnows(h)
          BY <3>2
        <5>4. ~h[j + 1].sponge.fresh /\ Len(x) <= Len(h[j + 1].sponge.blocks) /\ Len(x) \in Nat
          BY <5>1, <5>3, SampledRateIs
        <5>5. h[k].sponge.fresh /\ Len(h[k].sponge.blocks) <= Len(x)
          BY <5>2, <5>3, SampledRateIs
        <5> QED
          BY <5>4, <5>5
      <4>2. /\ j + 1 \in 1..Len(schedule) + 1 /\ k \in 1..Len(schedule) + 1 /\ j + 1 <= k
            /\ j \in 1..Len(schedule) /\ k \in 1..Len(schedule)
        BY <3>2, <3>3, <3>4
      <4>3. Follows(h[j + 1], h[k]) /\ h[j + 1] \in Moments /\ h[k] \in Moments
        BY <3>2, <4>2, OperationAt DEF ProverKnows, History
      <4>4. Len(h[j + 1].sponge.blocks) < Len(h[k].sponge.blocks)
        BY <4>1, <4>3 DEF Follows, Grows
      <4>5. Len(h[j + 1].sponge.blocks) \in Nat /\ Len(h[k].sponge.blocks) \in Nat
        BY <4>3, GrowingIs DEF Moments
      <4> QED
        BY <4>1, <4>4, <4>5
    <3>5. ASSUME NEW j \in samples, NEW k \in samples, j # k, NEW x \in rates(j), x \in rates(k)
          PROVE  FALSE
      <4>1. j < k \/ k < j
        BY <3>2, <3>3, <3>5
      <4> QED
        BY <3>4, <3>5, <4>1
    <3> QED
      BY <3>5 DEF GuestNeverRepeatsARate, samples, rates
  <2> QED
    BY <2>2, <2>3
<1> QED
  BY <1>1, InvAlways, PTL

(* The transcript implements one interaction: whatever is left out, padded,    *)
(* pruned or recorded in between, each reader hears what was said, in order.   *)
THEOREM TranscriptIsOneInteraction == Spec => OneInteractionSpec
<1>1. Init => OneInteraction!Init
  BY DEF Init, OneInteraction!Init
<1>2. ASSUME TranscriptInv, [Next]_vars
      PROVE  [OneInteraction!Next]_<<said, heard>>
  <2>1. CASE UNCHANGED <<said, heard>>
    BY <2>1
  <2>2. CASE Sequence(said) /\ (\E thing : said' = Append(said, thing)) /\ UNCHANGED heard
    <3>1. PICK thing : said' = Append(said, thing)
      BY <2>2
    <3>2. Len(said') = Len(said) + 1 /\ SubSeq(said', 1, Len(said)) = said
      BY <2>2, <3>1, Appending
    <3>3. OneInteraction!Say
      BY <2>2, <3>2 DEF OneInteraction!Say
    <3> QED
      BY <3>3 DEF OneInteraction!Next
  <2>3. CASE /\ UNCHANGED said
             /\ \E r \in {"verifier", "guest"} :
                   /\ Len(heard[r]) < Len(said)
                   /\ heard' = [heard EXCEPT ![r] = Append(@, said[Len(@) + 1])]
    <3>1. \E r \in {"verifier", "guest"} : OneInteraction!Hear(r)
      BY <2>3 DEF OneInteraction!Hear
    <3> QED
      BY <3>1 DEF OneInteraction!Next
  <2>4. CASE UNCHANGED vars
    BY <2>4 DEF vars, proverVars
  <2>5. CASE Next
    BY <1>2, <2>1, <2>2, <2>3, <2>5, NextIs
  <2> QED
    BY <1>2, <2>4, <2>5
<1> QED
  BY <1>1, <1>2, InvAlways, PTL DEF Spec, OneInteractionSpec, OneInteraction!Spec

=============================================================================
