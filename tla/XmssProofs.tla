----------------------------- MODULE XmssProofs -----------------------------
(***************************************************************************)
(* For every lifetime, range of slots, number and width of chains, field   *)
(* and encoding hash: what a key signs verifies, xmss_verify and the guest *)
(* answer alike, and only what was signed verifies.  The chains, the tree  *)
(* and the pairs of digits are each a recursive function; a lemma gives    *)
(* its existence, and the others read it step by step.                     *)
(***************************************************************************)
EXTENDS Signatures, NumberFacts, TLAPS

-----------------------------------------------------------------------------
(* Chains. *)

(* The steps of a chain. *)
IsChain(acc, a, n, slot, i, start) ==
    acc = [j \in 0..n |-> IF j = 0 THEN a ELSE <<acc[j - 1], slot, i, start + j - 1>>]

LEMMA ChainExists ==
    ASSUME NEW a, NEW n \in Nat, NEW slot, NEW i, NEW start
    PROVE  \E acc : IsChain(acc, a, n, slot, i, start)
<1> DEFINE T == {m \in Nat : \E acc : IsChain(acc, a, m, slot, i, start)}
<1>1. 0 \in T
  <2>1. IsChain([j \in 0..0 |-> a], a, 0, slot, i, start)
    BY DEF IsChain
  <2> QED
    BY <2>1
<1>2. ASSUME NEW m \in 1..n, m - 1 \in T PROVE m \in T
  <2>1. PICK acc : IsChain(acc, a, m - 1, slot, i, start)
    BY <1>2
  <2> DEFINE last0 == <<acc[m - 1], slot, i, start + m - 1>>
             more == [j \in 0..m |-> IF j = m THEN last0 ELSE acc[j]]
  <2>2. \A j \in 0..m - 1 : acc[j] = IF j = 0 THEN a ELSE <<acc[j - 1], slot, i, start + j - 1>>
    BY <2>1 DEF IsChain
  <2>3. ASSUME NEW j \in 0..m
        PROVE  more[j] = IF j = 0 THEN a ELSE <<more[j - 1], slot, i, start + j - 1>>
    <3> HIDE DEF last0
    <3>1. j # 0 => more[j - 1] = acc[j - 1]
      OBVIOUS
    <3>2. CASE j = m
      <4>1. more[j - 1] = acc[m - 1] /\ more[j] = last0
        BY <3>1, <3>2
      <4> QED
        BY <3>2, <4>1 DEF last0
    <3>3. CASE j # m
      <4>1. j \in 0..m - 1 /\ more[j] = acc[j]
        BY <3>3
      <4> QED
        BY <2>2, <3>1, <4>1
    <3> QED
      BY <3>2, <3>3
  <2> HIDE DEF last0
  <2>4. more = [j \in 0..m |-> more[j]]
    OBVIOUS
  <2> HIDE DEF more
  <2>5. IsChain(more, a, m, slot, i, start)
    BY <2>3, <2>4 DEF IsChain
  <2> QED
    BY <2>5
<1> HIDE DEF T
<1>3. \A m \in 0..n : m \in T
  BY <1>1, <1>2, UpTo
<1>4. n \in T
  BY <1>3
<1> QED
  BY <1>4 DEF T

(* There is one chain. *)
LEMMA ChainUnique ==
    ASSUME NEW a, NEW n \in Nat, NEW m \in Nat, n <= m, NEW slot, NEW i, NEW start,
           NEW f, IsChain(f, a, n, slot, i, start), NEW g, IsChain(g, a, m, slot, i, start)
    PROVE  \A j \in 0..n : f[j] = g[j]
<1> DEFINE T == {j \in 0..n : f[j] = g[j]}
<1>1. \A j \in 0..n : f[j] = IF j = 0 THEN a ELSE <<f[j - 1], slot, i, start + j - 1>>
  BY DEF IsChain
<1>2. \A j \in 0..m : g[j] = IF j = 0 THEN a ELSE <<g[j - 1], slot, i, start + j - 1>>
  BY DEF IsChain
<1>3. 0 \in T
  BY <1>1, <1>2, 0 \in 0..n, 0 \in 0..m
<1>4. ASSUME NEW j \in 1..n, j - 1 \in T PROVE j \in T
  <2>1. j \in 0..n /\ j \in 0..m /\ j # 0 /\ f[j - 1] = g[j - 1]
    BY <1>4
  <2> QED
    BY <1>1, <1>2, <2>1
<1> HIDE DEF T
<1>5. \A j \in 0..n : j \in T
  BY <1>3, <1>4, UpTo
<1> QED
  BY <1>5 DEF T

(* iterate_hash, one step after another. *)
LEMMA IterateHashNone ==
    ASSUME NEW a, NEW slot, NEW i, NEW start
    PROVE  IterateHash(a, 0, slot, i, start) = a
<1> DEFINE c == CHOOSE acc : IsChain(acc, a, 0, slot, i, start)
<1>1. IterateHash(a, 0, slot, i, start) = c[0]
  BY DEF IterateHash, IsChain
<1>2. IsChain(c, a, 0, slot, i, start)
  BY ChainExists
<1> HIDE DEF c
<1> QED
  BY <1>1, <1>2, 0 \in 0..0 DEF IsChain

LEMMA IterateHashStep ==
    ASSUME NEW a, NEW slot, NEW i, NEW start \in Nat, NEW n \in Nat
    PROVE  IterateHash(a, n + 1, slot, i, start) = <<IterateHash(a, n, slot, i, start), slot, i, start + n>>
<1> DEFINE c == CHOOSE acc : IsChain(acc, a, n, slot, i, start)
           d == CHOOSE acc : IsChain(acc, a, n + 1, slot, i, start)
<1>1. IterateHash(a, n, slot, i, start) = c[n] /\ IterateHash(a, n + 1, slot, i, start) = d[n + 1]
  BY DEF IterateHash, IsChain
<1>2. n + 1 \in Nat /\ n <= n + 1 /\ n \in 0..n /\ (n + 1) - 1 = n /\ start + (n + 1) - 1 = start + n
  OBVIOUS
<1>3. IsChain(c, a, n, slot, i, start)
  BY ChainExists
<1>4. IsChain(d, a, n + 1, slot, i, start)
  BY <1>2, ChainExists
<1> HIDE DEF c, d
<1>5. c[n] = d[n]
  BY <1>2, <1>3, <1>4, ChainUnique
<1>6. d[n + 1] = <<d[(n + 1) - 1], slot, i, start + (n + 1) - 1>>
  BY <1>4, n + 1 \in 0..n + 1, n + 1 # 0 DEF IsChain
<1> QED
  BY <1>1, <1>2, <1>5, <1>6

(* A chain goes on from where it was left. *)
LEMMA ChainGoesOn ==
    ASSUME NEW a, NEW slot, NEW i, NEW start \in Nat, NEW d \in Nat, NEW e \in Nat,
           NEW mid, mid = start + d, NEW whole, whole = d + e
    PROVE  IterateHash(IterateHash(a, d, slot, i, start), e, slot, i, mid)
               = IterateHash(a, whole, slot, i, start)
<1> DEFINE tip == IterateHash(a, d, slot, i, start)
           T == {n \in Nat : IterateHash(tip, n, slot, i, start + d) = IterateHash(a, d + n, slot, i, start)}
<1>1. 0 \in T
  <2>1. IterateHash(tip, 0, slot, i, start + d) = tip
    BY IterateHashNone
  <2>2. d + 0 = d
    OBVIOUS
  <2> QED
    BY <2>1, <2>2
<1>2. ASSUME NEW n \in 1..e, n - 1 \in T PROVE n \in T
  <2>1. n - 1 \in Nat /\ n \in Nat /\ (n - 1) + 1 = n /\ d + (n - 1) \in Nat /\ (d + (n - 1)) + 1 = d + n
        /\ (start + d) + (n - 1) = start + (d + (n - 1)) /\ start + d \in Nat
    OBVIOUS
  <2>2. IterateHash(tip, n, slot, i, start + d)
            = <<IterateHash(tip, n - 1, slot, i, start + d), slot, i, (start + d) + (n - 1)>>
    <3> HIDE DEF tip
    <3>1. IterateHash(tip, (n - 1) + 1, slot, i, start + d)
              = <<IterateHash(tip, n - 1, slot, i, start + d), slot, i, (start + d) + (n - 1)>>
      BY <2>1, IterateHashStep
    <3> QED
      BY <2>1, <3>1
  <2>3. IterateHash(a, d + n, slot, i, start)
            = <<IterateHash(a, d + (n - 1), slot, i, start), slot, i, start + (d + (n - 1))>>
    <3>1. IterateHash(a, (d + (n - 1)) + 1, slot, i, start)
              = <<IterateHash(a, d + (n - 1), slot, i, start), slot, i, start + (d + (n - 1))>>
      BY <2>1, IterateHashStep
    <3> QED
      BY <2>1, <3>1
  <2>4. IterateHash(tip, n - 1, slot, i, start + d) = IterateHash(a, d + (n - 1), slot, i, start)
    BY <1>2
  <2>5. IterateHash(tip, n, slot, i, start + d) = IterateHash(a, d + n, slot, i, start)
    BY <2>1, <2>2, <2>3, <2>4
  <2> QED
    BY <2>1, <2>5
<1> HIDE DEF T
<1>3. \A n \in 0..e : n \in T
  BY <1>1, <1>2, UpTo
<1>4. e \in T
  BY <1>3
<1>5. IterateHash(tip, e, slot, i, start + d) = IterateHash(a, d + e, slot, i, start)
  BY <1>4 DEF T
<1> QED
  BY <1>5

(* The same from the first step of a chain on. *)
LEMMA ChainGoesOnFromTheFirst ==
    ASSUME NEW a, NEW slot, NEW i, NEW d \in Nat, NEW e \in Nat, NEW whole, whole = d + e
    PROVE  IterateHash(IterateHash(a, d, slot, i, 0), e, slot, i, d) = IterateHash(a, whole, slot, i, 0)
<1>1. PICK zero \in Nat : zero = 0
  OBVIOUS
<1>2. d = zero + d
  BY <1>1
<1>3. IterateHash(IterateHash(a, d, slot, i, zero), e, slot, i, d) = IterateHash(a, whole, slot, i, zero)
  BY <1>2, ChainGoesOn
<1> QED
  BY <1>1, <1>3

(* Chains that end alike have begun alike. *)
LEMMA ChainsBeginAlike ==
    ASSUME NEW a, NEW b, NEW slot, NEW i, NEW start \in Nat, NEW n \in Nat,
           IterateHash(a, n, slot, i, start) = IterateHash(b, n, slot, i, start)
    PROVE  a = b
<1> DEFINE T == {k \in Nat : IterateHash(a, n - k, slot, i, start) = IterateHash(b, n - k, slot, i, start)}
<1>1. 0 \in T
  <2>1. n - 0 = n
    OBVIOUS
  <2> QED
    BY <2>1
<1>2. ASSUME NEW k \in 1..n, k - 1 \in T PROVE k \in T
  <2>1. n - k \in Nat /\ (n - k) + 1 = n - (k - 1) /\ k \in Nat
    OBVIOUS
  <2>2. IterateHash(a, n - (k - 1), slot, i, start) = IterateHash(b, n - (k - 1), slot, i, start)
    BY <1>2
  <2>3. /\ IterateHash(a, n - (k - 1), slot, i, start)
               = <<IterateHash(a, n - k, slot, i, start), slot, i, start + (n - k)>>
        /\ IterateHash(b, n - (k - 1), slot, i, start)
               = <<IterateHash(b, n - k, slot, i, start), slot, i, start + (n - k)>>
    <3>1. /\ IterateHash(a, (n - k) + 1, slot, i, start)
                 = <<IterateHash(a, n - k, slot, i, start), slot, i, start + (n - k)>>
          /\ IterateHash(b, (n - k) + 1, slot, i, start)
                 = <<IterateHash(b, n - k, slot, i, start), slot, i, start + (n - k)>>
      BY <2>1, IterateHashStep
    <3> QED
      BY <2>1, <3>1
  <2> QED
    BY <2>1, <2>2, <2>3
<1> HIDE DEF T
<1>3. \A k \in 0..n : k \in T
  BY <1>1, <1>2, UpTo
<1>4. IterateHash(a, n - n, slot, i, start) = IterateHash(b, n - n, slot, i, start)
  BY <1>3, n \in 0..n DEF T
<1>5. n - n = 0
  OBVIOUS
<1>6. IterateHash(a, 0, slot, i, start) = a /\ IterateHash(b, 0, slot, i, start) = b
  BY IterateHashNone
<1> QED
  BY <1>4, <1>5, <1>6

(* What is hashed can be told from what it is. *)
LEMMA Apart ==
    /\ \A a, b, c, d, e, f : <<a, b>> # <<c, d, e, f>>
    /\ \A a, b, c, d, e, f, g : <<a, b, c>> # <<d, e, f, g>>
    /\ \A a, b, c, d, e : <<a, b>> # <<c, d, e>>
OBVIOUS

(* The length of a chain is a number, of which a digit leaves the rest. *)
LEMMA ChainLengthIs ==
    /\ ChainLength \in Nat \ {0} /\ 0 \in 0..ChainLength - 1
    /\ \A d \in 0..ChainLength - 1 :
          d \in Nat /\ (ChainLength - 1) - d \in Nat /\ d + ((ChainLength - 1) - d) = ChainLength - 1
<1>1. W \in Nat
  BY XmssAssumption
<1>2. ChainLength \in Nat \ {0}
  BY <1>1, PowerIsPositive DEF ChainLength
<1> QED
  BY <1>2

(* From the tip of an issued signature to the end of its chain. *)
LEMMA TipReachesTheEnd ==
    ASSUME NEW slot, NEW i, NEW d \in 0..ChainLength - 1
    PROVE  IterateHash(IterateHash(WotsPreImage(slot, i), d, slot, i, 0), ChainLength - 1 - d, slot, i, d)
               = IterateHash(WotsPreImage(slot, i), ChainLength - 1, slot, i, 0)
<1> DEFINE a == WotsPreImage(slot, i)
           e == ChainLength - 1 - d
           whole == ChainLength - 1
<1>1. d \in Nat /\ e \in Nat /\ whole = d + e /\ d = 0 + d /\ 0 \in Nat
  BY ChainLengthIs
<1> HIDE DEF a, e, whole
<1>2. IterateHash(IterateHash(a, d, slot, i, 0), e, slot, i, d) = IterateHash(a, whole, slot, i, 0)
  BY <1>1, ChainGoesOnFromTheFirst
<1> QED
  BY <1>2 DEF a, e, whole

(* A tip moved on reaches the end of a chain only if it is of the slot of that chain, and its digit
   has not gone down. *)
LEMMA TipsOnlyMoveOn ==
    ASSUME NEW slot, NEW signed, NEW i, NEW d \in 0..ChainLength - 1, NEW from \in 0..ChainLength - 1,
           NEW tip,
           tip = IterateHash(IterateHash(WotsPreImage(signed, i), from, signed, i, 0),
                             IF d > from THEN d - from ELSE 0, slot, i, from),
           IterateHash(tip, ChainLength - 1 - d, slot, i, d)
               = IterateHash(WotsPreImage(slot, i), ChainLength - 1, slot, i, 0)
    PROVE  slot = signed /\ d >= from
<1> DEFINE sig == IterateHash(WotsPreImage(signed, i), from, signed, i, 0)
           own(n) == IterateHash(WotsPreImage(slot, i), n, slot, i, 0)
<1>0. d \in Nat /\ from \in Nat /\ ChainLength - 1 - d \in Nat
  BY ChainLengthIs
<1>1. tip = own(d)
  <2>1. IterateHash(own(d), ChainLength - 1 - d, slot, i, d) = own(ChainLength - 1)
    BY TipReachesTheEnd
  <2>2. IterateHash(tip, ChainLength - 1 - d, slot, i, d) = IterateHash(own(d), ChainLength - 1 - d, slot, i, d)
    BY <2>1
  <2> HIDE DEF own
  <2> QED
    BY <1>0, <2>2, ChainsBeginAlike
<1>2. tip = IterateHash(sig, IF d > from THEN d - from ELSE 0, slot, i, from)
  OBVIOUS
<1>3. own(0) = <<slot, i>> /\ \A n \in Nat : n # 0 => own(n) = <<own(n - 1), slot, i, 0 + (n - 1)>>
  <2>1. own(0) = <<slot, i>>
    BY IterateHashNone DEF WotsPreImage
  <2>2. ASSUME NEW n \in Nat, n # 0 PROVE own(n) = <<own(n - 1), slot, i, 0 + (n - 1)>>
    <3>1. n - 1 \in Nat /\ (n - 1) + 1 = n
      BY <2>2
    <3>2. own((n - 1) + 1) = <<own(n - 1), slot, i, 0 + (n - 1)>>
      BY <3>1, IterateHashStep
    <3> QED
      BY <3>1, <3>2
  <2> QED
    BY <2>1, <2>2
<1>4. \/ from = 0 /\ sig = <<signed, i>>
      \/ from # 0 /\ \E x : sig = <<x, signed, i, 0 + (from - 1)>>
  <2>1. CASE from = 0
    BY <2>1, IterateHashNone DEF WotsPreImage
  <2>2. CASE from # 0
    <3>1. from - 1 \in Nat /\ (from - 1) + 1 = from
      BY <1>0, <2>2
    <3>2. sig = <<IterateHash(WotsPreImage(signed, i), from - 1, signed, i, 0), signed, i, 0 + (from - 1)>>
      <4>1. IterateHash(WotsPreImage(signed, i), (from - 1) + 1, signed, i, 0)
                = <<IterateHash(WotsPreImage(signed, i), from - 1, signed, i, 0), signed, i, 0 + (from - 1)>>
        BY <3>1, IterateHashStep
      <4> QED
        BY <3>1, <4>1
    <3> QED
      BY <2>2, <3>2
  <2> QED
    BY <2>1, <2>2
<1>5. CASE d > from
  <2>1. d - from \in Nat /\ from + (d - from) = d /\ 0 + from = from
    BY <1>0, <1>5
  <2>2. own(d) = IterateHash(own(from), d - from, slot, i, from)
    <3> DEFINE a == WotsPreImage(slot, i)
               e == d - from
    <3>1. from \in Nat /\ e \in Nat /\ from = 0 + from /\ d = from + e /\ 0 \in Nat
      BY <1>0, <2>1
    <3> HIDE DEF a, e, sig, own
    <3>2. IterateHash(IterateHash(a, from, slot, i, 0), e, slot, i, from) = IterateHash(a, d, slot, i, 0)
      BY <3>1, ChainGoesOnFromTheFirst
    <3> QED
      BY <3>2 DEF a, e, own
  <2>3. IterateHash(sig, d - from, slot, i, from) = IterateHash(own(from), d - from, slot, i, from)
    BY <1>1, <1>2, <1>5, <2>2
  <2> HIDE DEF own, sig
  <2>4. sig = own(from)
    BY <1>0, <2>1, <2>3, ChainsBeginAlike
  <2> QED
    BY <1>0, <1>3, <1>4, <1>5, <2>4
<1>6. CASE ~(d > from)
  <2>1. tip = sig
    BY <1>2, <1>6, IterateHashNone
  <2> HIDE DEF own, sig
  <2>2. sig = own(d)
    BY <1>1, <2>1
  <2>3. CASE from = 0
    BY <1>0, <1>3, <1>4, <1>6, <2>2, <2>3
  <2>4. CASE from # 0
    <3>1. PICK x : sig = <<x, signed, i, 0 + (from - 1)>>
      BY <1>4, <2>4
    <3>2. d # 0
      BY <1>3, <2>2, <3>1, Apart
    <3>3. <<own(d - 1), slot, i, 0 + (d - 1)>> = <<x, signed, i, 0 + (from - 1)>>
      BY <1>0, <1>3, <2>2, <3>1, <3>2
    <3>4. slot = signed /\ 0 + (d - 1) = 0 + (from - 1)
      BY <3>3
    <3> QED
      BY <1>0, <3>4
  <2> QED
    BY <2>3, <2>4
<1> QED
  BY <1>5, <1>6

(* The steps of the guest's chain. *)
IsGuestChain(acc, tip, hashes, slot, i, starting) ==
    acc = [j \in 0..hashes |->
              IF j = 0 THEN tip
              ELSE LET tweak == ChainTweak(slot, i, starting + j - 1)
                   IN  <<acc[j - 1], tweak[1], tweak[2], tweak[3]>>]

(* The guest's chain is the chain from the digit on. *)
LEMMA GuestChainIs ==
    ASSUME NEW tip, NEW d \in 0..ChainLength - 1, NEW slot, NEW i
    PROVE  GuestChain(tip, d, slot, i) = IterateHash(tip, ChainLength - 1 - d, slot, i, d)
<1> DEFINE n == ChainLength - 1 - d
<1>1. n \in Nat /\ ChainLength - 1 - n = d /\ n \in 0..n /\ n <= n
  BY ChainLengthIs
<1>2. GuestChain(tip, d, slot, i) = (CHOOSE acc : IsGuestChain(acc, tip, n, slot, i, ChainLength - 1 - n))[n]
  BY DEF GuestChain, IsGuestChain
<1>3. IterateHash(tip, n, slot, i, d) = (CHOOSE acc : IsChain(acc, tip, n, slot, i, d))[n]
  BY DEF IterateHash, IsChain
<1>4. ASSUME NEW acc PROVE IsGuestChain(acc, tip, n, slot, i, d) <=> IsChain(acc, tip, n, slot, i, d)
  <2> HIDE DEF n
  <2> DEFINE tweak(j) == ChainTweak(slot, i, d + j - 1)
  <2>1. \A j : tweak(j)[1] = slot /\ tweak(j)[2] = i /\ tweak(j)[3] = d + j - 1
    BY DEF ChainTweak
  <2>2. \A j : <<acc[j - 1], tweak(j)[1], tweak(j)[2], tweak(j)[3]>> = <<acc[j - 1], slot, i, d + j - 1>>
    BY <2>1
  <2> HIDE DEF tweak
  <2>3. [j \in 0..n |-> IF j = 0 THEN tip ELSE <<acc[j - 1], tweak(j)[1], tweak(j)[2], tweak(j)[3]>>]
            = [j \in 0..n |-> IF j = 0 THEN tip ELSE <<acc[j - 1], slot, i, d + j - 1>>]
    BY <2>2
  <2> QED
    BY <2>3 DEF IsGuestChain, IsChain, tweak
<1> HIDE DEF n
<1>5. \E acc : IsChain(acc, tip, n, slot, i, d)
  BY <1>1, ChainExists
<1> DEFINE g == CHOOSE acc : IsGuestChain(acc, tip, n, slot, i, d)
           f == CHOOSE acc : IsChain(acc, tip, n, slot, i, d)
<1>6. IsChain(f, tip, n, slot, i, d)
  BY <1>5
<1>7. IsChain(g, tip, n, slot, i, d)
  <2>1. \E acc : IsGuestChain(acc, tip, n, slot, i, d)
    BY <1>4, <1>5
  <2>2. IsGuestChain(g, tip, n, slot, i, d)
    BY <2>1
  <2> QED
    BY <1>4, <2>2
<1> HIDE DEF f, g
<1>8. g[n] = f[n]
  BY <1>1, <1>6, <1>7, ChainUnique
<1> QED
  BY <1>1, <1>2, <1>3, <1>8 DEF f, g, n

-----------------------------------------------------------------------------
(* The tree. *)

(* A slot at one level of the tree is half of what it is at the level below, and nothing at the top. *)
LEMMA ShiftedIs ==
    /\ \A s \in Nat : Shifted(s, 0) = s
    /\ \A s \in Slots : Shifted(s, LogLifetime) = 0
    /\ \A s \in Nat, l \in Nat : Shifted(s, l) \in Nat /\ Shifted(s, l + 1) = Shifted(s, l) \div 2
    /\ \A s, t \in Nat, l \in Nat : s <= t => Shifted(s, l) <= Shifted(t, l)
<1>1. ASSUME NEW s \in Nat PROVE Shifted(s, 0) = s
  <2>1. s \div 1 = s
    OBVIOUS
  <2> QED
    BY <2>1, PowerStep DEF Shifted
<1>2. ASSUME NEW s \in Slots PROVE Shifted(s, LogLifetime) = 0
  <2> DEFINE m == 2^LogLifetime
  <2>1. m \in Nat \ {0} /\ s \in 0..m - 1
    BY PowerIsPositive, XmssAssumption DEF Slots
  <2> HIDE DEF m
  <2>2. s \div m = 0
    BY <2>1, SMTT(30)
  <2> QED
    BY <2>2 DEF Shifted, m
<1>3. ASSUME NEW s \in Nat, NEW l \in Nat
      PROVE  Shifted(s, l) \in Nat /\ Shifted(s, l + 1) = Shifted(s, l) \div 2
  <2> DEFINE m == 2^l
  <2>1. m \in Nat \ {0} /\ 2^(l + 1) = 2 * m
    BY PowerIsPositive, PowerStep
  <2> HIDE DEF m
  <2>2. (s \div m) \div 2 = s \div (2 * m) /\ s \div m \in Nat
    BY <2>1, Halved
  <2>3. Shifted(s, l + 1) = s \div (2 * m) /\ Shifted(s, l) = s \div m
    BY <2>1 DEF Shifted, m
  <2> QED
    BY <2>2, <2>3
<1>4. ASSUME NEW s \in Nat, NEW t \in Nat, NEW l \in Nat, s <= t PROVE Shifted(s, l) <= Shifted(t, l)
  <2>1. 2^l \in Nat \ {0}
    BY PowerIsPositive
  <2> QED
    BY <1>4, <2>1, QuotientsGrow DEF Shifted
<1> QED
  BY <1>1, <1>2, <1>3, <1>4

(* A slot at the level below a level l, and its neighbour, are the children of the slot at l. *)
LEMMA ChildrenOf ==
    ASSUME NEW s \in Nat, NEW l \in Nat \ {0}
    PROVE  /\ l - 1 \in Nat /\ Shifted(s, l) \in Nat /\ Shifted(s, l - 1) \in Nat
           /\ Shifted(s, l - 1) % 2 = 0 => /\ Shifted(s, l - 1) = 2 * Shifted(s, l)
                                           /\ Neighbour(Shifted(s, l - 1)) = 2 * Shifted(s, l) + 1
           /\ Shifted(s, l - 1) % 2 # 0 => /\ Shifted(s, l - 1) = 2 * Shifted(s, l) + 1
                                           /\ Neighbour(Shifted(s, l - 1)) = 2 * Shifted(s, l)
<1>1. l - 1 \in Nat /\ (l - 1) + 1 = l
  OBVIOUS
<1>2. Shifted(s, l - 1) \in Nat /\ Shifted(s, (l - 1) + 1) = Shifted(s, l - 1) \div 2
  BY <1>1, ShiftedIs
<1>3. Shifted(s, l) = Shifted(s, l - 1) \div 2 /\ Shifted(s, l) \in Nat
  BY <1>1, <1>2, ShiftedIs
<1> DEFINE below == Shifted(s, l - 1)
           up == Shifted(s, l)
<1>4. below \in Nat /\ up = below \div 2
  BY <1>2, <1>3
<1> HIDE DEF below, up
<1>5. below % 2 = 0 => below = 2 * up
  BY <1>4, SMTT(30)
<1>6. below % 2 # 0 => below = 2 * up + 1
  BY <1>4, SMTT(30)
<1>7. up \in Nat
  BY <1>3 DEF up
<1>8. /\ below % 2 = 0 => below = 2 * up /\ Neighbour(below) = 2 * up + 1
      /\ below % 2 # 0 => below = 2 * up + 1 /\ Neighbour(below) = 2 * up
  <2>1. below % 2 = 0 => Neighbour(below) = below + 1
    BY DEF Neighbour
  <2>2. below % 2 # 0 => Neighbour(below) = below - 1
    BY DEF Neighbour
  <2> QED
    BY <1>5, <1>6, <1>7, <2>1, <2>2
<1> QED
  BY <1>1, <1>2, <1>3, <1>8 DEF below, up

(* The levels of a tree up to n. *)
IsTree(tree, n, start, end) ==
    tree = [l \in 0..n |-> IF l = 0 THEN Leaves(start, end) ELSE LevelAbove(tree[l - 1], start, end, l)]

LEMMA TreeExists ==
    ASSUME NEW n \in Nat, NEW start, NEW end
    PROVE  \E tree : IsTree(tree, n, start, end)
<1> DEFINE T == {m \in Nat : \E tree : IsTree(tree, m, start, end)}
<1>1. 0 \in T
  <2>1. IsTree([l \in 0..0 |-> Leaves(start, end)], 0, start, end)
    BY DEF IsTree
  <2> QED
    BY <2>1
<1>2. ASSUME NEW m \in 1..n, m - 1 \in T PROVE m \in T
  <2>1. PICK tree : IsTree(tree, m - 1, start, end)
    BY <1>2
  <2> DEFINE last0 == LevelAbove(tree[m - 1], start, end, m)
             more == [j \in 0..m |-> IF j = m THEN last0 ELSE tree[j]]
  <2>2. \A j \in 0..m - 1 : tree[j] = IF j = 0 THEN Leaves(start, end) ELSE LevelAbove(tree[j - 1], start, end, j)
    BY <2>1 DEF IsTree
  <2>3. ASSUME NEW j \in 0..m
        PROVE  more[j] = IF j = 0 THEN Leaves(start, end) ELSE LevelAbove(more[j - 1], start, end, j)
    <3> HIDE DEF last0
    <3>1. j # 0 => more[j - 1] = tree[j - 1]
      OBVIOUS
    <3>2. CASE j = m
      <4>1. more[j - 1] = tree[m - 1] /\ more[j] = last0
        BY <3>1, <3>2
      <4> QED
        BY <3>2, <4>1 DEF last0
    <3>3. CASE j # m
      <4>1. j \in 0..m - 1 /\ more[j] = tree[j]
        BY <3>3
      <4> QED
        BY <2>2, <3>1, <4>1
    <3> QED
      BY <3>2, <3>3
  <2> HIDE DEF last0
  <2>4. more = [j \in 0..m |-> more[j]]
    OBVIOUS
  <2> HIDE DEF more
  <2>5. IsTree(more, m, start, end)
    BY <2>3, <2>4 DEF IsTree
  <2> QED
    BY <2>5
<1> HIDE DEF T
<1>3. \A m \in 0..n : m \in T
  BY <1>1, <1>2, UpTo
<1>4. n \in T
  BY <1>3
<1> QED
  BY <1>4 DEF T

(* The levels of a key's tree. *)
LEMMA KeyTreeIs ==
    ASSUME NEW start, NEW end
    PROVE  /\ KeyTree(start, end)[0] = Leaves(start, end)
           /\ \A l \in 1..LogLifetime :
                 KeyTree(start, end)[l] = LevelAbove(KeyTree(start, end)[l - 1], start, end, l)
<1> DEFINE n == LogLifetime
           tree == CHOOSE t : IsTree(t, n, start, end)
<1>0. n \in Nat
  BY XmssAssumption
<1>1. KeyTree(start, end) = tree
  BY DEF KeyTree, IsTree
<1>2. IsTree(tree, n, start, end)
  BY <1>0, TreeExists
<1> HIDE DEF tree
<1>3. \A l \in 0..n : tree[l] = IF l = 0 THEN Leaves(start, end) ELSE LevelAbove(tree[l - 1], start, end, l)
  BY <1>2 DEF IsTree
<1>4. 0 \in 0..n /\ \A l \in 1..n : l \in 0..n /\ l # 0
  BY <1>0
<1> QED
  BY <1>1, <1>3, <1>4

(* A node of the tree over the range is the hash of its children, stored or derived. *)
LEMMA NodeIs ==
    ASSUME NEW start, NEW end, NEW l \in 1..LogLifetime, NEW i \in Shifted(start, l)..Shifted(end, l)
    PROVE  KeyTree(start, end)[l][i]
               = Parent(l, i, StoredNode(KeyTree(start, end)[l - 1], start, end, l - 1, 2 * i),
                              StoredNode(KeyTree(start, end)[l - 1], start, end, l - 1, 2 * i + 1))
<1> DEFINE layer == KeyTree(start, end)[l - 1]
<1>1. KeyTree(start, end)[l] = LevelAbove(layer, start, end, l)
  BY KeyTreeIs
<1> HIDE DEF layer
<1>2. LevelAbove(layer, start, end, l)[i]
          = Parent(l, i, StoredNode(layer, start, end, l - 1, 2 * i), StoredNode(layer, start, end, l - 1, 2 * i + 1))
  BY DEF LevelAbove
<1> QED
  BY <1>1, <1>2 DEF layer

(* The digests along a path, up to level n. *)
IsPath(hash, n, leaf, proof, slot) ==
    hash = [l \in 0..n |-> IF l = 0 THEN leaf ELSE PathStep(hash[l - 1], proof[l], slot, l)]

LEMMA PathExists ==
    ASSUME NEW n \in Nat, NEW leaf, NEW proof, NEW slot
    PROVE  \E hash : IsPath(hash, n, leaf, proof, slot)
<1> DEFINE T == {m \in Nat : \E hash : IsPath(hash, m, leaf, proof, slot)}
<1>1. 0 \in T
  <2>1. IsPath([l \in 0..0 |-> leaf], 0, leaf, proof, slot)
    BY DEF IsPath
  <2> QED
    BY <2>1
<1>2. ASSUME NEW m \in 1..n, m - 1 \in T PROVE m \in T
  <2>1. PICK hash : IsPath(hash, m - 1, leaf, proof, slot)
    BY <1>2
  <2> DEFINE last0 == PathStep(hash[m - 1], proof[m], slot, m)
             more == [j \in 0..m |-> IF j = m THEN last0 ELSE hash[j]]
  <2>2. \A j \in 0..m - 1 : hash[j] = IF j = 0 THEN leaf ELSE PathStep(hash[j - 1], proof[j], slot, j)
    BY <2>1 DEF IsPath
  <2>3. ASSUME NEW j \in 0..m
        PROVE  more[j] = IF j = 0 THEN leaf ELSE PathStep(more[j - 1], proof[j], slot, j)
    <3> HIDE DEF last0
    <3>1. j # 0 => more[j - 1] = hash[j - 1]
      OBVIOUS
    <3>2. CASE j = m
      <4>1. more[j - 1] = hash[m - 1] /\ more[j] = last0
        BY <3>1, <3>2
      <4> QED
        BY <3>2, <4>1 DEF last0
    <3>3. CASE j # m
      <4>1. j \in 0..m - 1 /\ more[j] = hash[j]
        BY <3>3
      <4> QED
        BY <2>2, <3>1, <4>1
    <3> QED
      BY <3>2, <3>3
  <2> HIDE DEF last0
  <2>4. more = [j \in 0..m |-> more[j]]
    OBVIOUS
  <2> HIDE DEF more
  <2>5. IsPath(more, m, leaf, proof, slot)
    BY <2>3, <2>4 DEF IsPath
  <2> QED
    BY <2>5
<1> HIDE DEF T
<1>3. \A m \in 0..n : m \in T
  BY <1>1, <1>2, UpTo
<1>4. n \in T
  BY <1>3
<1> QED
  BY <1>4 DEF T

(* The digests from the leaf to the root of a path. *)
Climbs(hash, leaf, proof, slot) ==
    /\ hash[0] = leaf
    /\ \A l \in 1..LogLifetime : hash[l] = PathStep(hash[l - 1], proof[l], slot, l)

LEMMA PathClimbs ==
    ASSUME NEW hash, NEW leaf, NEW proof, NEW slot, IsPath(hash, LogLifetime, leaf, proof, slot)
    PROVE  Climbs(hash, leaf, proof, slot)
<1>1. \A l \in 0..LogLifetime : hash[l] = IF l = 0 THEN leaf ELSE PathStep(hash[l - 1], proof[l], slot, l)
  BY DEF IsPath
<1>2. 0 \in 0..LogLifetime /\ \A l \in 1..LogLifetime : l \in 0..LogLifetime /\ l # 0
  BY XmssAssumption
<1>3. hash[0] = leaf
  BY <1>1, <1>2
<1>4. ASSUME NEW l \in 1..LogLifetime PROVE hash[l] = PathStep(hash[l - 1], proof[l], slot, l)
  BY <1>1, <1>2
<1> QED
  BY <1>3, <1>4 DEF Climbs

LEMMA PathRootIs ==
    ASSUME NEW leaf, NEW proof, NEW slot
    PROVE  \E hash : Climbs(hash, leaf, proof, slot) /\ PathRoot(leaf, proof, slot) = hash[LogLifetime]
<1> DEFINE hash == CHOOSE h : IsPath(h, LogLifetime, leaf, proof, slot)
<1>1. PathRoot(leaf, proof, slot) = hash[LogLifetime]
  BY DEF PathRoot, IsPath
<1>2. IsPath(hash, LogLifetime, leaf, proof, slot)
  BY PathExists, XmssAssumption
<1>3. Climbs(hash, leaf, proof, slot)
  <2> HIDE DEF hash
  <2> QED
    BY <1>2, PathClimbs
<1> QED
  BY <1>1, <1>3

(* There is one way up. *)
LEMMA OneWayUp ==
    ASSUME NEW f, NEW g, NEW leaf, NEW proof, NEW slot,
           Climbs(f, leaf, proof, slot), Climbs(g, leaf, proof, slot)
    PROVE  f[LogLifetime] = g[LogLifetime]
<1> DEFINE T == {l \in 0..LogLifetime : f[l] = g[l]}
<1>0. LogLifetime \in Nat
  BY XmssAssumption
<1>1. 0 \in T
  <2>1. f[0] = g[0]
    BY DEF Climbs
  <2> QED
    BY <1>0, <2>1
<1>2. ASSUME NEW l \in 1..LogLifetime, l - 1 \in T PROVE l \in T
  <2>1. l \in 0..LogLifetime /\ f[l - 1] = g[l - 1]
    BY <1>0, <1>2
  <2>2. f[l] = PathStep(f[l - 1], proof[l], slot, l) /\ g[l] = PathStep(g[l - 1], proof[l], slot, l)
    BY DEF Climbs
  <2> QED
    BY <2>1, <2>2
<1> HIDE DEF T
<1>3. \A l \in 0..LogLifetime : l \in T
  BY <1>0, <1>1, <1>2, UpTo
<1>4. LogLifetime \in T
  BY <1>0, <1>3
<1> QED
  BY <1>4 DEF T

(* The powers of two below 16. *)
LEMMA SmallPowers == ASSUME NEW j \in 0..3 PROVE 2^j \in {1, 2, 4, 8}
<1>1. j = 0 \/ j = 1 \/ j = 2 \/ j = 3
  OBVIOUS
<1>2. CASE j = 0
  BY <1>2, PowerStep
<1>3. CASE j = 1
  BY <1>3
<1>4. CASE j = 2
  BY <1>4
<1>5. CASE j = 3
  BY <1>5
<1> QED
  BY <1>1, <1>2, <1>3, <1>4, <1>5

(* Bit j of an inverted nibble n is set where that of n is not. *)
LEMMA InvertedBit ==
    ASSUME NEW n \in 0..15, NEW j \in 0..3, NEW m, m = 2^j
    PROVE  ((15 - n) \div m) % 2 = 1 <=> (n \div m) % 2 = 0
<1>3. m \in {1, 2, 4, 8}
  BY SmallPowers
<1>4. CASE m = 1
  BY <1>4, SMTT(30)
<1>5. CASE m = 2
  BY <1>5, SMTT(30)
<1>6. CASE m = 4
  BY <1>6, SMTT(30)
<1>7. CASE m = 8
  BY <1>7, SMTT(30)
<1> QED
  BY <1>3, <1>4, <1>5, <1>6, <1>7

(* The bits of a nibble are those of the number it is taken from. *)
LEMMA NibbleBit ==
    ASSUME NEW x \in Nat, NEW j \in 0..3, NEW m, m = 2^j
    PROVE  ((x % 16) \div m) % 2 = (x \div m) % 2 /\ x % 16 \in 0..15
<1>3. m \in {1, 2, 4, 8}
  BY SmallPowers
<1>4. CASE m = 1
  BY <1>4, SMTT(30)
<1>5. CASE m = 2
  BY <1>5, SMTT(30)
<1>6. CASE m = 4
  BY <1>6, SMTT(30)
<1>7. CASE m = 8
  BY <1>7, SMTT(30)
<1> QED
  BY <1>3, <1>4, <1>5, <1>6, <1>7

(* Dividing by one number and then by another divides by their product. *)
LEMMA DividedTwice ==
    ASSUME NEW a \in Nat, NEW m \in Nat \ {0}, NEW n \in Nat \ {0}
    PROVE  (a \div m) \div n = a \div (m * n)
<1> DEFINE q == a \div m
           r == a % m
           s == q \div n
           t == q % n
<1>1. q \in Nat /\ r \in 0..m - 1 /\ a = q * m + r
  BY SMTT(30)
<1>2. s \in Nat /\ t \in 0..n - 1 /\ q = s * n + t
  <2> HIDE DEF q
  <2> QED
    BY <1>1, SMTT(30)
<1> HIDE DEF q, r, s, t
<1>3. a = s * (m * n) + (t * m + r)
  BY <1>1, <1>2, SMTT(30)
<1>4. t * m \in Nat /\ t * m <= (n - 1) * m /\ (n - 1) * m = m * n - m
  <2>1. n - 1 \in Nat /\ t <= n - 1 /\ t \in Nat
    BY <1>2
  <2>2. t * m \in Nat /\ t * m <= (n - 1) * m
    BY <2>1, Multiples
  <2> QED
    BY <2>2, SMTT(30)
<1> DEFINE mn == m * n
           rest == t * m + r
<1>5. mn \in Nat \ {0}
  BY SMTT(30)
<1>6. rest \in 0..mn - 1
  BY <1>1, <1>4, <1>5
<1>7. a = s * mn + rest
  BY <1>3
<1> HIDE DEF mn, rest
<1>8. (s * mn + rest) \div mn = s
  BY <1>2, <1>5, <1>6, Quotient
<1> QED
  BY <1>7, <1>8 DEF mn, s, q

(* The guest takes the same turn as xmss_verify at every level. *)
LEMMA SameTurn ==
    ASSUME NEW slot \in Slots, NEW l \in 1..LogLifetime, NEW digest, NEW node
    PROVE  GuestPathStep(digest, node, slot, l) = PathStep(digest, node, slot, l)
<1> DEFINE k == l - 1
           c == k \div 4
           j == k % 4
           x == slot \div 2^(c * 4)
<1>0. slot \in Nat /\ LogLifetime \in Nat /\ LogLifetime % 4 = 0
  BY XmssAssumption, PowerIsPositive DEF Slots, LevelsPerChunk
<1>1. k \in Nat /\ k < LogLifetime /\ k + 1 = l
  BY <1>0
<1>2. c \in 0..(LogLifetime \div 4) - 1 /\ j \in 0..3 /\ k = c * 4 + j /\ c * 4 \in Nat
  <2> HIDE DEF k
  <2> QED
    BY <1>0, <1>1, SMTT(30)
<1>3. MerkleChunks(slot)[c] = 15 - (x % 16)
  <2>1. 2^4 = 16
    OBVIOUS
  <2> HIDE DEF c
  <2> QED
    BY <1>2, <2>1 DEF MerkleChunks, LevelsPerChunk
<1> DEFINE m == 2^j
           p == 2^(c * 4)
<1>4. m \in Nat \ {0} /\ p \in Nat \ {0} /\ 2^k = p * m
  <2> HIDE DEF j, c, k
  <2>1. j \in Nat
    BY <1>2
  <2>2. 2^(c * 4 + j) = 2^(c * 4) * 2^j
    BY <1>2, <2>1, PowerOfSum
  <2> QED
    BY <1>2, <2>1, <2>2, PowerIsPositive
<1>5. x \in Nat /\ x \div m = Shifted(slot, k)
  <2>1. (slot \div p) \div m = slot \div (p * m)
    <3> HIDE DEF p, m
    <3> QED
      BY <1>0, <1>4, DividedTwice
  <2>2. slot \div p \in Nat
    <3> HIDE DEF p
    <3> QED
      BY <1>0, <1>4, SMTT(30)
  <2> QED
    BY <1>4, <2>1, <2>2 DEF Shifted
<1>6. ChunkBit(MerkleChunks(slot)[c], j) = 1 <=> Shifted(slot, k) % 2 = 0
  <2> HIDE DEF x, m, k, j
  <2>1. ((x % 16) \div m) % 2 = (x \div m) % 2 /\ x % 16 \in 0..15
    BY <1>2, <1>5, NibbleBit DEF m
  <2> DEFINE n == x % 16
  <2>2. n \in 0..15 /\ (n \div m) % 2 = Shifted(slot, k) % 2
    BY <2>1, <1>5
  <2> HIDE DEF n
  <2>3. ((15 - n) \div m) % 2 = 1 <=> (n \div m) % 2 = 0
    BY <1>2, <2>2, InvertedBit DEF m
  <2>4. ChunkBit(MerkleChunks(slot)[c], j) = ((15 - n) \div m) % 2
    BY <1>3 DEF ChunkBit, m, n
  <2> QED
    BY <2>2, <2>3, <2>4
<1>7. MerkleTweak(slot, k)[1] = l /\ MerkleTweak(slot, k)[2] = Shifted(slot, l)
  <2>1. MerkleTweak(slot, k) = <<l, Shifted(slot, l)>>
    <3> HIDE DEF k
    <3> QED
      BY <1>1 DEF MerkleTweak
  <2> QED
    BY <2>1
<1>8. GuestPathStep(digest, node, slot, l)
          = IF ChunkBit(MerkleChunks(slot)[c], j) = 1
            THEN Parent(MerkleTweak(slot, k)[1], MerkleTweak(slot, k)[2], digest, node)
            ELSE Parent(MerkleTweak(slot, k)[1], MerkleTweak(slot, k)[2], node, digest)
  BY DEF GuestPathStep, LevelsPerChunk
<1>9. PathStep(digest, node, slot, l)
          = IF Shifted(slot, k) % 2 = 0 THEN Parent(l, Shifted(slot, l), digest, node)
            ELSE Parent(l, Shifted(slot, l), node, digest)
  BY DEF PathStep
<1> HIDE DEF k, c, j
<1> QED
  BY <1>6, <1>7, <1>8, <1>9

(* The guest's path leads to the same root. *)
LEMMA GuestPathIs ==
    ASSUME NEW leaf, NEW proof, NEW slot \in Slots
    PROVE  GuestPathRoot(leaf, proof, slot) = PathRoot(leaf, proof, slot)
<1> DEFINE IsGuestPath(hash) ==
               hash = [l \in 0..LogLifetime |->
                          IF l = 0 THEN leaf ELSE GuestPathStep(hash[l - 1], proof[l], slot, l)]
           guest == CHOOSE hash : IsGuestPath(hash)
<1>1. GuestPathRoot(leaf, proof, slot) = guest[LogLifetime]
  BY DEF GuestPathRoot
<1>2. ASSUME NEW hash PROVE IsGuestPath(hash) <=> IsPath(hash, LogLifetime, leaf, proof, slot)
  <2>1. ASSUME NEW l \in 0..LogLifetime, l # 0
        PROVE  GuestPathStep(hash[l - 1], proof[l], slot, l) = PathStep(hash[l - 1], proof[l], slot, l)
    <3>1. l \in 1..LogLifetime
      BY <2>1, XmssAssumption
    <3> QED
      BY <3>1, SameTurn
  <2>2. \A l \in 0..LogLifetime :
            (IF l = 0 THEN leaf ELSE GuestPathStep(hash[l - 1], proof[l], slot, l))
                = (IF l = 0 THEN leaf ELSE PathStep(hash[l - 1], proof[l], slot, l))
    BY <2>1
  <2>3. [l \in 0..LogLifetime |-> IF l = 0 THEN leaf ELSE GuestPathStep(hash[l - 1], proof[l], slot, l)]
            = [l \in 0..LogLifetime |-> IF l = 0 THEN leaf ELSE PathStep(hash[l - 1], proof[l], slot, l)]
    BY <2>2
  <2> QED
    BY <2>3 DEF IsPath
<1>3. IsPath(guest, LogLifetime, leaf, proof, slot)
  <2>1. \E hash : IsPath(hash, LogLifetime, leaf, proof, slot)
    BY PathExists, XmssAssumption
  <2>2. \E hash : IsGuestPath(hash)
    BY <1>2, <2>1
  <2>3. IsGuestPath(guest)
    BY <2>2
  <2> QED
    BY <1>2, <2>3
<1> HIDE DEF guest
<1>4. Climbs(guest, leaf, proof, slot)
  BY <1>3, PathClimbs
<1>5. PICK hash : Climbs(hash, leaf, proof, slot) /\ PathRoot(leaf, proof, slot) = hash[LogLifetime]
  BY PathRootIs
<1> QED
  BY <1>1, <1>4, <1>5, OneWayUp

(* A key generated for a range of slots of the lifetime. *)
IsKey(secret) ==
    /\ secret.start \in Nat /\ secret.end \in Slots /\ secret.start <= secret.end
    /\ secret.tree = KeyTree(secret.start, secret.end)

LEMMA SlotsAreNumbers == \A s \in Slots : s \in Nat
BY PowerIsPositive, XmssAssumption DEF Slots

(* The node that signing gives for a path is the one key generation hashed. *)
LEMMA PathNodeIsStored ==
    ASSUME NEW secret, IsKey(secret), NEW level \in Nat, NEW index \in Nat
    PROVE  PathNode(secret, level, index)
               = StoredNode(secret.tree[level], secret.start, secret.end, level, index)
<1>1. secret.start \in Nat /\ secret.end \in Nat
  BY SlotsAreNumbers DEF IsKey
<1>2. Shifted(secret.start, level) \in Nat /\ Shifted(secret.end, level) \in Nat
  BY <1>1, ShiftedIs
<1> QED
  BY <1>2 DEF PathNode, StoredNode

(* A slot of the range is in the range at every level. *)
LEMMA InRange ==
    ASSUME NEW secret, IsKey(secret), NEW slot \in secret.start..secret.end, NEW l \in Nat
    PROVE  /\ slot \in Nat /\ slot \in Slots
           /\ Shifted(slot, l) \in Shifted(secret.start, l)..Shifted(secret.end, l)
<1>1. secret.start \in Nat /\ secret.end \in Nat /\ secret.end \in Slots
  BY SlotsAreNumbers DEF IsKey
<1>2. slot \in Nat /\ secret.start <= slot /\ slot <= secret.end
  BY <1>1
<1>3. slot \in Slots
  BY <1>1, <1>2, PowerIsPositive, XmssAssumption DEF Slots
<1>4. /\ Shifted(slot, l) \in Nat /\ Shifted(secret.start, l) \in Nat /\ Shifted(secret.end, l) \in Nat
      /\ Shifted(secret.start, l) <= Shifted(slot, l) /\ Shifted(slot, l) <= Shifted(secret.end, l)
  BY <1>1, <1>2, ShiftedIs
<1> QED
  BY <1>2, <1>3, <1>4

(* The path of a signature leads from the leaf of its slot to the root of the key. *)
LEMMA PathLeadsToTheRoot ==
    ASSUME NEW secret, IsKey(secret), NEW slot \in secret.start..secret.end
    PROVE  PathRoot(WotsLeaf(slot, WotsPublicKey(slot)), MerkleProof(secret, slot), slot) = Root(secret)
<1> DEFINE leaf == WotsLeaf(slot, WotsPublicKey(slot))
           proof == MerkleProof(secret, slot)
           start == secret.start
           end == secret.end
           tree == secret.tree
<1>0. LogLifetime \in Nat \ {0} /\ slot \in Nat /\ slot \in Slots /\ tree = KeyTree(start, end)
  BY XmssAssumption, InRange, 0 \in Nat DEF IsKey
<1>1. PICK hash : Climbs(hash, leaf, proof, slot) /\ PathRoot(leaf, proof, slot) = hash[LogLifetime]
  BY PathRootIs
<1> DEFINE T == {l \in 0..LogLifetime : hash[l] = tree[l][Shifted(slot, l)]}
<1>2. 0 \in T
  <2>1. hash[0] = leaf
    BY <1>1 DEF Climbs
  <2>2. tree[0] = Leaves(start, end)
    BY <1>0, KeyTreeIs
  <2>3. Leaves(start, end)[slot] = leaf
    BY DEF Leaves
  <2>4. Shifted(slot, 0) = slot /\ 0 \in 0..LogLifetime
    BY <1>0, ShiftedIs
  <2>5. hash[0] = tree[0][Shifted(slot, 0)]
    BY <2>1, <2>2, <2>3, <2>4
  <2> QED
    BY <2>4, <2>5
<1>3. ASSUME NEW l \in 1..LogLifetime, l - 1 \in T PROVE l \in T
  <2> DEFINE i == Shifted(slot, l)
             below == Shifted(slot, l - 1)
             layer == tree[l - 1]
  <2>1. l \in Nat \ {0} /\ l - 1 \in Nat /\ l \in 0..LogLifetime
    BY <1>0
  <2>2. i \in Nat /\ below \in Nat
    BY <1>0, <2>1, ShiftedIs
  <2>3. i \in Shifted(start, l)..Shifted(end, l) /\ below \in Shifted(start, l - 1)..Shifted(end, l - 1)
    BY <2>1, InRange
  <2>4. tree[l][i] = Parent(l, i, StoredNode(layer, start, end, l - 1, 2 * i),
                                  StoredNode(layer, start, end, l - 1, 2 * i + 1))
    <3> HIDE DEF i
    <3> QED
      BY <1>0, <2>3, NodeIs
  <2>5. hash[l - 1] = StoredNode(layer, start, end, l - 1, below)
    BY <1>3, <2>3 DEF StoredNode
  <2>6. proof[l] = StoredNode(layer, start, end, l - 1, Neighbour(below))
    <3>1. proof[l] = PathNode(secret, l - 1, Neighbour(below))
      BY DEF MerkleProof
    <3>2. Neighbour(below) \in Nat
      BY <2>2, SMTT(30) DEF Neighbour
    <3> QED
      BY <2>1, <3>1, <3>2, PathNodeIsStored
  <2>7. hash[l] = IF below % 2 = 0 THEN Parent(l, i, hash[l - 1], proof[l])
                  ELSE Parent(l, i, proof[l], hash[l - 1])
    BY <1>1 DEF Climbs, PathStep
  <2>8. /\ below % 2 = 0 => below = 2 * i /\ Neighbour(below) = 2 * i + 1
        /\ below % 2 # 0 => below = 2 * i + 1 /\ Neighbour(below) = 2 * i
    BY <1>0, <2>1, ChildrenOf
  <2> HIDE DEF i, below, layer, proof, start, end, tree
  <2>9. CASE below % 2 = 0
    <3>1. hash[l] = tree[l][i]
      BY <2>4, <2>5, <2>6, <2>7, <2>8, <2>9
    <3> QED
      BY <2>1, <3>1 DEF i
  <2>10. CASE below % 2 # 0
    <3>1. hash[l] = tree[l][i]
      BY <2>4, <2>5, <2>6, <2>7, <2>8, <2>10
    <3> QED
      BY <2>1, <3>1 DEF i
  <2> QED
    BY <2>9, <2>10
<1> HIDE DEF T
<1>4. \A l \in 0..LogLifetime : l \in T
  BY <1>0, <1>2, <1>3, UpTo
<1>5. hash[LogLifetime] = tree[LogLifetime][Shifted(slot, LogLifetime)]
  BY <1>0, <1>4 DEF T
<1>6. Shifted(slot, LogLifetime) = 0
  BY <1>0, ShiftedIs
<1> QED
  BY <1>1, <1>5, <1>6 DEF Root

(* Whatever path leads from a leaf to the root, the leaf is that of its slot, and in the range. *)
LEMMA OnlyLeavesReachTheRoot ==
    ASSUME NEW secret, IsKey(secret), NEW slot \in Slots, NEW ends, NEW proof,
           PathRoot(WotsLeaf(slot, ends), proof, slot) = Root(secret)
    PROVE  slot \in secret.start..secret.end /\ ends = WotsPublicKey(slot)
<1> DEFINE leaf == WotsLeaf(slot, ends)
           start == secret.start
           end == secret.end
           tree == secret.tree
           InTree(hash, l) == /\ Shifted(slot, l) \in Shifted(start, l)..Shifted(end, l)
                              /\ hash[l] = tree[l][Shifted(slot, l)]
<1>0. /\ LogLifetime \in Nat \ {0} /\ slot \in Nat /\ start \in Nat /\ end \in Nat /\ tree = KeyTree(start, end)
      /\ start \in Slots /\ end \in Slots
  <2>1. secret.start \in Nat /\ secret.end \in Nat
    BY SlotsAreNumbers DEF IsKey
  <2>2. secret.start \in Slots
    BY <2>1, PowerIsPositive, XmssAssumption DEF IsKey, Slots
  <2> QED
    BY <2>1, <2>2, XmssAssumption, SlotsAreNumbers DEF IsKey
<1>1. PICK hash : Climbs(hash, leaf, proof, slot) /\ PathRoot(leaf, proof, slot) = hash[LogLifetime]
  BY PathRootIs
<1> DEFINE T == {k \in 0..LogLifetime : InTree(hash, LogLifetime - k)}
<1>2. 0 \in T
  <2>1. /\ Shifted(slot, LogLifetime) = 0
        /\ Shifted(start, LogLifetime) = 0 /\ Shifted(end, LogLifetime) = 0
    BY <1>0, ShiftedIs
  <2>2. hash[LogLifetime] = tree[LogLifetime][0]
    BY <1>1 DEF Root
  <2>3. LogLifetime - 0 = LogLifetime /\ 0 \in 0..0
    BY <1>0
  <2> QED
    BY <1>0, <2>1, <2>2, <2>3
<1>3. ASSUME NEW k \in 1..LogLifetime, k - 1 \in T PROVE k \in T
  <2> DEFINE l == LogLifetime - (k - 1)
             i == Shifted(slot, l)
             below == Shifted(slot, l - 1)
             layer == tree[l - 1]
             child(n) == StoredNode(layer, start, end, l - 1, n)
  <2>1. l \in 1..LogLifetime /\ l \in Nat \ {0} /\ l - 1 \in Nat /\ l - 1 = LogLifetime - k /\ k \in 0..LogLifetime
    BY <1>0
  <2>2. i \in Shifted(start, l)..Shifted(end, l) /\ hash[l] = tree[l][i]
    BY <1>3
  <2>3. tree[l][i] = Parent(l, i, child(2 * i), child(2 * i + 1))
    <3> HIDE DEF i, l
    <3> QED
      BY <1>0, <2>1, <2>2, NodeIs
  <2>4. hash[l] = IF below % 2 = 0 THEN Parent(l, i, hash[l - 1], proof[l])
                  ELSE Parent(l, i, proof[l], hash[l - 1])
    <3> HIDE DEF l
    <3> QED
      BY <1>1, <2>1 DEF Climbs, PathStep
  <2>5. /\ below % 2 = 0 => below = 2 * i
        /\ below % 2 # 0 => below = 2 * i + 1
    <3> HIDE DEF l
    <3> QED
      BY <1>0, <2>1, ChildrenOf
  <2>6. hash[l - 1] = child(below)
    <3> HIDE DEF i, l, below, child
    <3>1. CASE below % 2 = 0
      BY <2>2, <2>3, <2>4, <2>5, <3>1 DEF Parent
    <3>2. CASE below % 2 # 0
      BY <2>2, <2>3, <2>4, <2>5, <3>2 DEF Parent
    <3> QED
      BY <3>1, <3>2
  <2>7. below \in Shifted(start, l - 1)..Shifted(end, l - 1)
    <3> SUFFICES ASSUME below \notin Shifted(start, l - 1)..Shifted(end, l - 1) PROVE FALSE
      OBVIOUS
    <3>1. hash[l - 1] = <<l - 1, below, 0>>
      BY <2>6 DEF StoredNode, RandomNode
    <3>2. CASE l - 1 = 0
      <4>1. hash[l - 1] = <<slot, ends>>
        BY <1>1, <3>2 DEF Climbs, WotsLeaf
      <4> QED
        BY <3>1, <4>1, Apart
    <3>3. CASE l - 1 # 0
      <4> HIDE DEF l
      <4>1. l - 1 \in 1..LogLifetime
        BY <1>0, <2>1, <3>3
      <4>2. hash[l - 1] = PathStep(hash[(l - 1) - 1], proof[l - 1], slot, l - 1)
        BY <1>1, <4>1 DEF Climbs
      <4>3. \E a, b, c, d : hash[l - 1] = <<a, b, c, d>>
        BY <4>2 DEF PathStep, Parent
      <4> QED
        BY <3>1, <4>3, Apart
    <3> QED
      BY <3>2, <3>3
  <2>8. hash[l - 1] = tree[l - 1][below]
    BY <2>6, <2>7 DEF StoredNode
  <2> HIDE DEF l
  <2> QED
    BY <2>1, <2>7, <2>8
<1> HIDE DEF T
<1>4. \A k \in 0..LogLifetime : k \in T
  BY <1>0, <1>2, <1>3, UpTo
<1>5. Shifted(slot, 0) \in Shifted(start, 0)..Shifted(end, 0) /\ hash[0] = tree[0][Shifted(slot, 0)]
  <2>1. LogLifetime \in T /\ LogLifetime - LogLifetime = 0
    BY <1>0, <1>4
  <2> QED
    BY <2>1 DEF T
<1>6. slot \in start..end /\ hash[0] = tree[0][slot]
  BY <1>0, <1>5, ShiftedIs
<1>7. tree[0][slot] = WotsLeaf(slot, WotsPublicKey(slot))
  <2>1. tree[0] = Leaves(start, end)
    BY <1>0, KeyTreeIs
  <2>2. Leaves(start, end)[slot] = WotsLeaf(slot, WotsPublicKey(slot))
    BY <1>6 DEF Leaves
  <2> QED
    BY <2>1, <2>2
<1>8. <<slot, ends>> = <<slot, WotsPublicKey(slot)>>
  BY <1>1, <1>6, <1>7 DEF Climbs, WotsLeaf
<1> QED
  BY <1>6, <1>8

-----------------------------------------------------------------------------
(* Sums and encodings. *)

(* The sums of the first numbers of a sequence. *)
IsSum(sum, s, n) == sum = [k \in 0..n |-> IF k = 0 THEN 0 ELSE sum[k - 1] + s[k]]

LEMMA SumExists ==
    ASSUME NEW n \in Nat, NEW s
    PROVE  \E sum : IsSum(sum, s, n)
<1> DEFINE T == {m \in Nat : \E sum : IsSum(sum, s, m)}
<1>1. 0 \in T
  <2>1. IsSum([k \in 0..0 |-> 0], s, 0)
    BY DEF IsSum
  <2> QED
    BY <2>1
<1>2. ASSUME NEW m \in 1..n, m - 1 \in T PROVE m \in T
  <2>1. PICK sum : IsSum(sum, s, m - 1)
    BY <1>2
  <2> DEFINE last0 == sum[m - 1] + s[m]
             more == [j \in 0..m |-> IF j = m THEN last0 ELSE sum[j]]
  <2>2. \A j \in 0..m - 1 : sum[j] = IF j = 0 THEN 0 ELSE sum[j - 1] + s[j]
    BY <2>1 DEF IsSum
  <2>3. ASSUME NEW j \in 0..m
        PROVE  more[j] = IF j = 0 THEN 0 ELSE more[j - 1] + s[j]
    <3> HIDE DEF last0
    <3>1. j # 0 => more[j - 1] = sum[j - 1]
      OBVIOUS
    <3>2. CASE j = m
      <4>1. more[j - 1] = sum[m - 1] /\ more[j] = last0
        BY <3>1, <3>2
      <4> QED
        BY <3>2, <4>1 DEF last0
    <3>3. CASE j # m
      <4>1. j \in 0..m - 1 /\ more[j] = sum[j]
        BY <3>3
      <4> QED
        BY <2>2, <3>1, <4>1
    <3> QED
      BY <3>2, <3>3
  <2> HIDE DEF last0
  <2>4. more = [j \in 0..m |-> more[j]]
    OBVIOUS
  <2> HIDE DEF more
  <2>5. IsSum(more, s, m)
    BY <2>3, <2>4 DEF IsSum
  <2> QED
    BY <2>5
<1> HIDE DEF T
<1>3. \A m \in 0..n : m \in T
  BY <1>1, <1>2, UpTo
<1>4. n \in T
  BY <1>3
<1> QED
  BY <1>4 DEF T

AddsUp(sum, s, n) == sum[0] = 0 /\ \A k \in 1..n : sum[k] = sum[k - 1] + s[k]

LEMMA TotalIs ==
    ASSUME NEW n \in Nat, NEW s, Len(s) = n
    PROVE  \E sum : AddsUp(sum, s, n) /\ Total(s) = sum[n]
<1> DEFINE sum == CHOOSE f : IsSum(f, s, n)
<1>1. Total(s) = sum[n]
  BY DEF Total, IsSum
<1>2. IsSum(sum, s, n)
  BY SumExists
<1>3. AddsUp(sum, s, n)
  <2> HIDE DEF sum
  <2>1. \A k \in 0..n : sum[k] = IF k = 0 THEN 0 ELSE sum[k - 1] + s[k]
    BY <1>2 DEF IsSum
  <2>2. 0 \in 0..n /\ \A k \in 1..n : k \in 0..n /\ k # 0
    OBVIOUS
  <2>3. sum[0] = 0
    BY <2>1, <2>2
  <2>4. ASSUME NEW k \in 1..n PROVE sum[k] = sum[k - 1] + s[k]
    BY <2>1, <2>2
  <2> QED
    BY <2>3, <2>4 DEF AddsUp
<1> QED
  BY <1>1, <1>3

(* The length of a function on 1..n. *)
LEMMA LengthIs ==
    ASSUME NEW n \in Nat, NEW S, NEW f \in [1..n -> S]
    PROVE  Len(f) = n
OBVIOUS

(* Numbers none of which is smaller, and whose sum is not greater, are the same. *)
LEMMA SameTotalSameNumbers ==
    ASSUME NEW n \in Nat, NEW s \in [1..n -> Nat], NEW t \in [1..n -> Nat],
           \A i \in 1..n : s[i] >= t[i], Total(s) = Total(t)
    PROVE  s = t
<1>1. Len(s) = n /\ Len(t) = n
  BY LengthIs
<1>2. PICK f : AddsUp(f, s, n) /\ Total(s) = f[n]
  BY <1>1, TotalIs
<1>3. PICK g : AddsUp(g, t, n) /\ Total(t) = g[n]
  BY <1>1, TotalIs
<1> DEFINE Alike(k) == \A j \in 1..k : s[j] = t[j]
           T == {k \in 0..n : f[k] \in Nat /\ g[k] \in Nat /\ f[k] >= g[k] /\ (f[k] = g[k] => Alike(k))}
<1>4. 0 \in T
  <2>1. f[0] = 0 /\ g[0] = 0 /\ 1..0 = {}
    BY <1>2, <1>3 DEF AddsUp
  <2>2. Alike(0)
    BY <2>1
  <2> QED
    BY <2>1, <2>2
<1>5. ASSUME NEW k \in 1..n, k - 1 \in T PROVE k \in T
  <2>1. f[k] = f[k - 1] + s[k] /\ g[k] = g[k - 1] + t[k]
    BY <1>2, <1>3 DEF AddsUp
  <2>2. s[k] \in Nat /\ t[k] \in Nat /\ s[k] >= t[k]
    OBVIOUS
  <2>3. /\ f[k - 1] \in Nat /\ g[k - 1] \in Nat /\ f[k - 1] >= g[k - 1]
        /\ f[k - 1] = g[k - 1] => Alike(k - 1)
    BY <1>5
  <2>4. f[k] \in Nat /\ g[k] \in Nat /\ f[k] >= g[k]
    BY <2>1, <2>2, <2>3
  <2>5. ASSUME f[k] = g[k] PROVE Alike(k)
    <3>1. f[k - 1] = g[k - 1] /\ s[k] = t[k]
      BY <2>1, <2>2, <2>3, <2>5
    <3>2. Alike(k - 1)
      BY <2>3, <3>1
    <3>3. \A j \in 1..k : j = k \/ j \in 1..k - 1
      OBVIOUS
    <3> QED
      BY <3>1, <3>2, <3>3
  <2> QED
    BY <2>4, <2>5
<1> HIDE DEF T
<1>6. \A k \in 0..n : k \in T
  BY <1>4, <1>5, UpTo
<1>7. Alike(n)
  <2>1. n \in T
    BY <1>6
  <2> QED
    BY <1>2, <1>3, <2>1 DEF T
<1> QED
  BY <1>7

(* The weight of a pair, for which the next pair counts PairBase times as much. *)
Weight(k) == 2^(2 * W * (k - 1))

LEMMA WeightIs ==
    /\ PairBase \in Nat \ {0} /\ PairsPerWord \in Nat
    /\ Weight(1) = 1
    /\ \A k \in Nat \ {0} : Weight(k) \in Nat \ {0} /\ Weight(k + 1) = PairBase * Weight(k)
    /\ Weight(PairsPerWord + 1) = 2^WordBits
<1> DEFINE e == 2 * W
<1>1. e \in Nat \ {0} /\ WordBits \in Nat /\ WordBits % e = 0
  BY XmssAssumption
<1>2. PairBase = 2^e /\ PairsPerWord = WordBits \div e
  BY DEF PairBase, PairsPerWord
<1>3. \A k : Weight(k) = 2^(e * (k - 1))
  BY DEF Weight
<1> HIDE DEF e
<1>4. PairBase \in Nat \ {0} /\ PairsPerWord \in Nat /\ e * PairsPerWord = WordBits
  <2>1. PairBase \in Nat \ {0}
    BY <1>1, <1>2, PowerIsPositive
  <2>2. PairsPerWord \in Nat /\ e * PairsPerWord = WordBits
    BY <1>1, <1>2, SMTT(30)
  <2> QED
    BY <2>1, <2>2
<1>5. Weight(1) = 1
  <2>1. e * (1 - 1) = 0
    BY <1>1
  <2> QED
    BY <1>3, <2>1, PowerStep
<1>6. ASSUME NEW k \in Nat \ {0} PROVE Weight(k) \in Nat \ {0} /\ Weight(k + 1) = PairBase * Weight(k)
  <2> DEFINE x == e * (k - 1)
  <2>1. k - 1 \in Nat
    OBVIOUS
  <2>2. x \in Nat /\ e * ((k + 1) - 1) = e + x
    BY <1>1, <2>1, SMTT(30)
  <2> HIDE DEF x
  <2>3. 2^(e + x) = 2^e * 2^x /\ 2^x \in Nat \ {0}
    BY <1>1, <2>2, PowerOfSum, PowerIsPositive
  <2>4. Weight(k) = 2^x /\ Weight(k + 1) = 2^(e + x)
    BY <1>3, <2>2 DEF x
  <2> QED
    BY <1>2, <2>3, <2>4
<1>7. Weight(PairsPerWord + 1) = 2^WordBits
  <2>1. (PairsPerWord + 1) - 1 = PairsPerWord
    BY <1>4
  <2> QED
    BY <1>3, <1>4, <2>1
<1> QED
  BY <1>4, <1>5, <1>6, <1>7

(* The pairs of a word, and the sums of the first of them. *)
PairsOfAWord == [1..PairsPerWord -> 0..PairBase - 1]

Weighs(sum, pairs) ==
    sum[0] = 0 /\ \A k \in 1..PairsPerWord : sum[k] = sum[k - 1] + pairs[k] * Weight(k)

LEMMA PairSumIs ==
    ASSUME NEW pairs \in PairsOfAWord
    PROVE  \E sum : Weighs(sum, pairs) /\ PairSum(pairs) = sum[PairsPerWord]
<1> DEFINE s == [j \in 1..PairsPerWord |-> pairs[j] * Weight(j)]
<1>0. PairsPerWord \in Nat
  BY WeightIs
<1>1. PairSum(pairs) = Total(s)
  BY DEF PairSum, Weight
<1>2. \A k \in 1..PairsPerWord : s[k] = pairs[k] * Weight(k)
  OBVIOUS
<1>3. Len(s) = PairsPerWord
  <2>1. s \in [1..PairsPerWord -> {s[j] : j \in 1..PairsPerWord}]
    OBVIOUS
  <2> HIDE DEF s
  <2> QED
    BY <1>0, <2>1, LengthIs
<1> HIDE DEF s
<1>4. PICK sum : AddsUp(sum, s, PairsPerWord) /\ Total(s) = sum[PairsPerWord]
  BY <1>0, <1>3, TotalIs
<1>5. Weighs(sum, pairs)
  BY <1>2, <1>4 DEF AddsUp, Weighs
<1> QED
  BY <1>1, <1>4, <1>5

(* One more digit of base b: a sum below x and a digit make one below b * x. *)
LEMMA DigitFits ==
    ASSUME NEW x \in Nat \ {0}, NEW b \in Nat \ {0}, NEW a \in 0..x - 1, NEW p \in 0..b - 1
    PROVE  a + p * x \in 0..b * x - 1
<1>1. p \in Nat /\ b - 1 \in Nat /\ p <= b - 1
  OBVIOUS
<1>2. p * x \in Nat /\ p * x <= (b - 1) * x
  BY <1>1, Multiples
<1>3. (b - 1) * x = b * x - x
  BY SMTT(30)
<1> DEFINE px == p * x
           bx == b * x
           cx == (b - 1) * x
<1>4. bx \in Nat /\ cx \in Int
  OBVIOUS
<1>5. px \in Nat /\ px <= cx /\ cx = bx - x
  BY <1>2, <1>3
<1> HIDE DEF px, bx, cx
<1>6. a + px \in 0..bx - 1
  BY <1>4, <1>5
<1> QED
  BY <1>6 DEF px, bx

LEMMA SumsFit ==
    ASSUME NEW pairs \in PairsOfAWord, NEW sum, Weighs(sum, pairs)
    PROVE  \A k \in 0..PairsPerWord : sum[k] \in 0..Weight(k + 1) - 1
<1> DEFINE T == {k \in 0..PairsPerWord : sum[k] \in 0..Weight(k + 1) - 1}
<1>0. PairsPerWord \in Nat /\ PairBase \in Nat \ {0}
  BY WeightIs
<1>1. 0 \in T
  <2>1. sum[0] = 0 /\ 0 + 1 = 1
    BY DEF Weighs
  <2>2. Weight(0 + 1) = 1
    BY <2>1, WeightIs
  <2> QED
    BY <1>0, <2>1, <2>2
<1>2. ASSUME NEW k \in 1..PairsPerWord, k - 1 \in T PROVE k \in T
  <2>1. k \in Nat \ {0} /\ (k - 1) + 1 = k /\ k \in 0..PairsPerWord
    BY <1>0
  <2>2. Weight(k) \in Nat \ {0} /\ Weight(k + 1) = PairBase * Weight(k)
    BY <2>1, WeightIs
  <2>3. sum[k - 1] \in 0..Weight(k) - 1
    BY <1>2, <2>1
  <2>4. sum[k] = sum[k - 1] + pairs[k] * Weight(k) /\ pairs[k] \in 0..PairBase - 1
    BY DEF Weighs, PairsOfAWord
  <2>5. sum[k - 1] + pairs[k] * Weight(k) \in 0..PairBase * Weight(k) - 1
    BY <1>0, <2>2, <2>3, <2>4, DigitFits
  <2> QED
    BY <2>1, <2>2, <2>4, <2>5
<1> HIDE DEF T
<1>3. \A k \in 0..PairsPerWord : k \in T
  BY <1>0, <1>1, <1>2, UpTo
<1> QED
  BY <1>3 DEF T

(* Two numbers with the same quotient and remainder. *)
LEMMA SameParts ==
    ASSUME NEW x \in Nat \ {0}, NEW a \in 0..x - 1, NEW b \in 0..x - 1, NEW p \in Nat, NEW q \in Nat,
           a + p * x = b + q * x
    PROVE  a = b /\ p = q
<1>1. (p * x + a) \div x = p /\ (p * x + a) % x = a
  BY Quotient
<1>2. (q * x + b) \div x = q /\ (q * x + b) % x = b
  BY Quotient
<1>3. p * x + a = q * x + b
  <2>1. p * x \in Nat /\ q * x \in Nat /\ a \in Nat /\ b \in Nat
    BY p <= p, q <= q, Multiples
  <2> DEFINE px == p * x
             qx == q * x
  <2>2. a + px = b + qx
    OBVIOUS
  <2> HIDE DEF px, qx
  <2>3. px \in Nat /\ qx \in Nat
    BY <2>1 DEF px, qx
  <2>4. px + a = qx + b
    BY <2>1, <2>2, <2>3
  <2> QED
    BY <2>4 DEF px, qx
<1> QED
  BY <1>1, <1>2, <1>3

(* The pairs can be told from their sum. *)
LEMMA SameSumSamePairs ==
    ASSUME NEW p \in PairsOfAWord, NEW q \in PairsOfAWord, PairSum(p) = PairSum(q)
    PROVE  p = q
<1> DEFINE n == PairsPerWord
<1>0. n \in Nat /\ PairBase \in Nat \ {0}
  BY WeightIs
<1>1. PICK f : Weighs(f, p) /\ PairSum(p) = f[n]
  BY PairSumIs
<1>2. PICK g : Weighs(g, q) /\ PairSum(q) = g[n]
  BY PairSumIs
<1> DEFINE From(k) == \A j \in n - k + 1..n : p[j] = q[j]
           T == {k \in 0..n : f[n - k] = g[n - k] /\ From(k)}
<1>3. 0 \in T
  <2>1. n - 0 = n /\ n - 0 + 1..n = {}
    BY <1>0
  <2>2. From(0)
    BY <2>1
  <2>3. f[n - 0] = g[n - 0]
    BY <1>1, <1>2, <2>1
  <2>4. 0 \in 0..n
    BY <1>0
  <2> HIDE DEF From
  <2> QED
    BY <2>2, <2>3, <2>4
<1>4. ASSUME NEW k \in 1..n, k - 1 \in T PROVE k \in T
  <2> DEFINE l == n - (k - 1)
  <2>1. l \in 1..n /\ l - 1 = n - k /\ l \in Nat \ {0} /\ l - 1 \in 0..n /\ (l - 1) + 1 = l /\ k \in 0..n
        /\ n - k + 1 = l /\ n - (k - 1) + 1 = l + 1
    BY <1>0
  <2>2. f[l] = g[l] /\ From(k - 1)
    BY <1>4
  <2> HIDE DEF l
  <2>3. /\ f[l] = f[l - 1] + p[l] * Weight(l)
        /\ g[l] = g[l - 1] + q[l] * Weight(l)
    BY <1>1, <1>2, <2>1 DEF Weighs
  <2>4. f[l - 1] \in 0..Weight(l) - 1 /\ g[l - 1] \in 0..Weight(l) - 1
    <3>1. \A j \in 0..n : f[j] \in 0..Weight(j + 1) - 1
      BY <1>1, SumsFit
    <3>2. \A j \in 0..n : g[j] \in 0..Weight(j + 1) - 1
      BY <1>2, SumsFit
    <3>3. f[l - 1] \in 0..Weight((l - 1) + 1) - 1 /\ g[l - 1] \in 0..Weight((l - 1) + 1) - 1
      BY <2>1, <3>1, <3>2
    <3> QED
      BY <2>1, <3>3
  <2>5. Weight(l) \in Nat \ {0} /\ p[l] \in Nat /\ q[l] \in Nat
    <3>1. Weight(l) \in Nat \ {0}
      BY <2>1, WeightIs
    <3>2. p[l] \in 0..PairBase - 1 /\ q[l] \in 0..PairBase - 1
      BY <2>1 DEF PairsOfAWord
    <3> QED
      BY <3>1, <3>2
  <2>6. f[l - 1] + p[l] * Weight(l) = g[l - 1] + q[l] * Weight(l)
    BY <2>2, <2>3
  <2>7. f[l - 1] = g[l - 1] /\ p[l] = q[l]
    <3> DEFINE x == Weight(l)
               a == f[l - 1]
               b == g[l - 1]
               c == p[l]
               d == q[l]
    <3>1. x \in Nat \ {0} /\ a \in 0..x - 1 /\ b \in 0..x - 1 /\ c \in Nat /\ d \in Nat /\ a + c * x = b + d * x
      BY <2>4, <2>5, <2>6
    <3> HIDE DEF x, a, b, c, d
    <3>2. a = b /\ c = d
      BY <3>1, SameParts
    <3> QED
      BY <3>2 DEF a, b, c, d
  <2>8. From(k)
    <3>1. \A j \in l..n : j = l \/ j \in l + 1..n
      BY <2>1
    <3> QED
      BY <2>1, <2>2, <2>7, <3>1
  <2> QED
    BY <2>1, <2>7, <2>8
<1> HIDE DEF T
<1>5. \A k \in 0..n : k \in T
  BY <1>0, <1>3, <1>4, UpTo
<1>6. From(n)
  <2>1. n \in T
    BY <1>0, <1>5
  <2> QED
    BY <2>1 DEF T
<1>7. \A j \in 1..n : p[j] = q[j]
  <2>1. n - n + 1 = 1
    BY <1>0
  <2> QED
    BY <1>6, <2>1
<1> QED
  <2>1. p \in [1..n -> 0..PairBase - 1] /\ q \in [1..n -> 0..PairBase - 1]
    BY DEF PairsOfAWord
  <2>2. p = [j \in 1..n |-> p[j]] /\ q = [j \in 1..n |-> q[j]]
    BY <2>1
  <2>3. [j \in 1..n |-> p[j]] = [j \in 1..n |-> q[j]]
    BY <1>7
  <2> QED
    BY <2>2, <2>3, Zenon

(* The remainder of a number below b * x, from that below x and the next digit of base b. *)
LEMMA NextDigit ==
    ASSUME NEW w \in Nat, NEW x \in Nat \ {0}, NEW b \in Nat \ {0}
    PROVE  /\ w % (b * x) = (w % x) + ((w \div x) % b) * x
           /\ w % x \in 0..x - 1 /\ (w \div x) % b \in 0..b - 1
<1> DEFINE q == w \div x
           r == w % x
           s == q \div b
           t == q % b
           bx == b * x
           rest == r + t * x
<1>1. q \in Nat /\ r \in 0..x - 1 /\ w = q * x + r
  BY SMTT(30)
<1>2. s \in Nat /\ t \in 0..b - 1 /\ q = s * b + t
  <2> HIDE DEF q
  <2> QED
    BY <1>1, SMTT(30)
<1>3. rest \in 0..bx - 1
  <2> HIDE DEF r, t
  <2> QED
    BY <1>1, <1>2, DigitFits
<1>4. bx \in Nat \ {0}
  BY SMTT(30)
<1>5. w = s * bx + rest
  <2> HIDE DEF q, r, s, t
  <2> QED
    BY <1>1, <1>2, SMTT(30)
<1>6. w % bx = rest
  <2> HIDE DEF q, r, s, t, bx, rest
  <2>1. (s * bx + rest) % bx = rest
    BY <1>2, <1>3, <1>4, Quotient
  <2> QED
    BY <1>5, <2>1
<1> QED
  BY <1>1, <1>2, <1>6

(* A number below c * c has two digits of base c. *)
LEMMA TwoDigits ==
    ASSUME NEW x \in Nat, NEW c \in Nat \ {0}, NEW n, n = x % (c * c)
    PROVE  n % c = x % c /\ (n - (n % c)) \div c = (x \div c) % c
<1> DEFINE a == x % c
           d == (x \div c) % c
<1>1. n = a + d * c /\ a \in 0..c - 1 /\ d \in 0..c - 1
  BY NextDigit
<1> HIDE DEF a, d
<1>2. d \in Nat /\ a \in Nat /\ 0 \in 0..c - 1 /\ d * c \in Nat
  BY <1>1, d <= d, Multiples
<1>3. n = d * c + a
  BY <1>1, <1>2
<1>4. (d * c + a) % c = a
  BY <1>1, <1>2, Quotient
<1>5. n - a = d * c + 0
  BY <1>2, <1>3
<1>6. (d * c + 0) \div c = d
  BY <1>2, Quotient
<1>7. n % c = a /\ (n - a) \div c = d
  BY <1>3, <1>4, <1>5, <1>6
<1> QED
  BY <1>7 DEF a, d

(* The pairs of digits of a word. *)
CanonicalPairs(word) == [j \in 1..PairsPerWord |-> (word \div Weight(j)) % PairBase]

LEMMA CanonicalSum ==
    ASSUME NEW word \in Nat
    PROVE  CanonicalPairs(word) \in PairsOfAWord /\ PairSum(CanonicalPairs(word)) = word % 2^WordBits
<1> DEFINE n == PairsPerWord
           c == CanonicalPairs(word)
<1>0. n \in Nat /\ PairBase \in Nat \ {0}
  BY WeightIs
<1>1. ASSUME NEW k \in 1..n
      PROVE  /\ Weight(k) \in Nat \ {0} /\ Weight(k + 1) = PairBase * Weight(k)
             /\ c[k] = (word \div Weight(k)) % PairBase /\ c[k] \in 0..PairBase - 1
             /\ word % Weight(k + 1) = (word % Weight(k)) + c[k] * Weight(k)
  <2>1. k \in Nat \ {0}
    BY <1>0
  <2>2. Weight(k) \in Nat \ {0} /\ Weight(k + 1) = PairBase * Weight(k)
    BY <2>1, WeightIs
  <2>3. c[k] = (word \div Weight(k)) % PairBase
    BY DEF CanonicalPairs
  <2> DEFINE x == Weight(k)
  <2> HIDE DEF x
  <2>4. x \in Nat \ {0}
    BY <2>2 DEF x
  <2>5. /\ word % (PairBase * x) = (word % x) + ((word \div x) % PairBase) * x
        /\ (word \div x) % PairBase \in 0..PairBase - 1
    BY <1>0, <2>4, NextDigit
  <2> QED
    BY <2>2, <2>3, <2>5 DEF x
<1>2. c \in PairsOfAWord
  BY <1>1 DEF CanonicalPairs, PairsOfAWord
<1> HIDE DEF c
<1>3. PICK sum : Weighs(sum, c) /\ PairSum(c) = sum[n]
  BY <1>2, PairSumIs
<1> DEFINE T == {k \in 0..n : sum[k] = word % Weight(k + 1)}
<1>4. 0 \in T
  <2>1. sum[0] = 0 /\ 0 + 1 = 1 /\ word % 1 = 0
    BY <1>3 DEF Weighs
  <2>2. Weight(0 + 1) = 1
    BY <2>1, WeightIs
  <2> QED
    BY <1>0, <2>1, <2>2
<1>5. ASSUME NEW k \in 1..n, k - 1 \in T PROVE k \in T
  <2>1. (k - 1) + 1 = k /\ k \in 0..n
    BY <1>0
  <2>2. sum[k - 1] = word % Weight(k)
    BY <1>5, <2>1
  <2>3. sum[k] = sum[k - 1] + c[k] * Weight(k)
    BY <1>3 DEF Weighs
  <2>4. sum[k] = word % Weight(k + 1)
    BY <1>1, <2>2, <2>3
  <2> QED
    BY <2>1, <2>4
<1> HIDE DEF T
<1>6. \A k \in 0..n : k \in T
  BY <1>0, <1>4, <1>5, UpTo
<1>7. sum[n] = word % Weight(n + 1)
  <2>1. n \in T
    BY <1>0, <1>6
  <2> QED
    BY <2>1 DEF T
<1> QED
  BY <1>2, <1>3, <1>7, WeightIs DEF c

(* A remainder is what is left of a multiple, of either sign. *)
LEMMA RemainderIs ==
    ASSUME NEW q \in Int, NEW d \in Nat \ {0}, NEW t \in 0..d - 1
    PROVE  (q * d + t) % d = t
BY SMTT(30)

(* What the check of a word tells of the sum of its pairs. *)
TellsTheWord(k, m, d, sum, word) ==
    ((sum - word) * k) % d < k <=> word # d - 1 /\ sum = word % m

(* Multiplied by k modulo k * m + 1, the distance to a word is small just where the sum has the word's
   low bits: -1 alone is as far from them as it is. *)
LEMMA SmallMultiples ==
    ASSUME NEW k \in Nat \ {0}, NEW m \in Nat \ {0}, NEW d, d = k * m + 1,
           NEW sum \in 0..m - 1, NEW word \in 0..d - 1
    PROVE  TellsTheWord(k, m, d, sum, word)
<1> SUFFICES ((sum - word) * k) % d < k <=> word # d - 1 /\ sum = word % m
  BY DEF TellsTheWord
<1> DEFINE h == word \div m
           r == word % m
           x == sum - r
           km == k * m
           xk == x * k
<1>0. km \in Nat \ {0} /\ d = km + 1 /\ word \in Nat /\ word <= km /\ d \in Nat \ {0}
  <2>1. km \in Nat \ {0}
    BY SMTT(30)
  <2> HIDE DEF km
  <2>2. d = km + 1
    BY DEF km
  <2> QED
    BY <2>1, <2>2
<1>1. h \in Nat /\ r \in 0..m - 1 /\ word = h * m + r
  BY <1>0, SMTT(30)
<1>2. h <= k /\ (h = k => r = 0 /\ word = km) /\ (h # k => word # km)
  <2> HIDE DEF h, r
  <2>1. ASSUME h > k PROVE FALSE
    <3>1. k + 1 <= h /\ k + 1 \in Nat
      BY <1>1, <2>1
    <3>2. (k + 1) * m <= h * m /\ (k + 1) * m = km + m
      BY <1>1, <3>1, Multiples
    <3> DEFINE hm == h * m
    <3>3. km + m <= hm /\ word = hm + r /\ hm \in Nat
      BY <1>1, <3>2
    <3> HIDE DEF hm, km
    <3> QED
      BY <1>0, <1>1, <3>3
  <2>2. ASSUME h = k PROVE r = 0 /\ word = km
    <3>1. word = km + r
      BY <1>1, <2>2
    <3> HIDE DEF km
    <3> QED
      BY <1>0, <1>1, <3>1
  <2>3. ASSUME h # k, ~(h > k) PROVE word # km
    <3>1. h <= k - 1 /\ k - 1 \in Nat
      BY <1>1, <2>3
    <3>2. h * m <= (k - 1) * m /\ (k - 1) * m = km - m /\ h * m \in Nat
      BY <1>1, <3>1, Multiples
    <3> DEFINE hm == h * m
    <3>3. hm <= km - m /\ word = hm + r /\ hm \in Nat
      BY <1>1, <3>2
    <3> HIDE DEF hm, km
    <3> QED
      BY <1>0, <1>1, <3>3
  <2> QED
    BY <1>1, <2>1, <2>2, <2>3
<1>3. (sum - word) * k = (0 - h) * d + (xk + h)
  <2> HIDE DEF h, r
  <2>1. (sum - word) * k = (x - h * m) * k
    BY <1>1
  <2>2. (x - h * m) * k = xk - h * km
    BY <1>1, SMTT(30)
  <2>3. (0 - h) * d = 0 - h * km - h
    BY <1>0, <1>1, SMTT(30)
  <2> DEFINE hkm == h * km
  <2>4. hkm \in Int /\ xk \in Int
    BY <1>0, <1>1
  <2>5. (x - h * m) * k = xk - hkm /\ (0 - h) * d = 0 - hkm - h
    BY <2>2, <2>3
  <2> HIDE DEF hkm, xk, x
  <2> QED
    BY <1>1, <2>1, <2>4, <2>5
<1>4. x \in Int /\ x <= m - 1 /\ x >= 0 - (m - 1) /\ (x = 0 <=> sum = r) /\ 0 - h \in Int
  BY <1>1
<1>5. CASE x = 0
  <2>1. xk = 0
    BY <1>5
  <2>2. h \in 0..d - 1 /\ xk + h = h
    <3>1. k <= km
      BY SMTT(30)
    <3> HIDE DEF h, km, xk
    <3> QED
      BY <1>0, <1>1, <1>2, <2>1, <3>1
  <2>3. ((0 - h) * d + h) % d = h
    <3> HIDE DEF h
    <3> QED
      BY <1>0, <1>4, <2>2, RemainderIs
  <2>4. ((sum - word) * k) % d = h
    BY <1>3, <2>2, <2>3
  <2> HIDE DEF h, r, km
  <2> QED
    BY <1>0, <1>1, <1>2, <1>4, <1>5, <2>4 DEF r
<1>6. CASE x > 0
  <2>1. xk \in Nat /\ xk >= k /\ xk <= km - k
    <3>1. x \in Nat /\ 1 <= x /\ x <= m - 1 /\ m - 1 \in Nat
      BY <1>4, <1>6
    <3> HIDE DEF x
    <3>2. 1 * k <= x * k /\ x * k \in Nat /\ x * k <= (m - 1) * k
      BY <3>1, Multiples
    <3>3. (m - 1) * k = km - k /\ 1 * k = k
      BY SMTT(30)
    <3> QED
      BY <3>2, <3>3
  <2>2. xk + h \in 0..d - 1 /\ xk + h >= k
    <3> HIDE DEF h, km, xk
    <3> QED
      BY <1>0, <1>1, <1>2, <2>1
  <2>3. ((0 - h) * d + (xk + h)) % d = xk + h
    <3> HIDE DEF h, xk
    <3> QED
      BY <1>0, <1>4, <2>2, RemainderIs
  <2>4. ((sum - word) * k) % d = xk + h
    BY <1>3, <2>3
  <2> HIDE DEF h, r, km, xk
  <2>5. ~(((sum - word) * k) % d < k)
    BY <1>1, <2>1, <2>2, <2>4
  <2> QED
    BY <1>4, <1>6, <2>5 DEF r
<1>7. CASE x < 0
  <2> DEFINE y == (0 - x) * k
  <2>1. y \in Nat /\ y >= k /\ y <= km - k /\ xk = 0 - y
    <3>1. 0 - x \in Nat /\ 1 <= 0 - x /\ 0 - x <= m - 1 /\ m - 1 \in Nat
      BY <1>4, <1>7
    <3> DEFINE z == 0 - x
    <3>a. z \in Nat /\ 1 <= z /\ z <= m - 1
      BY <3>1
    <3>b. xk = 0 - z * k
      BY <1>4, SMTT(30)
    <3> HIDE DEF x, z, xk
    <3>2. 1 * k <= z * k /\ z * k \in Nat /\ z * k <= (m - 1) * k
      BY <3>1, <3>a, Multiples
    <3>3. (m - 1) * k = km - k /\ 1 * k = k
      BY SMTT(30)
    <3>4. y = z * k
      BY DEF z
    <3> QED
      BY <3>2, <3>3, <3>b, <3>4
  <2>2. h <= k - 1
    <3>1. h = k => x >= 0
      <4> HIDE DEF h
      <4> QED
        BY <1>2
    <3> HIDE DEF h, r, x
    <3> QED
      BY <1>1, <1>2, <1>4, <1>7, <3>1
  <2> DEFINE t == (d - y) + h
  <2>3. t \in 0..d - 1 /\ t >= k
    <3> HIDE DEF h, km, y
    <3> QED
      BY <1>0, <1>1, <2>1, <2>2
  <2>4. (0 - h) * d + (xk + h) = ((0 - h) - 1) * d + t
    <3> DEFINE hd == (0 - h) * d
    <3>1. ((0 - h) - 1) * d = hd - d /\ hd \in Int
      <4> HIDE DEF h
      <4> QED
        BY <1>0, <1>1, SMTT(30)
    <3> HIDE DEF hd, h, y, xk
    <3>2. hd + (xk + h) = (hd - d) + t
      BY <1>0, <1>1, <2>1, <3>1
    <3> HIDE DEF t
    <3> QED
      BY <3>1, <3>2 DEF hd
  <2>5. (((0 - h) - 1) * d + t) % d = t
    <3> DEFINE q == (0 - h) - 1
    <3>1. q \in Int
      BY <1>4
    <3> HIDE DEF t, q
    <3>2. (q * d + t) % d = t
      BY <1>0, <2>3, <3>1, RemainderIs
    <3> QED
      BY <3>2 DEF q
  <2>6. ((sum - word) * k) % d = t
    BY <1>3, <2>4, <2>5
  <2> HIDE DEF h, r, km, xk, t
  <2>7. ~(((sum - word) * k) % d < k)
    BY <2>3, <2>6
  <2> QED
    BY <1>4, <1>7, <2>7 DEF r
<1> QED
  BY <1>4, <1>5, <1>6, <1>7

(* The check of a word takes the word's own pairs, and nothing for -1. *)
LEMMA RemainingIs ==
    ASSUME NEW word \in 0..P - 1, NEW pairs \in PairsOfAWord
    PROVE  Remaining(word, pairs) <=> word # P - 1 /\ pairs = CanonicalPairs(word)
<1> DEFINE m == 2^WordBits
           n == PairsPerWord
<1>0. K \in Nat \ {0} /\ m \in Nat \ {0} /\ P = K * m + 1 /\ n \in Nat
  BY XmssAssumption, PowerIsPositive, WeightIs DEF P
<1>1. word \in Nat
  <2>1. K * m \in Nat
    <3> HIDE DEF m
    <3> QED
      BY <1>0
  <2> HIDE DEF m
  <2> QED
    BY <1>0
<1>2. PairSum(pairs) \in 0..m - 1
  <2>1. PICK sum : Weighs(sum, pairs) /\ PairSum(pairs) = sum[n]
    BY PairSumIs
  <2>2. sum[n] \in 0..Weight(n + 1) - 1
    BY <1>0, <2>1, SumsFit
  <2> QED
    BY <2>1, <2>2, WeightIs
<1> HIDE DEF m, n
<1>3. ((PairSum(pairs) - word) * K) % P < K <=> word # P - 1 /\ PairSum(pairs) = word % m
  <2> DEFINE sum == PairSum(pairs)
  <2>1. sum \in 0..m - 1
    BY <1>2
  <2> DEFINE d == P
             k == K
  <2>2. k \in Nat \ {0} /\ m \in Nat \ {0} /\ d = k * m + 1 /\ word \in 0..d - 1
    BY <1>0
  <2> HIDE DEF sum, d, k
  <2>3. TellsTheWord(k, m, d, sum, word)
    BY <2>1, <2>2, SmallMultiples
  <2> QED
    BY <2>3 DEF sum, d, k, TellsTheWord
<1>4. CanonicalPairs(word) \in PairsOfAWord /\ PairSum(CanonicalPairs(word)) = word % m
  BY <1>1, CanonicalSum DEF m
<1>5. PairSum(pairs) = word % m <=> pairs = CanonicalPairs(word)
  BY <1>4, SameSumSamePairs
<1> QED
  BY <1>3, <1>5 DEF Remaining

(* How many digits and words there are. *)
LEMMA CountsAre ==
    /\ W \in Nat \ {0} /\ V \in Nat \ {0} /\ P \in Nat \ {0}
    /\ PairsPerWord \in Nat \ {0} /\ DigitsPerWord = 2 * PairsPerWord /\ DigitsPerWord \in Nat \ {0}
    /\ NumEncodingWords \in Nat \ {0}
    /\ \A i \in 1..V : (i - 1) \div DigitsPerWord + 1 \in 1..NumEncodingWords
    /\ \A n \in Nat : n >= NumEncodingWords => DigitsPerWord * n >= V
<1>1. W \in Nat \ {0} /\ V \in Nat \ {0} /\ WordBits \in Nat \ {0} /\ WordBits % (2 * W) = 0 /\ K \in Nat \ {0}
  BY XmssAssumption
<1>2. P \in Nat \ {0}
  <2>1. 2^WordBits \in Nat \ {0}
    BY <1>1, PowerIsPositive
  <2> QED
    BY <1>1, <2>1 DEF P
<1> DEFINE w == W
           v == V
           b == WordBits
           q == b \div (2 * w)
           d == b \div w
           n == (v + d - 1) \div d
<1>3. PairsPerWord = q /\ DigitsPerWord = d
  BY DEF PairsPerWord, DigitsPerWord
<1>4. NumEncodingWords = n
  BY DEF NumEncodingWords, DigitsPerWord
<1>5. w \in Nat \ {0} /\ v \in Nat \ {0} /\ b \in Nat \ {0} /\ b % (2 * w) = 0
  BY <1>1
<1> HIDE DEF w, v, b
<1>6. q \in Nat \ {0} /\ d = 2 * q /\ d \in Nat \ {0}
  <2> DEFINE w2 == 2 * w
  <2>1. w2 \in Nat \ {0} /\ b % w2 = 0
    BY <1>5
  <2> HIDE DEF w2
  <2>2. b \div w2 \in Nat /\ b = (b \div w2) * w2
    BY <1>5, <2>1, SMTT(30)
  <2>3. q = b \div w2 /\ q \in Nat
    BY <2>2 DEF w2
  <2> HIDE DEF q
  <2>4. b = q * w2
    BY <2>2, <2>3
  <2>5. b = (2 * q) * w + 0
    BY <1>5, <2>3, <2>4, SMTT(30) DEF w2
  <2>6. 2 * q \in Nat /\ 0 \in 0..w - 1
    BY <1>5, <2>3
  <2>7. ((2 * q) * w + 0) \div w = 2 * q
    BY <1>5, <2>6, Quotient
  <2>8. d = 2 * q
    BY <2>5, <2>7
  <2>9. q # 0
    BY <1>5, <2>1, <2>4
  <2> QED
    BY <2>3, <2>8, <2>9
<1> HIDE DEF d, q
<1>7. n \in Nat \ {0} /\ (\A i \in 1..v : (i - 1) \div d + 1 \in 1..n) /\ d * n >= v
  <2> DEFINE x == v + d - 1
  <2>1. x \in Nat /\ d <= x /\ d \in Nat
    BY <1>5, <1>6
  <2>2. n \in Nat /\ x % d \in 0..d - 1 /\ x = n * d + (x % d)
    <3> HIDE DEF x
    <3>1. x \div d \in Nat /\ x % d \in 0..d - 1 /\ x = (x \div d) * d + (x % d)
      BY <1>6, <2>1, SMTT(30)
    <3> QED
      BY <3>1 DEF x
  <2> DEFINE nd == n * d
  <2>3. nd \in Nat /\ d * n = nd
    BY <1>6, <2>2, SMTT(30)
  <2>4. nd >= v
    <3> HIDE DEF n, nd
    <3>1. x = nd + (x % d)
      BY <2>2 DEF nd
    <3> HIDE DEF x
    <3>2. nd > x - d
      BY <1>6, <2>1, <2>2, <2>3, <3>1
    <3> QED
      BY <1>5, <1>6, <2>3, <3>2 DEF x
  <2>5. ASSUME NEW i \in 1..v PROVE (i - 1) \div d + 1 \in 1..n
    <3> HIDE DEF n
    <3>1. i - 1 \in Nat /\ i - 1 < nd
      BY <1>5, <2>3, <2>4
    <3>2. (i - 1) \div d \in Nat /\ ((i - 1) \div d) * d <= i - 1
      BY <1>6, <3>1, SMTT(30)
    <3> DEFINE k == (i - 1) \div d
    <3>3. k \in Nat /\ k * d < n * d
      <4> HIDE DEF k
      <4>1. k \in Nat /\ k * d <= i - 1
        BY <3>2 DEF k
      <4> DEFINE kd == k * d
      <4>2. kd \in Nat /\ kd <= i - 1
        BY <1>6, <4>1
      <4> HIDE DEF kd, nd
      <4>3. kd < nd
        BY <2>3, <3>1, <4>2
      <4> QED
        BY <4>1, <4>3 DEF kd, nd
    <3> HIDE DEF k
    <3>4. ~(n <= k)
      <4> SUFFICES ASSUME n <= k PROVE FALSE
        OBVIOUS
      <4>1. n * d <= k * d
        BY <1>6, <2>2, <3>3, Multiples
      <4> DEFINE kd == k * d
      <4>2. kd \in Int
        BY <1>6, <3>3
      <4>3. kd < nd /\ nd <= kd
        BY <3>3, <4>1
      <4> HIDE DEF kd, nd
      <4> QED
        BY <2>3, <4>2, <4>3
    <3>5. k + 1 \in 1..n
      BY <2>2, <3>3, <3>4
    <3> QED
      BY <3>5 DEF k
  <2>6. n # 0
    <3>1. 1 \in 1..v
      BY <1>5
    <3> QED
      BY <2>5, <3>1
  <2> HIDE DEF n
  <2> QED
    BY <2>2, <2>3, <2>4, <2>5, <2>6
<1>8. ASSUME NEW k \in Nat, k >= n PROVE d * k >= v
  <2> HIDE DEF n
  <2>1. n \in Nat /\ n <= k
    BY <1>7, <1>8
  <2>2. n * d <= k * d
    BY <1>6, <2>1, Multiples
  <2>3. d * n = n * d /\ d * k = k * d /\ d * n \in Nat /\ d * k \in Nat
    BY <1>6, <2>1, SMTT(30)
  <2> DEFINE a == d * n
             c == d * k
  <2>4. a <= c /\ a \in Nat /\ c \in Nat /\ a >= v
    BY <1>7, <2>2, <2>3
  <2> HIDE DEF a, c
  <2>5. c >= v
    BY <1>5, <2>4
  <2> QED
    BY <2>5 DEF c
<1> HIDE DEF n
<1> QED
  BY <1>1, <1>2, <1>3, <1>4, <1>6, <1>7, <1>8 DEF w, v

(* Where digit i is: in pair m of word u + 1. *)
LEMMA PlaceOf ==
    ASSUME NEW i \in 1..V, NEW u, u = ((i - 1) \div 2) \div PairsPerWord,
           NEW m, m = ((i - 1) \div 2) % PairsPerWord
    PROVE  /\ u \in Nat /\ m \in 0..PairsPerWord - 1 /\ m + 1 \in 1..PairsPerWord
           /\ u = (i - 1) \div DigitsPerWord /\ u + 1 \in 1..NumEncodingWords
           /\ i % 2 = 1 => (i - 1) % DigitsPerWord = 2 * m
           /\ i % 2 # 1 => (i - 1) % DigitsPerWord = 2 * m + 1
<1> DEFINE q == PairsPerWord
           e == i - 1
           k == e \div 2
           b == e % 2
<1>1. q \in Nat \ {0} /\ DigitsPerWord = 2 * q /\ V \in Nat
  BY CountsAre
<1>2. e \in Nat /\ k \in Nat /\ b \in 0..1 /\ e = 2 * k + b /\ (i % 2 = 1 <=> b = 0)
  <2>1. i \in Nat \ {0}
    BY <1>1
  <2> QED
    BY <2>1, SMTT(30)
<1>3. u \in Nat /\ m \in 0..q - 1 /\ k = u * q + m
  <2>1. u = k \div q /\ m = k % q
    OBVIOUS
  <2> HIDE DEF k, q
  <2>2. k \div q \in Nat /\ k % q \in 0..q - 1 /\ k = (k \div q) * q + (k % q)
    BY <1>1, <1>2, SMTT(30)
  <2> QED
    BY <2>1, <2>2
<1> DEFINE d == 2 * q
           r == 2 * m + b
<1>4. d \in Nat \ {0} /\ r \in 0..d - 1
  <2> HIDE DEF q, b
  <2> QED
    BY <1>1, <1>2, <1>3
<1>5. e = u * d + r
  <2> HIDE DEF e, k, b, q
  <2> QED
    BY <1>1, <1>2, <1>3, SMTT(30)
<1>6. e \div d = u /\ e % d = r
  <2> HIDE DEF d, r, e
  <2>1. (u * d + r) \div d = u /\ (u * d + r) % d = r
    BY <1>3, <1>4, Quotient
  <2> QED
    BY <1>5, <2>1
<1>7. u + 1 \in 1..NumEncodingWords
  <2>1. (i - 1) \div DigitsPerWord + 1 \in 1..NumEncodingWords
    BY CountsAre
  <2> QED
    BY <1>1, <1>6, <2>1
<1>8. m + 1 \in 1..q
  <2> HIDE DEF q
  <2> QED
    BY <1>1, <1>3
<1> HIDE DEF q, k, b
<1> QED
  BY <1>1, <1>2, <1>3, <1>6, <1>7, <1>8 DEF q

LEMMA ElementsOf ==
    ASSUME NEW S, NEW s \in Seq(S)
    PROVE  Len(s) \in Nat /\ \A k \in 1..Len(s) : s[k] \in S
OBVIOUS

(* The words of an encoding. *)
LEMMA WordsAre ==
    ASSUME NEW x \in DOMAIN EncodingWords
    PROVE  /\ EncodingWords[x] \in Seq(0..P - 1) /\ Len(EncodingWords[x]) \in Nat
           /\ Len(EncodingWords[x]) >= NumEncodingWords
           /\ \A k \in 1..Len(EncodingWords[x]) : EncodingWords[x][k] \in 0..P - 1 /\ EncodingWords[x][k] \in Nat
           /\ \A k \in 1..NumEncodingWords :
                 /\ k \in 1..Len(EncodingWords[x])
                 /\ EncodingWords[x][k] \in 0..P - 1 /\ EncodingWords[x][k] \in HashedWords
           /\ x = <<x[1], x[2], x[3]>> /\ x[2] \in Slots
<1> DEFINE words == EncodingWords[x]
           n == NumEncodingWords
<1>1. words \in Seq(0..P - 1) /\ Len(words) >= n
  BY XmssAssumption
<1>2. n \in Nat \ {0} /\ P \in Nat \ {0}
  BY CountsAre
<1>3. x \in Messages \X Slots \X Randomness
  BY XmssAssumption
<1>4. ASSUME NEW k \in 1..n PROVE words[k] \in HashedWords
  <2> DEFINE first == SubSeq(words, 1, n)
  <2>1. first[k] = words[k] /\ DOMAIN first = 1..n
    <3> HIDE DEF words, n
    <3> QED
      BY <1>1, <1>2
  <2>2. words[k] \in ToSet(first)
    <3> HIDE DEF first
    <3> QED
      BY <2>1 DEF ToSet
  <2> QED
    BY <2>2 DEF HashedWords
<1>5. x = <<x[1], x[2], x[3]>> /\ x[2] \in Slots
  BY <1>3
<1> HIDE DEF words, n
<1>6. Len(words) \in Nat /\ \A k \in 1..Len(words) : words[k] \in 0..P - 1
  BY <1>1, ElementsOf
<1>7. \A k \in 1..n : k \in 1..Len(words)
  BY <1>1, <1>2, <1>6
<1> QED
  BY <1>1, <1>2, <1>4, <1>5, <1>6, <1>7 DEF words, n

(* The digits of an encoding: V of them, each below the length of a chain. *)
LEMMA DigitsAre ==
    ASSUME NEW x \in DOMAIN EncodingWords
    PROVE  /\ Digits(EncodingWords[x]) \in [1..V -> 0..ChainLength - 1]
           /\ Digits(EncodingWords[x]) # NoDigits
           /\ \A i \in 1..V : Digits(EncodingWords[x])[i]
                 = WordDigit(EncodingWords[x][((i - 1) \div DigitsPerWord) + 1], (i - 1) % DigitsPerWord)
<1> DEFINE words == EncodingWords[x]
           n == DigitsPerWord * Len(words)
           digit(i) == WordDigit(words[((i - 1) \div DigitsPerWord) + 1], (i - 1) % DigitsPerWord)
<1>1. V \in Nat \ {0} /\ DigitsPerWord \in Nat \ {0}
  BY CountsAre
<1>2. n >= V
  BY WordsAre, CountsAre
<1>3. Digits(words) = [i \in 1..V |-> digit(i)]
  <2>1. (IF n < V THEN n ELSE V) = V
    <3>1. n \in Int
      BY <1>1, WordsAre
    <3> HIDE DEF n
    <3> QED
      BY <1>1, <1>2, <3>1
  <2> QED
    BY <2>1 DEF Digits
<1>4. ASSUME NEW i \in 1..V PROVE digit(i) \in 0..ChainLength - 1
  <2> DEFINE j == (i - 1) % DigitsPerWord
             word == words[((i - 1) \div DigitsPerWord) + 1]
  <2>1. word \in Nat
    <3>1. (i - 1) \div DigitsPerWord + 1 \in 1..NumEncodingWords
      BY CountsAre
    <3>2. (i - 1) \div DigitsPerWord + 1 \in 1..Len(words)
      BY <3>1, WordsAre
    <3> QED
      BY <3>2, WordsAre
  <2>2. j \in Nat
    BY <1>1, SMTT(30)
  <2>3. W * j \in Nat
    <3> HIDE DEF j
    <3> QED
      BY <2>2, CountsAre
  <2> DEFINE p == 2^(W * j)
  <2>4. p \in Nat \ {0}
    BY <2>3, PowerIsPositive
  <2> HIDE DEF word, p, j
  <2>5. ChainLength \in Nat \ {0}
    BY ChainLengthIs
  <2>6. (word \div p) % ChainLength \in 0..ChainLength - 1
    BY <2>1, <2>4, <2>5, SMTT(30)
  <2> QED
    BY <2>6 DEF WordDigit, word, p, j
<1> HIDE DEF digit
<1>5. [i \in 1..V |-> digit(i)] # <<>>
  <2>1. 1 \in 1..V
    BY <1>1
  <2>2. DOMAIN <<>> = {} /\ DOMAIN [i \in 1..V |-> digit(i)] = 1..V
    OBVIOUS
  <2> QED
    BY <2>1, <2>2
<1>6. [i \in 1..V |-> digit(i)] \in [1..V -> 0..ChainLength - 1]
  BY <1>4
<1> HIDE DEF words
<1> QED
  BY <1>3, <1>5, <1>6 DEF NoDigits, words, digit

(* The pairs of the words that the guest decomposes. *)
Decomposed(words) == [k \in 1..NumEncodingWords |-> CanonicalPairs(words[k])]

Clean(words) == \A k \in 1..NumEncodingWords : words[k] # P - 1

(* Split in two, the pairs of a word are its digits. *)
LEMMA PairHasDigits ==
    ASSUME NEW word \in Nat, NEW m \in Nat, NEW n, n = (word \div Weight(m + 1)) % PairBase
    PROVE  /\ n % ChainLength = WordDigit(word, 2 * m)
           /\ (n - (n % ChainLength)) \div ChainLength = WordDigit(word, 2 * m + 1)
<1> DEFINE c == ChainLength
           p == Weight(m + 1)
           x == word \div p
           e == W * (2 * m)
<1>1. c \in Nat \ {0} /\ W \in Nat
  BY ChainLengthIs, CountsAre
<1>2. PairBase = c * c
  <2> DEFINE w == W
  <2>1. 2^(w + w) = 2^w * 2^w
    <3> HIDE DEF w
    <3>1. w \in Nat
      BY <1>1 DEF w
    <3> QED
      BY <3>1, PowerOfSum
  <2>2. 2 * W = w + w
    BY <1>1
  <2> QED
    BY <2>1, <2>2 DEF PairBase, ChainLength
<1>3. e \in Nat /\ 2 * W * ((m + 1) - 1) = e /\ W * (2 * m + 1) = e + W
  <2> DEFINE w == W
  <2>1. w \in Nat
    BY <1>1
  <2> HIDE DEF w
  <2>2. w * (2 * m) \in Nat /\ 2 * w * ((m + 1) - 1) = w * (2 * m) /\ w * (2 * m + 1) = w * (2 * m) + w
    BY <2>1, SMTT(30)
  <2> QED
    BY <2>2 DEF w
<1>4. p = 2^e /\ p \in Nat \ {0}
  BY <1>3, PowerIsPositive DEF Weight
<1>5. 2^(e + W) = p * c
  <2> HIDE DEF e
  <2>1. 2^(e + W) = 2^e * 2^W
    BY <1>1, <1>3, PowerOfSum
  <2> QED
    BY <1>4, <2>1 DEF ChainLength
<1>6. x \in Nat
  <2> HIDE DEF p
  <2> QED
    BY <1>4, SMTT(30)
<1>7. x \div c = word \div (p * c)
  <2> HIDE DEF p, c
  <2> QED
    BY <1>1, <1>4, DividedTwice
<1>8. n % c = x % c /\ (n - (n % c)) \div c = (x \div c) % c
  <2>1. n = x % (c * c)
    BY <1>2
  <2> HIDE DEF c, x
  <2> QED
    BY <1>1, <1>6, <2>1, TwoDigits
<1>9. WordDigit(word, 2 * m) = x % c
  BY <1>4 DEF WordDigit
<1>10. WordDigit(word, 2 * m + 1) = (x \div c) % c
  <2>1. WordDigit(word, 2 * m + 1) = (word \div 2^(e + W)) % c
    BY <1>3 DEF WordDigit
  <2> HIDE DEF x, c, p, e
  <2> QED
    BY <1>5, <1>7, <2>1
<1> HIDE DEF x, c
<1>11. n % c = WordDigit(word, 2 * m) /\ (n - (n % c)) \div c = WordDigit(word, 2 * m + 1)
  BY <1>8, <1>9, <1>10
<1> QED
  BY <1>11 DEF c

LEMMA PairDigitsAre ==
    ASSUME NEW x \in DOMAIN EncodingWords
    PROVE  PairDigits(Decomposed(EncodingWords[x])) = Digits(EncodingWords[x])
<1> DEFINE words == EncodingWords[x]
           pairs == Decomposed(words)
           pair(i) == pairs[(((i - 1) \div 2) \div PairsPerWord) + 1][(((i - 1) \div 2) % PairsPerWord) + 1]
           half(i) == IF i % 2 = 1 THEN pair(i) % ChainLength
                      ELSE (pair(i) - (pair(i) % ChainLength)) \div ChainLength
<1>1. PairDigits(pairs) = [i \in 1..V |-> half(i)]
  BY DEF PairDigits
<1>2. ASSUME NEW i \in 1..V PROVE half(i) = Digits(words)[i]
  <2> DEFINE u == ((i - 1) \div 2) \div PairsPerWord
             m == ((i - 1) \div 2) % PairsPerWord
             word == words[u + 1]
             n == pair(i)
  <2>1. /\ u \in Nat /\ m \in 0..PairsPerWord - 1 /\ m + 1 \in 1..PairsPerWord
        /\ u = (i - 1) \div DigitsPerWord /\ u + 1 \in 1..NumEncodingWords
        /\ i % 2 = 1 => (i - 1) % DigitsPerWord = 2 * m
        /\ i % 2 # 1 => (i - 1) % DigitsPerWord = 2 * m + 1
    <3> HIDE DEF words, pair
    <3>1. u = ((i - 1) \div 2) \div PairsPerWord /\ m = ((i - 1) \div 2) % PairsPerWord
      OBVIOUS
    <3> HIDE DEF u, m
    <3> QED
      BY <3>1, PlaceOf
  <2>2. n = pairs[u + 1][m + 1]
    OBVIOUS
  <2> HIDE DEF u, m
  <2>3. word \in Nat
    BY <2>1, WordsAre
  <2>4. n = (word \div Weight(m + 1)) % PairBase
    <3>1. pairs[u + 1] = CanonicalPairs(word)
      BY <2>1 DEF Decomposed
    <3>2. CanonicalPairs(word)[m + 1] = (word \div Weight(m + 1)) % PairBase
      BY <2>1 DEF CanonicalPairs
    <3> HIDE DEF pairs, pair, word
    <3> QED
      BY <2>2, <3>1, <3>2
  <2>5. m \in Nat
    BY <2>1, CountsAre
  <2>6. Digits(words)[i] = WordDigit(word, (i - 1) % DigitsPerWord)
    BY <2>1, DigitsAre
  <2>7. half(i) = IF i % 2 = 1 THEN n % ChainLength ELSE (n - (n % ChainLength)) \div ChainLength
    OBVIOUS
  <2> HIDE DEF n, word, half, words
  <2>8. /\ n % ChainLength = WordDigit(word, 2 * m)
        /\ (n - (n % ChainLength)) \div ChainLength = WordDigit(word, 2 * m + 1)
    BY <2>3, <2>4, <2>5, PairHasDigits
  <2> QED
    BY <2>1, <2>6, <2>7, <2>8
<1> HIDE DEF half
<1>3. Digits(words) = [i \in 1..V |-> Digits(words)[i]]
  BY DigitsAre
<1>4. [i \in 1..V |-> half(i)] = [i \in 1..V |-> Digits(words)[i]]
  BY <1>2
<1> QED
  BY <1>1, <1>3, <1>4

(* The pairs accepted for a word of the encoding hash. *)
LEMMA AcceptedPairsAre ==
    ASSUME NEW word \in HashedWords, word \in 0..P - 1
    PROVE  /\ word # P - 1 => AcceptedPairs[word] = {CanonicalPairs(word)}
           /\ word = P - 1 => AcceptedPairs[word] = {}
<1>1. AcceptedPairs[word] = {pairs \in PairsOfAWord : Remaining(word, pairs)}
  BY DEF AcceptedPairs, PairsOfAWord
<1>2. \A pairs \in PairsOfAWord : Remaining(word, pairs) <=> word # P - 1 /\ pairs = CanonicalPairs(word)
  BY RemainingIs
<1>3. CanonicalPairs(word) \in PairsOfAWord
  BY CanonicalSum, CountsAre
<1> QED
  BY <1>1, <1>2, <1>3

(* The guest accepts the encoding that xmss_verify computes, or none. *)
LEMMA GuestEncodingsAre ==
    ASSUME NEW m, NEW slot, NEW r, <<m, slot, r>> \in DOMAIN EncodingWords,
           NEW words, words = EncodingWords[<<m, slot, r>>]
    PROVE  GuestEncodings(m, slot, r)
               = IF Clean(words) /\ Total(Digits(words)) = TargetSum THEN {Digits(words)} ELSE {}
<1> DEFINE n == NumEncodingWords
           choices == {f \in [1..n -> UNION {AcceptedPairs[words[k]] : k \in 1..n}] :
                           \A k \in 1..n : f[k] \in AcceptedPairs[words[k]]}
<1>1. GuestEncodings(m, slot, r) = {digits \in {PairDigits(f) : f \in choices} : Total(digits) = TargetSum}
  BY DEF GuestEncodings
<1>2. \A k \in 1..n : words[k] \in 0..P - 1 /\ words[k] \in HashedWords
  BY WordsAre
<1>3. PairDigits(Decomposed(words)) = Digits(words)
  BY PairDigitsAre
<1> HIDE DEF n
<1>4. CASE Clean(words)
  <2>1. \A k \in 1..n : AcceptedPairs[words[k]] = {CanonicalPairs(words[k])}
    BY <1>2, <1>4, AcceptedPairsAre DEF Clean, n
  <2>2. Decomposed(words) = [k \in 1..n |-> CanonicalPairs(words[k])]
    BY DEF Decomposed, n
  <2>3. Decomposed(words) \in choices
    <3> DEFINE all == UNION {AcceptedPairs[words[k]] : k \in 1..n}
               d == Decomposed(words)
    <3>1. \A k \in 1..n : d[k] = CanonicalPairs(words[k])
      BY <2>2
    <3>2. \A k \in 1..n : CanonicalPairs(words[k]) \in AcceptedPairs[words[k]]
      BY <2>1
    <3>3. \A k \in 1..n : CanonicalPairs(words[k]) \in all
      BY <3>2
    <3> HIDE DEF all
    <3>4. d \in [1..n -> all]
      BY <2>2, <3>3
    <3> HIDE DEF d
    <3>5. \A k \in 1..n : d[k] \in AcceptedPairs[words[k]]
      BY <3>1, <3>2
    <3> QED
      BY <3>4, <3>5 DEF all, d
  <2>4. ASSUME NEW f \in choices PROVE f = Decomposed(words)
    <3>1. f = [k \in 1..n |-> f[k]]
      OBVIOUS
    <3>2. \A k \in 1..n : f[k] = CanonicalPairs(words[k])
      BY <2>1
    <3> HIDE DEF choices
    <3>3. [k \in 1..n |-> f[k]] = [k \in 1..n |-> CanonicalPairs(words[k])]
      BY <3>2
    <3> QED
      BY <2>2, <3>1, <3>3, Zenon
  <2>5. choices = {Decomposed(words)}
    <3> HIDE DEF choices
    <3> QED
      BY <2>3, <2>4
  <2> HIDE DEF choices
  <2>6. {PairDigits(f) : f \in choices} = {Digits(words)}
    BY <1>3, <2>5
  <2> QED
    BY <1>1, <1>4, <2>6
<1>5. CASE ~Clean(words)
  <2>1. PICK k \in 1..n : words[k] = P - 1
    BY <1>5 DEF Clean, n
  <2>2. AcceptedPairs[words[k]] = {}
    BY <1>2, <2>1, AcceptedPairsAre
  <2>3. choices = {}
    BY <2>2
  <2> HIDE DEF choices
  <2> QED
    BY <1>1, <1>5, <2>3
<1> QED
  BY <1>4, <1>5

(* The encoding that xmss_verify computes. *)
LEMMA WotsEncodeIs ==
    ASSUME NEW m, NEW slot, NEW r, <<m, slot, r>> \in DOMAIN EncodingWords,
           NEW words, words = EncodingWords[<<m, slot, r>>]
    PROVE  /\ \/ WotsEncode(m, slot, r) = NoDigits
              \/ WotsEncode(m, slot, r) = Digits(words) /\ Clean(words) /\ Total(Digits(words)) = TargetSum
           /\ WotsEncode(m, slot, r) = NoDigits =>
                 \/ ~(Clean(words) /\ Total(Digits(words)) = TargetSum)
                 \/ \E k \in NumEncodingWords + 1..Len(words) : words[k] = P - 1
<1> DEFINE x == <<m, slot, r>>
           n == NumEncodingWords
<1>1. WotsEncode(m, slot, r)
          = IF P - 1 \notin ToSet(words) /\ IsValidEncoding(Digits(words)) THEN Digits(words) ELSE NoDigits
  BY DEF WotsEncode
<1>2. Len(Digits(words)) = V
  <2>1. Digits(words) \in [1..V -> 0..ChainLength - 1]
    BY DigitsAre
  <2> QED
    BY <2>1, LengthIs, CountsAre
<1>3. words \in Seq(0..P - 1) /\ Len(words) \in Nat /\ n \in Nat /\ \A k \in 1..n : k \in 1..Len(words)
  BY WordsAre, CountsAre
<1>4. ToSet(words) = {words[k] : k \in 1..Len(words)}
  <2> HIDE DEF n
  <2>1. DOMAIN words = 1..Len(words)
    BY <1>3
  <2> QED
    BY <2>1 DEF ToSet
<1>5. P - 1 \notin ToSet(words) => Clean(words)
  BY <1>3, <1>4 DEF Clean
<1>6. ASSUME Clean(words), P - 1 \in ToSet(words)
      PROVE  \E k \in n + 1..Len(words) : words[k] = P - 1
  <2>1. PICK k \in 1..Len(words) : words[k] = P - 1
    BY <1>4, <1>6
  <2>2. k \notin 1..n
    BY <1>6, <2>1 DEF Clean
  <2> HIDE DEF n
  <2>3. k \in n + 1..Len(words)
    BY <1>3, <2>2
  <2> QED
    BY <2>1, <2>3
<1>7. Digits(words) # NoDigits
  BY DigitsAre
<1>8. IsValidEncoding(Digits(words)) <=> Total(Digits(words)) = TargetSum
  BY <1>2 DEF IsValidEncoding
<1> QED
  BY <1>1, <1>5, <1>6, <1>7, <1>8

-----------------------------------------------------------------------------
(* The verifications. *)

(* The tips reach the ends of the chains under a leaf of the key. *)
PathVerifies(secret, slot, signature, digits) ==
    /\ Len(signature.proof) = LogLifetime
    /\ PathRoot(WotsLeaf(slot, RecoverPublicKey(signature.tips, digits, slot)), signature.proof, slot) = Root(secret)

LEMMA VerificationsAre ==
    ASSUME NEW secret, NEW m, NEW slot, NEW signature, <<m, slot, signature.randomness>> \in DOMAIN EncodingWords,
           NEW words, words = EncodingWords[<<m, slot, signature.randomness>>],
           NEW root, root = Root(secret)
    PROVE  /\ XmssVerify(root, m, slot, signature) <=>
                 /\ WotsEncode(m, slot, signature.randomness) # NoDigits
                 /\ PathVerifies(secret, slot, signature, Digits(words))
           /\ GuestVerify(root, m, slot, signature) <=>
                 /\ Clean(words) /\ Total(Digits(words)) = TargetSum
                 /\ PathVerifies(secret, slot, signature, Digits(words))
           /\ XmssVerify(root, m, slot, signature) \in BOOLEAN
           /\ GuestVerify(root, m, slot, signature) \in BOOLEAN
<1> DEFINE r == signature.randomness
           d == Digits(words)
           ends(digits) == [i \in 1..V |-> GuestChain(signature.tips[i], digits[i], slot, i)]
<1>0. d \in [1..V -> 0..ChainLength - 1] /\ slot \in Slots
  BY DigitsAre, WordsAre
<1>1. WotsEncode(m, slot, r) # NoDigits => WotsEncode(m, slot, r) = d
  BY WotsEncodeIs
<1>2. XmssVerify(root, m, slot, signature) <=>
          /\ WotsEncode(m, slot, r) # NoDigits
          /\ Len(signature.proof) = LogLifetime
          /\ PathRoot(WotsLeaf(slot, RecoverPublicKey(signature.tips, WotsEncode(m, slot, r), slot)),
                      signature.proof, slot) = root
  BY DEF XmssVerify
<1>3. GuestEncodings(m, slot, r) = IF Clean(words) /\ Total(d) = TargetSum THEN {d} ELSE {}
  BY GuestEncodingsAre
<1>4. GuestVerify(root, m, slot, signature) <=>
          \E digits \in GuestEncodings(m, slot, r) :
              /\ Len(signature.proof) = LogLifetime
              /\ GuestPathRoot(WotsLeaf(slot, ends(digits)), signature.proof, slot) = root
  BY DEF GuestVerify
<1>5. ends(d) = RecoverPublicKey(signature.tips, d, slot)
  <2> HIDE DEF d
  <2>1. ASSUME NEW i \in 1..V
        PROVE  GuestChain(signature.tips[i], d[i], slot, i)
                   = IterateHash(signature.tips[i], ChainLength - 1 - d[i], slot, i, d[i])
    <3>1. d[i] \in 0..ChainLength - 1
      BY <1>0
    <3> QED
      BY <3>1, GuestChainIs
  <2> QED
    BY <2>1 DEF RecoverPublicKey
<1>6. GuestPathRoot(WotsLeaf(slot, ends(d)), signature.proof, slot)
          = PathRoot(WotsLeaf(slot, RecoverPublicKey(signature.tips, d, slot)), signature.proof, slot)
  <2> HIDE DEF ends, d
  <2> QED
    BY <1>0, <1>5, GuestPathIs
<1>7. XmssVerify(root, m, slot, signature) \in BOOLEAN /\ GuestVerify(root, m, slot, signature) \in BOOLEAN
  BY DEF XmssVerify, GuestVerify
<1> HIDE DEF d, ends
<1>8. XmssVerify(root, m, slot, signature) <=>
          WotsEncode(m, slot, r) # NoDigits /\ PathVerifies(secret, slot, signature, d)
  BY <1>1, <1>2 DEF PathVerifies
<1>9. GuestVerify(root, m, slot, signature) <=>
          Clean(words) /\ Total(d) = TargetSum /\ PathVerifies(secret, slot, signature, d)
  BY <1>3, <1>4, <1>6 DEF PathVerifies
<1> QED
  BY <1>7, <1>8, <1>9 DEF d

(* What a key signs. *)
SignatureOf(secret, m, slot, r) ==
    [randomness |-> r,
     tips |-> [i \in 1..V |-> IterateHash(WotsPreImage(slot, i), WotsEncode(m, slot, r)[i], slot, i, 0)],
     proof |-> MerkleProof(secret, slot)]

IsIssued(secret, s, m, slot, r) ==
    /\ <<m, slot, r>> \in DOMAIN EncodingWords /\ WotsEncode(m, slot, r) # NoDigits
    /\ slot \in secret.start..secret.end
    /\ s = [message |-> m, slot |-> slot, signature |-> SignatureOf(secret, m, slot, r)]

(* A signature of the key leads from its tips to the root. *)
LEMMA IssuedVerifies ==
    ASSUME NEW secret, IsKey(secret), NEW m, NEW slot, NEW r, <<m, slot, r>> \in DOMAIN EncodingWords,
           WotsEncode(m, slot, r) # NoDigits, slot \in secret.start..secret.end,
           NEW signature, signature = SignatureOf(secret, m, slot, r),
           NEW words, words = EncodingWords[<<m, slot, r>>]
    PROVE  PathVerifies(secret, slot, signature, Digits(words))
<1> DEFINE d == Digits(words)
<1>1. d \in [1..V -> 0..ChainLength - 1] /\ WotsEncode(m, slot, r) = d
  BY DigitsAre, WotsEncodeIs
<1>2. signature.tips = [i \in 1..V |-> IterateHash(WotsPreImage(slot, i), d[i], slot, i, 0)]
      /\ signature.proof = MerkleProof(secret, slot)
  <2> HIDE DEF d
  <2> QED
    BY <1>1 DEF SignatureOf
<1> HIDE DEF d
<1>3. RecoverPublicKey(signature.tips, d, slot) = WotsPublicKey(slot)
  <2>1. ASSUME NEW i \in 1..V
        PROVE  IterateHash(signature.tips[i], ChainLength - 1 - d[i], slot, i, d[i])
                   = IterateHash(WotsPreImage(slot, i), ChainLength - 1, slot, i, 0)
    <3>1. d[i] \in 0..ChainLength - 1 /\ signature.tips[i] = IterateHash(WotsPreImage(slot, i), d[i], slot, i, 0)
      BY <1>1, <1>2
    <3> QED
      BY <3>1, TipReachesTheEnd
  <2> QED
    BY <2>1 DEF RecoverPublicKey, WotsPublicKey
<1>4. PathRoot(WotsLeaf(slot, WotsPublicKey(slot)), MerkleProof(secret, slot), slot) = Root(secret)
  BY PathLeadsToTheRoot
<1>5. Len(MerkleProof(secret, slot)) = LogLifetime
  <2> DEFINE node(l) == PathNode(secret, l - 1, Neighbour(Shifted(slot, l - 1)))
  <2>1. MerkleProof(secret, slot) = [l \in 1..LogLifetime |-> node(l)]
    BY DEF MerkleProof
  <2>2. [l \in 1..LogLifetime |-> node(l)] \in [1..LogLifetime -> {node(l) : l \in 1..LogLifetime}]
    OBVIOUS
  <2> HIDE DEF node
  <2> QED
    BY <2>1, <2>2, LengthIs, XmssAssumption
<1> QED
  BY <1>2, <1>3, <1>4, <1>5 DEF PathVerifies, d

(* The tips of a signature moved on to other digits. *)
MovedOn(s, tips, slot, digits) ==
    LET from == WotsEncode(s.message, s.slot, s.signature.randomness)
    IN  \A i \in 1..V :
            tips[i] = IterateHash(s.signature.tips[i], IF digits[i] > from[i] THEN digits[i] - from[i] ELSE 0,
                                  slot, i, from[i])

(* Tips moved on verify for the slot and the digits they were signed for, and for no other. *)
LEMMA MovedOnVerifies ==
    ASSUME NEW secret, IsKey(secret), NEW s, NEW m0, NEW slot0, NEW r0, IsIssued(secret, s, m0, slot0, r0),
           NEW m, NEW slot, NEW signature, <<m, slot, signature.randomness>> \in DOMAIN EncodingWords,
           NEW words, words = EncodingWords[<<m, slot, signature.randomness>>],
           MovedOn(s, signature.tips, slot, Digits(words)), Total(Digits(words)) = TargetSum,
           PathVerifies(secret, slot, signature, Digits(words))
    PROVE  slot = slot0 /\ Digits(words) = WotsEncode(m0, slot0, r0)
<1> DEFINE d == Digits(words)
           from == WotsEncode(m0, slot0, r0)
           tips == signature.tips
<1>1. /\ d \in [1..V -> 0..ChainLength - 1] /\ slot \in Slots
      /\ V \in Nat \ {0} /\ ChainLength \in Nat \ {0}
  BY DigitsAre, WordsAre, CountsAre, ChainLengthIs
<1>2. from \in [1..V -> 0..ChainLength - 1] /\ Total(from) = TargetSum
  <2>1. <<m0, slot0, r0>> \in DOMAIN EncodingWords /\ WotsEncode(m0, slot0, r0) # NoDigits
    BY DEF IsIssued
  <2> DEFINE words0 == EncodingWords[<<m0, slot0, r0>>]
  <2>2. from = Digits(words0) /\ Total(Digits(words0)) = TargetSum
    BY <2>1, WotsEncodeIs
  <2> QED
    BY <2>1, <2>2, DigitsAre
<1>3. /\ s.message = m0 /\ s.slot = slot0 /\ s.signature.randomness = r0
      /\ \A i \in 1..V : s.signature.tips[i] = IterateHash(WotsPreImage(slot0, i), from[i], slot0, i, 0)
  <2> HIDE DEF from
  <2>1. s = [message |-> m0, slot |-> slot0, signature |-> SignatureOf(secret, m0, slot0, r0)]
    BY DEF IsIssued
  <2>2. s.message = m0 /\ s.slot = slot0 /\ s.signature = SignatureOf(secret, m0, slot0, r0)
    BY <2>1
  <2> QED
    BY <2>2 DEF SignatureOf, from
<1> HIDE DEF d, from, tips
<1>4. \A i \in 1..V : tips[i] = IterateHash(s.signature.tips[i], IF d[i] > from[i] THEN d[i] - from[i] ELSE 0,
                                            slot, i, from[i])
  BY <1>3 DEF MovedOn, d, from, tips
<1>5. RecoverPublicKey(tips, d, slot) = WotsPublicKey(slot)
  <2>1. PathRoot(WotsLeaf(slot, RecoverPublicKey(tips, d, slot)), signature.proof, slot) = Root(secret)
    BY DEF PathVerifies, d, tips
  <2> QED
    BY <1>1, <2>1, OnlyLeavesReachTheRoot
<1>6. ASSUME NEW i \in 1..V PROVE slot = slot0 /\ d[i] >= from[i]
  <2> DEFINE tip == tips[i]
             x == d[i]
             y == from[i]
  <2>1. x \in 0..ChainLength - 1 /\ y \in 0..ChainLength - 1
    BY <1>1, <1>2
  <2>2. tip = IterateHash(IterateHash(WotsPreImage(slot0, i), y, slot0, i, 0),
                          IF x > y THEN x - y ELSE 0, slot, i, y)
    BY <1>3, <1>4
  <2>3. IterateHash(tip, ChainLength - 1 - x, slot, i, x)
            = IterateHash(WotsPreImage(slot, i), ChainLength - 1, slot, i, 0)
    <3>1. RecoverPublicKey(tips, d, slot)[i] = IterateHash(tip, ChainLength - 1 - x, slot, i, x)
      BY DEF RecoverPublicKey
    <3>2. WotsPublicKey(slot)[i] = IterateHash(WotsPreImage(slot, i), ChainLength - 1, slot, i, 0)
      BY DEF WotsPublicKey
    <3> QED
      BY <1>5, <3>1, <3>2
  <2> HIDE DEF tip, x, y
  <2>4. slot = slot0 /\ x >= y
    BY <2>1, <2>2, <2>3, TipsOnlyMoveOn
  <2> QED
    BY <2>4 DEF x, y
<1>7. slot = slot0
  <2>1. 1 \in 1..V
    BY <1>1
  <2> QED
    BY <1>6, <2>1
<1>8. d = from
  <2>1. d \in [1..V -> Nat] /\ from \in [1..V -> Nat]
    BY <1>1, <1>2
  <2>2. Total(d) = Total(from)
    BY <1>2 DEF d
  <2> QED
    BY <1>1, <1>6, <2>1, <2>2, SameTotalSameNumbers
<1> QED
  BY <1>7, <1>8 DEF d, from

-----------------------------------------------------------------------------
(* The life of a key. *)

(* What a verifier is given: what was signed, the same with another path, or its tips moved on. *)
ComesFrom(p, s) ==
    /\ <<p.message, p.slot, p.signature.randomness>> \in DOMAIN EncodingWords
    /\ \/ /\ p.message = s.message /\ p.slot = s.slot
          /\ p.signature.randomness = s.signature.randomness
       \/ MovedOn(s, p.signature.tips, p.slot,
                  Digits(EncodingWords[<<p.message, p.slot, p.signature.randomness>>]))

(* The strengthening that is inductive: whatever is signed is what the key     *)
(* signs, and whatever is given to a verifier comes from it.                   *)
KeyInv ==
    /\ key # NoKey => IsKey(key)
    /\ issued # {} => key # NoKey
    /\ \A s \in issued : \E x \in DOMAIN EncodingWords : IsIssued(key, s, x[1], x[2], x[3])
    /\ presented # <<>> => \E s \in issued : ComesFrom(presented, s)
    /\ accepted # Undecided =>
          /\ presented # <<>>
          /\ accepted = [native |-> XmssVerify(Root(key), presented.message, presented.slot, presented.signature),
                         guest |-> GuestVerify(Root(key), presented.message, presented.slot, presented.signature)]

LEMMA KeyGenKeeps ==
    ASSUME KeyInv, NEW r \in Ranges, KeyGen(r[1], r[2])
    PROVE  KeyInv'
<1>1. r[1] \in Nat /\ r[2] \in Nat
  BY XmssAssumption
<1>2. /\ key = NoKey /\ r[1] <= r[2] /\ r[2] < 2^LogLifetime
      /\ key' = [start |-> r[1], end |-> r[2], tree |-> KeyTree(r[1], r[2])]
      /\ issued' = issued /\ presented' = presented /\ accepted' = accepted
  BY DEF KeyGen
<1>3. issued = {} /\ presented = <<>> /\ accepted = Undecided
  BY <1>2 DEF KeyInv
<1>4. r[2] \in Slots
  BY <1>1, <1>2, PowerIsPositive, XmssAssumption DEF Slots
<1>5. IsKey(key')
  BY <1>1, <1>2, <1>4 DEF IsKey
<1>6. issued' = {} /\ presented' = <<>> /\ accepted' = Undecided
  BY <1>2, <1>3
<1> QED
  BY <1>5, <1>6 DEF KeyInv

LEMMA SignKeeps ==
    ASSUME KeyInv, NEW x \in DOMAIN EncodingWords, Sign(x[1], x[2], x[3])
    PROVE  KeyInv'
<1>1. x = <<x[1], x[2], x[3]>> /\ x[2] \in Slots
  BY WordsAre
<1>2. /\ key # NoKey /\ issued = {} /\ WotsEncode(x[1], x[2], x[3]) # NoDigits
      /\ x[2] >= key.start /\ x[2] <= key.end
      /\ issued' = {[message |-> x[1], slot |-> x[2], signature |-> SignatureOf(key, x[1], x[2], x[3])]}
      /\ key' = key /\ presented' = presented /\ accepted' = accepted
  BY DEF Sign, SignatureOf
<1>3. presented = <<>> /\ accepted = Undecided /\ IsKey(key)
  BY <1>2 DEF KeyInv
<1>4. x[2] \in key.start..key.end
  BY <1>1, <1>2, <1>3, SlotsAreNumbers DEF IsKey
<1>5. \A s \in issued' : IsIssued(key, s, x[1], x[2], x[3])
  BY <1>1, <1>2, <1>4 DEF IsIssued
<1>6. \A s \in issued' : \E y \in DOMAIN EncodingWords : IsIssued(key', s, y[1], y[2], y[3])
  BY <1>2, <1>5
<1>7. /\ key' # NoKey => IsKey(key')
      /\ key' # NoKey /\ presented' = <<>> /\ accepted' = Undecided
  BY <1>2, <1>3
<1> QED
  BY <1>6, <1>7 DEF KeyInv

(* Presenting what comes from an issued signature. *)
LEMMA PresentKeeps ==
    ASSUME KeyInv, NEW p, Present(p), NEW s \in issued, ComesFrom(p, s)
    PROVE  KeyInv'
<1>1. presented = <<>> /\ presented' = p /\ key' = key /\ issued' = issued /\ accepted' = accepted
  BY DEF Present
<1>2. accepted' = Undecided
  BY <1>1 DEF KeyInv
<1>3. presented' # <<>> => \E t \in issued' : ComesFrom(presented', t)
  BY <1>1
<1>4. /\ key' # NoKey => IsKey(key')
      /\ issued' # {} => key' # NoKey
      /\ \A t \in issued' : \E x \in DOMAIN EncodingWords : IsIssued(key', t, x[1], x[2], x[3])
  BY <1>1 DEF KeyInv
<1> QED
  BY <1>2, <1>3, <1>4 DEF KeyInv

(* What an issued signature is made of. *)
LEMMA IssuedIs ==
    ASSUME KeyInv, NEW s \in issued
    PROVE  /\ s = [message |-> s.message, slot |-> s.slot, signature |-> s.signature]
           /\ s.signature = [randomness |-> s.signature.randomness, tips |-> s.signature.tips,
                             proof |-> s.signature.proof]
           /\ <<s.message, s.slot, s.signature.randomness>> \in DOMAIN EncodingWords
           /\ IsKey(key)
           /\ IsIssued(key, s, s.message, s.slot, s.signature.randomness)
<1>1. PICK x \in DOMAIN EncodingWords : IsIssued(key, s, x[1], x[2], x[3])
  BY DEF KeyInv
<1>2. s = [message |-> x[1], slot |-> x[2], signature |-> SignatureOf(key, x[1], x[2], x[3])]
  BY <1>1 DEF IsIssued
<1>3. s.message = x[1] /\ s.slot = x[2] /\ s.signature = SignatureOf(key, x[1], x[2], x[3])
  BY <1>2
<1>4. s.signature.randomness = x[3]
  BY <1>3 DEF SignatureOf
<1>5. s = [message |-> s.message, slot |-> s.slot, signature |-> s.signature]
  BY <1>2
<1>6. s.signature = [randomness |-> s.signature.randomness, tips |-> s.signature.tips, proof |-> s.signature.proof]
  BY <1>3 DEF SignatureOf
<1>7. IsKey(key)
  BY DEF KeyInv
<1>8. <<x[1], x[2], x[3]>> \in DOMAIN EncodingWords
  BY <1>1 DEF IsIssued
<1> QED
  BY <1>1, <1>3, <1>4, <1>5, <1>6, <1>7, <1>8

LEMMA PresentMovedOnKeeps ==
    ASSUME KeyInv, NEW x \in DOMAIN EncodingWords, PresentMovedOn(x[1], x[2], x[3])
    PROVE  KeyInv'
<1> DEFINE m == x[1]
           slot == x[2]
           r == x[3]
           words == EncodingWords[<<m, slot, r>>]
           native == WotsEncode(m, slot, r)
           to == IF native # NoDigits THEN {native} ELSE GuestEncodings(m, slot, r)
           from(s) == WotsEncode(s.message, s.slot, s.signature.randomness)
           moved(s, digits) ==
               [i \in 1..V |-> IterateHash(s.signature.tips[i],
                                           IF digits[i] > from(s)[i] THEN digits[i] - from(s)[i] ELSE 0,
                                           slot, i, from(s)[i])]
           given(s, digits) ==
               [message |-> m, slot |-> slot,
                signature |-> [s.signature EXCEPT !.randomness = r, !.tips = moved(s, digits)]]
<1>1. \E s \in issued : \E digits \in to : Present(given(s, digits))
  BY DEF PresentMovedOn
<1>2. PICK s \in issued, digits \in to : Present(given(s, digits))
  BY <1>1
<1>3. <<m, slot, r>> \in DOMAIN EncodingWords
  BY WordsAre
<1>4. digits = Digits(words)
  <2>1. native # NoDigits => native = Digits(words)
    BY <1>3, WotsEncodeIs
  <2>2. \A d \in GuestEncodings(m, slot, r) : d = Digits(words)
    <3>1. GuestEncodings(m, slot, r)
              = IF Clean(words) /\ Total(Digits(words)) = TargetSum THEN {Digits(words)} ELSE {}
      BY <1>3, GuestEncodingsAre
    <3> HIDE DEF words, m, slot, r
    <3> QED
      BY <3>1
  <2> QED
    BY <2>1, <2>2
<1> DEFINE p == given(s, digits)
           tips == moved(s, digits)
<1>5. s.signature = [randomness |-> s.signature.randomness, tips |-> s.signature.tips, proof |-> s.signature.proof]
  BY IssuedIs
<1> HIDE DEF moved, m, slot, r, words, to, native
<1>6. p.message = m /\ p.slot = slot /\ p.signature.randomness = r /\ p.signature.tips = tips
  <2>1. p.signature = [s.signature EXCEPT !.randomness = r, !.tips = tips]
    OBVIOUS
  <2>2. p.signature.randomness = r /\ p.signature.tips = tips
    BY <1>5, <2>1
  <2> QED
    BY <2>2
<1> HIDE DEF p, given
<1>7. MovedOn(s, tips, slot, digits)
  BY DEF MovedOn, moved
<1>8. ComesFrom(p, s)
  BY <1>3, <1>4, <1>6, <1>7 DEF ComesFrom, words
<1>9. Present(p)
  BY <1>2 DEF p
<1> QED
  BY <1>8, <1>9, PresentKeeps

LEMMA PresentDamagedKeeps ==
    ASSUME KeyInv, NEW l \in 1..LogLifetime, PresentDamaged(l)
    PROVE  KeyInv'
<1>1. PICK s \in issued :
          \/ Present([s EXCEPT !.signature.proof[l] = RandomNode(LogLifetime, l)])
          \/ Present([s EXCEPT !.signature.proof = Front(@)])
  BY DEF PresentDamaged
<1>2. /\ s = [message |-> s.message, slot |-> s.slot, signature |-> s.signature]
      /\ s.signature = [randomness |-> s.signature.randomness, tips |-> s.signature.tips,
                        proof |-> s.signature.proof]
      /\ <<s.message, s.slot, s.signature.randomness>> \in DOMAIN EncodingWords
  BY IssuedIs
<1>3. ASSUME NEW proof, NEW p, p = [s EXCEPT !.signature = [s.signature EXCEPT !.proof = proof]]
      PROVE  ComesFrom(p, s)
  <2>1. p.message = s.message /\ p.slot = s.slot /\ p.signature = [s.signature EXCEPT !.proof = proof]
    BY <1>2, <1>3
  <2>2. p.signature.randomness = s.signature.randomness
    BY <1>2, <2>1
  <2> QED
    BY <1>2, <2>1, <2>2 DEF ComesFrom
<1>4. CASE Present([s EXCEPT !.signature.proof[l] = RandomNode(LogLifetime, l)])
  <2> DEFINE proof == [s.signature.proof EXCEPT ![l] = RandomNode(LogLifetime, l)]
             p == [s EXCEPT !.signature.proof[l] = RandomNode(LogLifetime, l)]
  <2>1. p = [s EXCEPT !.signature = [s.signature EXCEPT !.proof = proof]]
    OBVIOUS
  <2> HIDE DEF p, proof
  <2>2. ComesFrom(p, s)
    BY <1>3, <2>1
  <2>3. Present(p)
    BY <1>4 DEF p
  <2> QED
    BY <2>2, <2>3, PresentKeeps
<1>5. CASE Present([s EXCEPT !.signature.proof = Front(@)])
  <2> DEFINE proof == Front(s.signature.proof)
             p == [s EXCEPT !.signature.proof = Front(@)]
  <2>1. p = [s EXCEPT !.signature = [s.signature EXCEPT !.proof = proof]]
    OBVIOUS
  <2> HIDE DEF p, proof
  <2>2. ComesFrom(p, s)
    BY <1>3, <2>1
  <2>3. Present(p)
    BY <1>5 DEF p
  <2> QED
    BY <2>2, <2>3, PresentKeeps
<1> QED
  BY <1>1, <1>4, <1>5

LEMMA VerifyKeeps ==
    ASSUME KeyInv, Verify
    PROVE  KeyInv'
<1>1. /\ presented # <<>>
      /\ accepted' = [native |-> XmssVerify(Root(key), presented.message, presented.slot, presented.signature),
                      guest |-> GuestVerify(Root(key), presented.message, presented.slot, presented.signature)]
      /\ key' = key /\ issued' = issued /\ presented' = presented
  BY DEF Verify
<1>2. accepted' = [native |-> XmssVerify(Root(key'), presented'.message, presented'.slot, presented'.signature),
                   guest |-> GuestVerify(Root(key'), presented'.message, presented'.slot, presented'.signature)]
  BY <1>1
<1>3. /\ key' # NoKey => IsKey(key')
      /\ issued' # {} => key' # NoKey
      /\ \A t \in issued' : \E x \in DOMAIN EncodingWords : IsIssued(key', t, x[1], x[2], x[3])
      /\ presented' # <<>> => \E s \in issued' : ComesFrom(presented', s)
  BY <1>1 DEF KeyInv
<1> QED
  BY <1>1, <1>2, <1>3 DEF KeyInv

LEMMA PresentAsIsKeeps ==
    ASSUME KeyInv, PresentAsIs
    PROVE  KeyInv'
<1>1. PICK s \in issued : Present(s)
  BY DEF PresentAsIs
<1>2. ComesFrom(s, s)
  BY IssuedIs DEF ComesFrom
<1> QED
  BY <1>1, <1>2, PresentKeeps

LEMMA XmssKeeps == KeyInv /\ XmssNext => KeyInv'
<1> SUFFICES ASSUME KeyInv, XmssNext PROVE KeyInv'
  OBVIOUS
<1>1. CASE \E r \in Ranges : KeyGen(r[1], r[2])
  BY <1>1, KeyGenKeeps
<1>2. CASE \E x \in DOMAIN EncodingWords : Sign(x[1], x[2], x[3])
  BY <1>2, SignKeeps
<1>3. CASE PresentAsIs
  BY <1>3, PresentAsIsKeeps
<1>4. CASE \E x \in DOMAIN EncodingWords : PresentMovedOn(x[1], x[2], x[3])
  BY <1>4, PresentMovedOnKeeps
<1>5. CASE \E l \in 1..LogLifetime : PresentDamaged(l)
  BY <1>5, PresentDamagedKeeps
<1>6. CASE Verify
  BY <1>6, VerifyKeeps
<1> QED
  BY <1>1, <1>2, <1>3, <1>4, <1>5, <1>6 DEF XmssNext

(* Whatever a key has signed and a verifier is given, in every state. *)
THEOREM KeyInvariant == Spec => []KeyInv
<1>1. Init => KeyInv
  BY DEF Init, XmssInit, KeyInv
<1>2. KeyInv /\ [Next]_vars => KeyInv'
  <2> SUFFICES ASSUME KeyInv, [Next]_vars PROVE KeyInv'
    OBVIOUS
  <2>1. CASE XmssNext
    BY <2>1, XmssKeeps
  <2>2. CASE Gather
    <3>1. key' = NoKey /\ issued' = {} /\ presented' = <<>> /\ accepted' = Undecided
      BY <2>2 DEF Gather
    <3> QED
      BY <3>1 DEF KeyInv
  <2>3. CASE UNCHANGED xmssVars
    BY <2>3 DEF KeyInv, xmssVars
  <2> QED
    BY <2>1, <2>2, <2>3 DEF Next, vars
<1> QED
  BY <1>1, <1>2, PTL DEF Spec

(* What a verifier answers, and about what. *)
LEMMA AnswersAre ==
    ASSUME KeyInv, accepted # Undecided,
           NEW words, words = EncodingWords[<<presented.message, presented.slot, presented.signature.randomness>>]
    PROVE  /\ <<presented.message, presented.slot, presented.signature.randomness>> \in DOMAIN EncodingWords
           /\ IsKey(key) /\ \E s \in issued : ComesFrom(presented, s)
           /\ accepted.native \in BOOLEAN /\ accepted.guest \in BOOLEAN
           /\ accepted.native <=>
                 /\ WotsEncode(presented.message, presented.slot, presented.signature.randomness) # NoDigits
                 /\ PathVerifies(key, presented.slot, presented.signature, Digits(words))
           /\ accepted.guest <=>
                 /\ Clean(words) /\ Total(Digits(words)) = TargetSum
                 /\ PathVerifies(key, presented.slot, presented.signature, Digits(words))
<1>1. PICK s \in issued : ComesFrom(presented, s)
  BY DEF KeyInv
<1>2. IsKey(key)
  BY IssuedIs
<1> DEFINE m == presented.message
           slot == presented.slot
           signature == presented.signature
           root == Root(key)
           native == XmssVerify(root, m, slot, signature)
           guest == GuestVerify(root, m, slot, signature)
<1>3. <<m, slot, signature.randomness>> \in DOMAIN EncodingWords
  BY <1>1 DEF ComesFrom
<1>4. accepted = [native |-> native, guest |-> guest]
  BY DEF KeyInv
<1>5. accepted.native = native /\ accepted.guest = guest
  <2> HIDE DEF native, guest
  <2> QED
    BY <1>4
<1>6. words = EncodingWords[<<m, slot, signature.randomness>>]
  OBVIOUS
<1> HIDE DEF m, slot, signature
<1>7. /\ native <=> /\ WotsEncode(m, slot, signature.randomness) # NoDigits
                    /\ PathVerifies(key, slot, signature, Digits(words))
      /\ guest <=> /\ Clean(words) /\ Total(Digits(words)) = TargetSum
                   /\ PathVerifies(key, slot, signature, Digits(words))
      /\ native \in BOOLEAN /\ guest \in BOOLEAN
  BY <1>3, <1>6, VerificationsAre
<1> HIDE DEF native, guest
<1> QED
  BY <1>1, <1>2, <1>3, <1>5, <1>7 DEF m, slot, signature

LEMMA IssuedOnesVerify == KeyInv => IssuedSignaturesVerify
<1> SUFFICES ASSUME KeyInv, accepted # Undecided, presented \in issued
             PROVE  accepted.native /\ accepted.guest
  BY DEF IssuedSignaturesVerify
<1> DEFINE m == presented.message
           slot == presented.slot
           r == presented.signature.randomness
           words == EncodingWords[<<m, slot, r>>]
<1>1. IsIssued(key, presented, m, slot, r) /\ IsKey(key)
  BY IssuedIs
<1>2. /\ <<m, slot, r>> \in DOMAIN EncodingWords /\ WotsEncode(m, slot, r) # NoDigits
      /\ slot \in key.start..key.end
      /\ presented = [message |-> m, slot |-> slot, signature |-> SignatureOf(key, m, slot, r)]
  BY <1>1 DEF IsIssued
<1> DEFINE signature == presented.signature
<1>3. signature = SignatureOf(key, m, slot, r)
  <2> DEFINE given == SignatureOf(key, m, slot, r)
  <2>1. presented = [message |-> m, slot |-> slot, signature |-> given]
    BY <1>2
  <2> HIDE DEF given
  <2>2. presented.signature = given
    BY <2>1
  <2> QED
    BY <2>2 DEF given
<1> HIDE DEF words
<1>4. PathVerifies(key, slot, signature, Digits(words))
  <2> HIDE DEF m, slot, r, signature
  <2> QED
    BY <1>1, <1>2, <1>3, IssuedVerifies DEF words
<1>5. Clean(words) /\ Total(Digits(words)) = TargetSum
  <2> HIDE DEF m, slot, r
  <2> QED
    BY <1>2, WotsEncodeIs DEF words
<1>6. /\ accepted.native \in BOOLEAN /\ accepted.guest \in BOOLEAN
      /\ accepted.native <=> WotsEncode(m, slot, r) # NoDigits /\ PathVerifies(key, slot, signature, Digits(words))
      /\ accepted.guest <=> /\ Clean(words) /\ Total(Digits(words)) = TargetSum
                            /\ PathVerifies(key, slot, signature, Digits(words))
  BY AnswersAre DEF words
<1> QED
  BY <1>2, <1>4, <1>5, <1>6

(* For every lifetime, range of slots, width and number of chains, field and   *)
(* encoding hash: what a key signs verifies, natively and in the guest.        *)
THEOREM IssuedSignaturesAlwaysVerify == Spec => []IssuedSignaturesVerify
BY KeyInvariant, IssuedOnesVerify, PTL

LEMMA AnswersAgree == KeyInv => GuestAgreesWithVerify
<1> SUFFICES ASSUME KeyInv, accepted # Undecided,
                    NEW words,
                    words = EncodingWords[<<presented.message, presented.slot, presented.signature.randomness>>]
             PROVE  \/ accepted.native = accepted.guest
                    \/ accepted.guest /\ \E k \in NumEncodingWords + 1..Len(words) : words[k] = P - 1
  BY DEF GuestAgreesWithVerify
<1> DEFINE m == presented.message
           slot == presented.slot
           r == presented.signature.randomness
           leads == PathVerifies(key, slot, presented.signature, Digits(words))
<1>1. /\ <<m, slot, r>> \in DOMAIN EncodingWords
      /\ accepted.native \in BOOLEAN /\ accepted.guest \in BOOLEAN
      /\ accepted.native <=> WotsEncode(m, slot, r) # NoDigits /\ leads
      /\ accepted.guest <=> Clean(words) /\ Total(Digits(words)) = TargetSum /\ leads
  BY AnswersAre
<1> HIDE DEF m, slot, r, leads
<1>2. words = EncodingWords[<<m, slot, r>>]
  BY DEF m, slot, r
<1>3. /\ WotsEncode(m, slot, r) # NoDigits => Clean(words) /\ Total(Digits(words)) = TargetSum
      /\ WotsEncode(m, slot, r) = NoDigits =>
            \/ ~(Clean(words) /\ Total(Digits(words)) = TargetSum)
            \/ \E k \in NumEncodingWords + 1..Len(words) : words[k] = P - 1
  BY <1>1, <1>2, WotsEncodeIs
<1> DEFINE last0 == \E k \in NumEncodingWords + 1..Len(words) : words[k] = P - 1
<1> HIDE DEF last0
<1>4. (accepted.native <=> accepted.guest) \/ (accepted.guest /\ last0)
  BY <1>1, <1>3 DEF last0
<1>5. (accepted.native <=> accepted.guest) => accepted.native = accepted.guest
  BY <1>1
<1> QED
  BY <1>4, <1>5 DEF last0

(* The guest answers as xmss_verify does, unless a word it does not decompose  *)
(* is -1.                                                                      *)
THEOREM GuestAlwaysAgreesWithVerify == Spec => []GuestAgreesWithVerify
BY KeyInvariant, AnswersAgree, PTL

LEMMA EncodingsAreSigned == KeyInv => OnlySignedEncodingsVerify
<1> DEFINE m == presented.message
           slot == presented.slot
           r == presented.signature.randomness
           words == EncodingWords[<<m, slot, r>>]
           encodings == (IF accepted.native THEN {WotsEncode(m, slot, r)} ELSE {})
                            \cup (IF accepted.guest THEN GuestEncodings(m, slot, r) ELSE {})
<1> SUFFICES ASSUME KeyInv, accepted # Undecided, NEW digits \in encodings
             PROVE  \E s \in issued : s.slot = slot /\ digits = WotsEncode(s.message, s.slot, s.signature.randomness)
  BY DEF OnlySignedEncodingsVerify
<1> DEFINE leads == PathVerifies(key, slot, presented.signature, Digits(words))
<1>1. /\ <<m, slot, r>> \in DOMAIN EncodingWords /\ IsKey(key)
      /\ accepted.native <=> WotsEncode(m, slot, r) # NoDigits /\ leads
      /\ accepted.guest <=> Clean(words) /\ Total(Digits(words)) = TargetSum /\ leads
  BY AnswersAre
<1>2. PICK s \in issued : ComesFrom(presented, s)
  BY AnswersAre
<1>3. /\ IsIssued(key, s, s.message, s.slot, s.signature.randomness)
      /\ WotsEncode(s.message, s.slot, s.signature.randomness) # NoDigits
  BY IssuedIs DEF IsIssued
<1> HIDE DEF leads
<1>4. digits = Digits(words) /\ Total(Digits(words)) = TargetSum /\ leads
  <2>1. \/ accepted.native /\ digits = WotsEncode(m, slot, r)
        \/ accepted.guest /\ digits \in GuestEncodings(m, slot, r)
    OBVIOUS
  <2>2. \/ WotsEncode(m, slot, r) = NoDigits
        \/ WotsEncode(m, slot, r) = Digits(words) /\ Clean(words) /\ Total(Digits(words)) = TargetSum
    <3> HIDE DEF m, slot, r
    <3> QED
      BY <1>1, WotsEncodeIs
  <2>3. GuestEncodings(m, slot, r)
            = IF Clean(words) /\ Total(Digits(words)) = TargetSum THEN {Digits(words)} ELSE {}
    <3> HIDE DEF m, slot, r
    <3> QED
      BY <1>1, GuestEncodingsAre
  <2> HIDE DEF words, encodings, m, slot, r
  <2> QED
    BY <1>1, <2>1, <2>2, <2>3
<1>5. CASE m = s.message /\ slot = s.slot /\ r = s.signature.randomness
  <2>1. WotsEncode(m, slot, r) # NoDigits
    BY <1>3, <1>5
  <2>2. WotsEncode(m, slot, r) = Digits(words)
    <3> HIDE DEF m, slot, r
    <3> QED
      BY <1>1, <2>1, WotsEncodeIs
  <2> QED
    BY <1>4, <1>5, <2>2
<1>6. CASE MovedOn(s, presented.signature.tips, slot, Digits(words))
  <2> DEFINE signature == presented.signature
             m0 == s.message
             slot0 == s.slot
             r0 == s.signature.randomness
             d == Digits(words)
  <2>1. /\ IsIssued(key, s, m0, slot0, r0) /\ <<m, slot, signature.randomness>> \in DOMAIN EncodingWords
        /\ words = EncodingWords[<<m, slot, signature.randomness>>]
        /\ MovedOn(s, signature.tips, slot, Digits(words)) /\ PathVerifies(key, slot, signature, Digits(words))
    BY <1>1, <1>3, <1>4, <1>6 DEF leads
  <2> HIDE DEF m0, slot0, r0, words, m, slot, signature
  <2>2. slot = slot0 /\ Digits(words) = WotsEncode(m0, slot0, r0)
    BY <1>1, <1>4, <2>1, MovedOnVerifies
  <2> QED
    BY <1>4, <2>2 DEF m0, slot0, r0
<1> QED
  BY <1>2, <1>5, <1>6 DEF ComesFrom

(* Whatever verifies has the slot and the encoding of what the key has signed. *)
THEOREM OnlySignedEncodingsAlwaysVerify == Spec => []OnlySignedEncodingsVerify
BY KeyInvariant, EncodingsAreSigned, PTL

=============================================================================
