-------------------------- MODULE QueryPhaseProofs --------------------------
(***************************************************************************)
(* For every height, matrix and sequence of queries: restore inverts       *)
(* prune, what it returns verifies against the root, and no digest travels *)
(* twice.  The digest of a node is that of the tree, whichever way it is   *)
(* computed: by the prover from its effective columns, by restore from     *)
(* the leaf on the right or from what was sent, by the verifier from the   *)
(* leaf and its siblings.                                                  *)
(***************************************************************************)
EXTENDS QueryPhase, NumberFacts, FunctionTheorems, FiniteSetTheorems, WellFoundedInduction, TLAPS

-----------------------------------------------------------------------------
(* The nodes of the tree. *)

(* The ancestor of leaf q at level l. *)
Node(q, l) == q \div 2^l

(* The nodes of a level. *)
Level(l) == 0..2^(Height - l) - 1

(* From a leaf to its ancestor, one level at a time. *)
LEMMA NodeIs ==
    /\ \A q \in Nat : Node(q, 0) = q
    /\ \A q \in Nat, l \in Nat : Node(q, l) \in Nat /\ Node(q, l + 1) = Node(q, l) \div 2
<1>1. ASSUME NEW q \in Nat PROVE Node(q, 0) = q
  BY PowerStep DEF Node
<1>2. ASSUME NEW q \in Nat, NEW l \in Nat
      PROVE  Node(q, l) \in Nat /\ Node(q, l + 1) = Node(q, l) \div 2
  <2>1. 2^l \in Nat \ {0} /\ 2^(l + 1) = 2 * 2^l
    BY PowerIsPositive, PowerStep
  <2>2. (q \div 2^l) \div 2 = q \div (2 * 2^l) /\ q \div 2^l \in Nat
    BY <2>1, Halved
  <2> QED
    BY <2>1, <2>2 DEF Node
<1> QED
  BY <1>1, <1>2

(* The tree has 2^Height leaves, and half as many nodes a level up. *)
LEMMA LevelIs ==
    /\ Height \in Nat /\ LeafIndices = Level(0)
    /\ \A l \in 0..Height : 2^(Height - l) \in Nat \ {0} /\ 0 \in Level(l)
    /\ Level(Height) = {0}
    /\ \A l \in 0..Height - 1 : 2^(Height - l) = 2 * 2^(Height - (l + 1))
<1>1. Height \in Nat
  BY TreeAssumption
<1>2. LeafIndices = Level(0)
  <2>1. Height - 0 = Height
    BY <1>1
  <2> QED
    BY <2>1 DEF LeafIndices, Level
<1>3. ASSUME NEW l \in 0..Height PROVE 2^(Height - l) \in Nat \ {0} /\ 0 \in Level(l)
  <2>1. Height - l \in Nat
    BY <1>1
  <2>2. 2^(Height - l) \in Nat \ {0}
    BY <2>1, PowerIsPositive
  <2> QED
    BY <2>2 DEF Level
<1>4. Level(Height) = {0}
  <2>1. Height - Height = 0
    BY <1>1
  <2>2. 2^(Height - Height) = 1
    BY <2>1, PowerStep
  <2> QED
    BY <2>2 DEF Level
<1>5. ASSUME NEW l \in 0..Height - 1 PROVE 2^(Height - l) = 2 * 2^(Height - (l + 1))
  <2>1. PICK n \in Nat : n = Height - (l + 1)
    BY <1>1
  <2>2. n + 1 = Height - l
    BY <1>1, <2>1
  <2>3. 2^(n + 1) = 2 * 2^n
    BY PowerStep
  <2> QED
    BY <2>1, <2>2, <2>3
<1> QED
  BY <1>1, <1>2, <1>3, <1>4, <1>5

(* A node's parent and its sibling are in the tree; a node and its sibling are the two children of
   their parent, the even one on the left. *)
LEMMA FamilyIs ==
    ASSUME NEW l \in 0..Height - 1, NEW k \in Level(l)
    PROVE  /\ k \in Nat /\ Sibling(k) \in Level(l) /\ k \div 2 \in Level(l + 1)
           /\ k % 2 = 0 => k = 2 * (k \div 2) /\ Sibling(k) = 2 * (k \div 2) + 1
           /\ k % 2 # 0 => k = 2 * (k \div 2) + 1 /\ Sibling(k) = 2 * (k \div 2)
<1> DEFINE n == 2^(Height - l)
           m == 2^(Height - (l + 1))
<1>1. /\ n = 2 * m /\ n \in Nat \ {0} /\ m \in Nat \ {0}
  <2>1. l \in 0..Height /\ l + 1 \in 0..Height
    BY LevelIs
  <2> QED
    BY <2>1, LevelIs
<1>2. k \in 0..n - 1 /\ Level(l) = 0..n - 1 /\ Level(l + 1) = 0..m - 1
  BY DEF Level
<1> HIDE DEF n, m
<1> QED
  BY <1>1, <1>2 DEF Sibling

(* The ancestors of a leaf are in the tree. *)
LEMMA NodeInLevel ==
    ASSUME NEW q \in LeafIndices
    PROVE  /\ q \in Nat
           /\ \A l \in 0..Height : Node(q, l) \in Level(l)
<1>1. q \in Nat /\ Node(q, 0) = q /\ q \in Level(0)
  <2>1. q \in 0..2^(Height - 0) - 1
    BY LevelIs DEF Level
  <2> QED
    BY <2>1, NodeIs, LevelIs
<1> DEFINE T == {l \in 0..Height : Node(q, l) \in Level(l)}
<1>2. ASSUME NEW l \in 1..Height, l - 1 \in T PROVE l \in T
  <2>1. l - 1 \in 0..Height - 1 /\ (l - 1) + 1 = l /\ l - 1 \in Nat /\ l \in 0..Height
    BY LevelIs
  <2>2. Node(q, l) = Node(q, l - 1) \div 2
    BY <1>1, <2>1, NodeIs
  <2> QED
    BY <1>2, <2>1, <2>2, FamilyIs
<1>3. 0 \in T
  BY <1>1, LevelIs
<1> HIDE DEF T
<1>4. \A l \in 0..Height : l \in T
  BY <1>2, <1>3, UpTo, LevelIs
<1> QED
  BY <1>1, <1>4 DEF T

(* Leaves keep their order on the way up, and stay together once they have met. *)
LEMMA NodesGrow ==
    ASSUME NEW a \in Nat, NEW b \in Nat
    PROVE  /\ a <= b => \A l \in Nat : Node(a, l) <= Node(b, l)
           /\ \A l, m \in Nat : l <= m /\ Node(a, l) = Node(b, l) => Node(a, m) = Node(b, m)
<1>1. ASSUME a <= b, NEW l \in Nat PROVE Node(a, l) <= Node(b, l)
  BY <1>1, QuotientsGrow, PowerIsPositive DEF Node
<1>2. ASSUME NEW l \in Nat, NEW m \in Nat, l <= m, Node(a, l) = Node(b, l)
      PROVE  Node(a, m) = Node(b, m)
  <2> DEFINE T == {d \in Nat : Node(a, l + d) = Node(b, l + d)}
  <2>1. m - l \in Nat /\ l + (m - l) = m /\ l + 0 = l
    BY <1>2
  <2>2. 0 \in T
    BY <1>2, <2>1
  <2>3. ASSUME NEW d \in 1..m - l, d - 1 \in T PROVE d \in T
    <3>1. d \in Nat /\ l + (d - 1) \in Nat /\ (l + (d - 1)) + 1 = l + d
      BY <2>1
    <3>2. Node(a, l + d) = Node(a, l + (d - 1)) \div 2 /\ Node(b, l + d) = Node(b, l + (d - 1)) \div 2
      BY <3>1, NodeIs
    <3> QED
      BY <2>3, <3>1, <3>2
  <2> HIDE DEF T
  <2>4. \A d \in 0..m - l : d \in T
    BY <2>1, <2>2, <2>3, UpTo
  <2>5. m - l \in T
    BY <2>1, <2>4
  <2> QED
    BY <2>1, <2>5 DEF T
<1> QED
  BY <1>1, <1>2


-----------------------------------------------------------------------------
(* Sets in order. *)

(* Ranks grow with the members. *)
LEMMA RanksGrow ==
    ASSUME NEW S \in SUBSET Nat, IsFiniteSet(S), NEW a \in S, NEW b \in S, a < b
    PROVE  Cardinality(Below(S, a)) < Cardinality(Below(S, b))
<1> DEFINE A == Below(S, a)
           B == Below(S, b)
<1>0. \A x \in S : x \in Nat
  OBVIOUS
<1>1. \A x \in A : x \in B
  BY <1>0 DEF Below
<1>2. a \in B /\ a \notin A
  BY <1>0 DEF Below
<1>3. IsFiniteSet(B) /\ Cardinality(A) \in Nat /\ Cardinality(B) \in Nat
  BY BelowFinite
<1> HIDE DEF A, B
<1>4. A \subseteq B
  BY <1>1
<1>5. Cardinality(A) <= Cardinality(B) /\ (Cardinality(A) = Cardinality(B) => A = B)
  BY <1>3, <1>4, FS_Subset
<1>6. Cardinality(A) < Cardinality(B)
  BY <1>2, <1>3, <1>5
<1> QED
  BY <1>6 DEF A, B

(* A set in order is a sequence without repetitions, of its members, each at the position that counts
   the members up to it. *)
LEMMA InOrderIs ==
    ASSUME NEW S \in SUBSET Nat, IsFiniteSet(S)
    PROVE  /\ Cardinality(S) \in Nat /\ DOMAIN InOrder(S) = 1..Cardinality(S)
           /\ Len(InOrder(S)) = Cardinality(S)
           /\ InOrder(S) = [i \in 1..Cardinality(S) |-> InOrder(S)[i]]
           /\ \A i \in 1..Cardinality(S) : InOrder(S)[i] \in S
           /\ \A i, j \in 1..Cardinality(S) : i < j => InOrder(S)[i] < InOrder(S)[j]
           /\ \A x \in S : /\ Cardinality({l \in S : l <= x}) \in 1..Cardinality(S)
                           /\ InOrder(S)[Cardinality({l \in S : l <= x})] = x
<1> DEFINE c == Cardinality(S)
           f == InOrder(S)
<1>0. c \in Nat /\ (\A x \in S : x \in Nat)
  BY BelowFinite
<1>1. f = [i \in 1..c |-> CHOOSE k \in S : Cardinality(Below(S, k)) = i - 1]
  BY DEF InOrder, Below
<1>2. ASSUME NEW i \in 1..c PROVE f[i] \in S /\ Cardinality(Below(S, f[i])) = i - 1
  BY <1>1, RankTaken
<1>3. Len(f) = c
  <2> HIDE DEF c
  <2> QED
    BY <1>0, <1>1
<1>domain. f = [i \in 1..c |-> f[i]]
  BY <1>1
<1> HIDE DEF f
<1>4. ASSUME NEW i \in 1..c, NEW j \in 1..c, i < j PROVE f[i] < f[j]
  <2>1. f[i] \in Nat /\ f[j] \in Nat /\ f[i] \in S /\ f[j] \in S
    BY <1>0, <1>2
  <2>2. Cardinality(Below(S, f[i])) = i - 1 /\ Cardinality(Below(S, f[j])) = j - 1
    BY <1>2
  <2>3. CASE f[j] < f[i]
    <3>1. Cardinality(Below(S, f[j])) < Cardinality(Below(S, f[i]))
      BY <2>1, <2>3, RanksGrow
    <3> QED
      BY <3>1, <2>2, <1>4
  <2>4. CASE f[i] = f[j]
    BY <2>2, <2>4, <1>4
  <2> QED
    BY <2>1, <2>3, <2>4
<1>5. ASSUME NEW x \in S
      PROVE  /\ Cardinality({l \in S : l <= x}) \in 1..c
             /\ f[Cardinality({l \in S : l <= x})] = x
  <2> DEFINE U == {l \in S : l <= x}
             r == Cardinality(Below(S, x))
  <2>1. U = Below(S, x) \cup {x} /\ x \notin Below(S, x) /\ U \subseteq S
    <3>1. \A l \in S : l <= x <=> (l < x \/ l = x)
      BY <1>0
    <3>2. ~(x < x)
      BY <1>0
    <3> QED
      BY <3>1, <3>2 DEF Below
  <2>2. IsFiniteSet(Below(S, x)) /\ r \in Nat
    BY BelowFinite
  <2>3. Cardinality(U) = r + 1
    <3>1. Cardinality(Below(S, x) \cup {x}) = r + 1
      BY <2>1, <2>2, FS_AddElement, Zenon
    <3> QED
      BY <3>1, <2>1
  <2>4. Cardinality(U) <= c
    BY <2>1, FS_Subset
  <2> HIDE DEF U, r
  <2>5. r + 1 \in 1..c
    BY <1>0, <2>2, <2>3, <2>4
  <2>6. f[r + 1] \in S /\ Cardinality(Below(S, f[r + 1])) = r
    BY <1>2, <2>2, <2>5
  <2>7. f[r + 1] = x
    <3> DEFINE y == f[r + 1]
    <3>1. y \in Nat /\ x \in Nat /\ y \in S /\ Cardinality(Below(S, y)) = r
      BY <1>0, <2>6
    <3> HIDE DEF y
    <3>2. Cardinality(Below(S, x)) = r
      BY DEF r
    <3>3. y < x => r < r
      BY <3>1, <3>2, RanksGrow
    <3>4. x < y => r < r
      BY <3>1, <3>2, RanksGrow
    <3>5. y = x
      BY <2>2, <3>1, <3>3, <3>4
    <3> QED
      BY <3>5 DEF y
  <2> QED
    BY <2>3, <2>5, <2>7 DEF U
<1> QED
  BY <1>0, <1>1, <1>2, <1>3, <1>domain, <1>4, <1>5 DEF f

-----------------------------------------------------------------------------
(* The tree of digests. *)

(* The digest of every inner node is that of its two children. *)
IsTree(D) ==
    \A l \in 0..Height - 1 : \A k \in Level(l) :
        D[l + 1][k \div 2] = Parent(k, D[l][k], D[l][Sibling(k)])

(* A level of the digests, from the level below. *)
LevelAbove(l, below) == [k \in 0..2^(Height - l) - 1 |-> Compress(below[2 * k], below[2 * k + 1])]

IsLayers(D, first, n) == D = [l \in 0..n |-> IF l = 0 THEN first ELSE LevelAbove(l, D[l - 1])]

(* The layers exist, up to any level. *)
LEMMA LayersExist ==
    ASSUME NEW first, NEW n \in Nat
    PROVE  \E D : IsLayers(D, first, n)
<1> DEFINE T == {m \in Nat : \E D : IsLayers(D, first, m)}
<1>1. 0 \in T
  <2>1. IsLayers([l \in 0..0 |-> first], first, 0)
    BY DEF IsLayers
  <2> QED
    BY <2>1
<1>2. ASSUME NEW m \in 1..n, m - 1 \in T PROVE m \in T
  <2>1. PICK D : IsLayers(D, first, m - 1)
    BY <1>2
  <2> DEFINE above == LevelAbove(m, D[m - 1])
             E == [l \in 0..m |-> IF l = m THEN above ELSE D[l]]
  <2>2. \A l \in 0..m - 1 : D[l] = IF l = 0 THEN first ELSE LevelAbove(l, D[l - 1])
    BY <2>1 DEF IsLayers
  <2>3. ASSUME NEW l \in 0..m PROVE E[l] = IF l = 0 THEN first ELSE LevelAbove(l, E[l - 1])
    <3> HIDE DEF above
    <3>1. l # 0 => E[l - 1] = D[l - 1]
      OBVIOUS
    <3>2. CASE l = m
      <4>1. E[l - 1] = D[m - 1] /\ E[l] = above
        BY <3>1, <3>2
      <4> QED
        BY <3>2, <4>1 DEF above
    <3>3. CASE l # m
      <4>1. l \in 0..m - 1 /\ E[l] = D[l]
        BY <3>3
      <4> QED
        BY <2>2, <3>1, <4>1
    <3> QED
      BY <3>2, <3>3
  <2> HIDE DEF above
  <2>4. E = [l \in 0..m |-> E[l]]
    OBVIOUS
  <2> HIDE DEF E
  <2>5. IsLayers(E, first, m)
    BY <2>3, <2>4 DEF IsLayers
  <2> QED
    BY <2>5
<1> HIDE DEF T
<1>3. \A m \in 0..n : m \in T
  BY <1>1, <1>2, UpTo
<1>4. n \in T
  BY <1>3
<1> QED
  BY <1>4 DEF T

(* The layers the prover computes are a tree over the first layer. *)
LEMMA LayersAreATree ==
    ASSUME NEW first
    PROVE  DigestLayers(first)[0] = first /\ IsTree(DigestLayers(first))
<1> DEFINE D == DigestLayers(first)
<1>1. IsLayers(D, first, Height)
  <2>1. D = CHOOSE L : IsLayers(L, first, Height)
    BY DEF DigestLayers, IsLayers, LevelAbove
  <2>2. \E L : IsLayers(L, first, Height)
    BY LevelIs, LayersExist
  <2> HIDE DEF D
  <2> QED
    BY <2>1, <2>2
<1> HIDE DEF D
<1>2. \A l \in 0..Height : D[l] = IF l = 0 THEN first ELSE LevelAbove(l, D[l - 1])
  BY <1>1 DEF IsLayers
<1>3. D[0] = first
  BY <1>2, LevelIs
<1>4. ASSUME NEW l \in 0..Height - 1, NEW k \in Level(l)
      PROVE  D[l + 1][k \div 2] = Parent(k, D[l][k], D[l][Sibling(k)])
  <2>1. D[l + 1] = LevelAbove(l + 1, D[l])
    <3>1. l + 1 \in 0..Height /\ l + 1 # 0 /\ (l + 1) - 1 = l
      BY LevelIs
    <3> QED
      BY <1>2, <3>1
  <2> DEFINE j == k \div 2
  <2>2. j \in Level(l + 1)
    BY FamilyIs
  <2> HIDE DEF j
  <2>3. D[l + 1][j] = Compress(D[l][2 * j], D[l][2 * j + 1])
    BY <2>1, <2>2 DEF LevelAbove, Level
  <2>4. k % 2 = 0 => k = 2 * j /\ Sibling(k) = 2 * j + 1
    BY FamilyIs DEF j
  <2>5. k % 2 # 0 => k = 2 * j + 1 /\ Sibling(k) = 2 * j
    BY FamilyIs DEF j
  <2>6. D[l + 1][j] = Parent(k, D[l][k], D[l][Sibling(k)])
    <3>1. CASE k % 2 = 0
      BY <2>3, <2>4, <3>1, Zenon DEF Parent
    <3>2. CASE k % 2 # 0
      BY <2>3, <2>5, <3>2, Zenon DEF Parent
    <3> QED
      BY <3>1, <3>2
  <2> QED
    BY <2>6 DEF j
<1> QED
  BY <1>3, <1>4 DEF IsTree, D

(* The digests on the way from leaf q to level n. *)
Way(D, q, n) == [l \in 0..n |-> D[l][Node(q, l)]]

(* The digests computed from a leaf, its index and its siblings. *)
IsClimb(hash, q, leaf, siblings, n) ==
    hash = [l \in 0..n |->
              IF l = 0 THEN HashSlice(leaf) ELSE Parent(Node(q, l - 1), hash[l - 1], siblings[l])]

(* With the siblings of the tree, a climb is the way up the tree. *)
LEMMA ClimbIsTheWay ==
    ASSUME NEW D, IsTree(D), NEW q \in LeafIndices, NEW n \in 0..Height, NEW leaf, NEW siblings,
           D[0][q] = HashSlice(leaf),
           \A l \in 1..n : siblings[l] = D[l - 1][Sibling(Node(q, l - 1))]
    PROVE  /\ IsClimb(Way(D, q, n), q, leaf, siblings, n)
           /\ \A hash : IsClimb(hash, q, leaf, siblings, n) => hash = Way(D, q, n)
<1> DEFINE W == Way(D, q, n)
<1>0. n \in Nat /\ Height \in Nat
  BY LevelIs
<1>1. ASSUME NEW l \in 1..n
      PROVE  D[l][Node(q, l)] = Parent(Node(q, l - 1), D[l - 1][Node(q, l - 1)], siblings[l])
  <2> DEFINE j == l - 1
             k == Node(q, j)
  <2>1. j \in 0..Height - 1 /\ j \in 0..Height /\ j \in Nat /\ j + 1 = l
    BY <1>0
  <2>2. k \in Level(j) /\ Node(q, l) = k \div 2
    BY <2>1, NodeInLevel, NodeIs
  <2>3. siblings[l] = D[j][Sibling(k)]
    OBVIOUS
  <2> HIDE DEF j, k
  <2>4. D[j + 1][k \div 2] = Parent(k, D[j][k], D[j][Sibling(k)])
    BY <2>1, <2>2 DEF IsTree
  <2>5. D[l][Node(q, l)] = Parent(k, D[j][k], siblings[l])
    BY <2>1, <2>2, <2>3, <2>4
  <2> QED
    BY <2>5 DEF j, k
<1>2. D[0][Node(q, 0)] = HashSlice(leaf)
  BY NodeInLevel, NodeIs
<1>3. \A l \in 0..n : W[l] = D[l][Node(q, l)]
  BY DEF Way
<1>4. W = [l \in 0..n |-> W[l]]
  BY DEF Way
<1> HIDE DEF W
<1>5. ASSUME NEW l \in 0..n
      PROVE  W[l] = IF l = 0 THEN HashSlice(leaf) ELSE Parent(Node(q, l - 1), W[l - 1], siblings[l])
  <2>1. CASE l = 0
    BY <1>2, <1>3, <2>1
  <2>2. CASE l # 0
    <3>1. l \in 1..n /\ l - 1 \in 0..n
      BY <1>0, <2>2
    <3>2. W[l] = D[l][Node(q, l)] /\ W[l - 1] = D[l - 1][Node(q, l - 1)]
      BY <1>3, <3>1
    <3> QED
      BY <1>1, <2>2, <3>1, <3>2
  <2> QED
    BY <2>1, <2>2
<1>6. IsClimb(W, q, leaf, siblings, n)
  BY <1>4, <1>5 DEF IsClimb
<1>7. ASSUME NEW hash, IsClimb(hash, q, leaf, siblings, n) PROVE hash = W
  <2>1. \A l \in 0..n : hash[l] = IF l = 0 THEN HashSlice(leaf)
                                  ELSE Parent(Node(q, l - 1), hash[l - 1], siblings[l])
    BY <1>7 DEF IsClimb
  <2> DEFINE T == {l \in 0..n : hash[l] = W[l]}
  <2>2. 0 \in T
    <3>1. 0 \in 0..n
      BY <1>0
    <3> QED
      BY <1>5, <2>1, <3>1
  <2>3. ASSUME NEW l \in 1..n, l - 1 \in T PROVE l \in T
    <3>1. l \in 0..n /\ l # 0 /\ hash[l - 1] = W[l - 1]
      BY <1>0, <2>3
    <3>2. hash[l] = Parent(Node(q, l - 1), hash[l - 1], siblings[l])
      BY <2>1, <3>1
    <3>3. W[l] = Parent(Node(q, l - 1), W[l - 1], siblings[l])
      BY <1>5, <3>1
    <3> QED
      BY <3>1, <3>2, <3>3
  <2> HIDE DEF T
  <2>4. \A l \in 0..n : l \in T
    BY <1>0, <2>2, <2>3, UpTo
  <2>5. \A l \in 0..n : hash[l] = W[l]
    BY <2>4 DEF T
  <2>6. hash = [l \in 0..n |-> hash[l]]
    BY <1>7 DEF IsClimb
  <2> HIDE DEF T
  <2> QED
    BY <1>4, <2>5, <2>6
<1> QED
  BY <1>6, <1>7 DEF W

(* The siblings of a leaf in the tree verify it, against the root and at its own index. *)
LEMMA OpeningVerifies ==
    ASSUME NEW D, IsTree(D), NEW q \in LeafIndices, NEW leaf, D[0][q] = HashSlice(leaf)
    PROVE  MerkleVerify(Root(D), q, leaf, OpenSiblings(D, q))
<1> DEFINE siblings == OpenSiblings(D, q)
<1>0. Height \in Nat /\ Height \in 0..Height
  BY LevelIs
<1>1. Len(siblings) = Height
  BY <1>0 DEF OpenSiblings
<1>2. \A l \in 1..Height : siblings[l] = D[l - 1][Sibling(Node(q, l - 1))]
  BY DEF OpenSiblings, Node
<1> HIDE DEF siblings
<1>3. /\ IsClimb(Way(D, q, Height), q, leaf, siblings, Height)
      /\ \A hash : IsClimb(hash, q, leaf, siblings, Height) => hash = Way(D, q, Height)
  BY <1>0, <1>2, ClimbIsTheWay
<1> DEFINE hash == CHOOSE f : IsClimb(f, q, leaf, siblings, Height)
<1>4. hash = Way(D, q, Height)
  <2>1. IsClimb(hash, q, leaf, siblings, Height)
    BY <1>3
  <2> QED
    BY <1>3, <2>1
<1>5. MerkleVerify(Root(D), q, leaf, siblings) <=> Root(D) = hash[Height]
  BY <1>1 DEF MerkleVerify, IsClimb, Node
<1> HIDE DEF hash
<1>6. Node(q, Height) = 0
  BY <1>0, NodeInLevel, LevelIs
<1>7. hash[Height] = Root(D)
  BY <1>0, <1>4, <1>6 DEF Way, Root
<1> QED
  BY <1>5, <1>7 DEF siblings

-----------------------------------------------------------------------------
(* The digest of a leaf. *)

(* The states of the sponge over the chunks, from the last of them. *)
IsAbsorb(st, initial, chunks, n, m) ==
    st = [k \in 0..m |-> IF k = 0 THEN initial ELSE Compress(st[k - 1], chunks[n + 1 - k])]

(* The states exist, up to any number of chunks. *)
LEMMA AbsorbExists ==
    ASSUME NEW initial, NEW chunks, NEW n \in Nat
    PROVE  \E st : IsAbsorb(st, initial, chunks, n, n)
<1> DEFINE T == {m \in Nat : \E st : IsAbsorb(st, initial, chunks, n, m)}
<1>1. 0 \in T
  <2>1. IsAbsorb([k \in 0..0 |-> initial], initial, chunks, n, 0)
    BY DEF IsAbsorb
  <2> QED
    BY <2>1
<1>2. ASSUME NEW m \in 1..n, m - 1 \in T PROVE m \in T
  <2>1. PICK st : IsAbsorb(st, initial, chunks, n, m - 1)
    BY <1>2
  <2> DEFINE last == Compress(st[m - 1], chunks[n + 1 - m])
             more == [k \in 0..m |-> IF k = m THEN last ELSE st[k]]
  <2>2. \A k \in 0..m - 1 : st[k] = IF k = 0 THEN initial ELSE Compress(st[k - 1], chunks[n + 1 - k])
    BY <2>1 DEF IsAbsorb
  <2>3. ASSUME NEW k \in 0..m
        PROVE  more[k] = IF k = 0 THEN initial ELSE Compress(more[k - 1], chunks[n + 1 - k])
    <3> HIDE DEF last
    <3>1. k # 0 => more[k - 1] = st[k - 1]
      OBVIOUS
    <3>2. CASE k = m
      <4>1. more[k - 1] = st[m - 1] /\ more[k] = last
        BY <3>1, <3>2
      <4> QED
        BY <3>2, <4>1 DEF last
    <3>3. CASE k # m
      <4>1. k \in 0..m - 1 /\ more[k] = st[k]
        BY <3>3
      <4> QED
        BY <2>2, <3>1, <4>1
    <3> QED
      BY <3>2, <3>3
  <2> HIDE DEF last
  <2>4. more = [k \in 0..m |-> more[k]]
    OBVIOUS
  <2> HIDE DEF more
  <2>5. IsAbsorb(more, initial, chunks, n, m)
    BY <2>3, <2>4 DEF IsAbsorb
  <2> QED
    BY <2>5
<1> HIDE DEF T
<1>3. \A m \in 0..n : m \in T
  BY <1>1, <1>2, UpTo
<1>4. n \in T
  BY <1>3
<1> QED
  BY <1>4 DEF T

(* States that follow one another. *)
Absorbs(st, initial, chunks, n) ==
    st[0] = initial /\ \A k \in 1..n : st[k] = Compress(st[k - 1], chunks[n + 1 - k])

(* What the sponge returns is the last of any states that follow one another. *)
LEMMA AbsorbIs ==
    ASSUME NEW initial, NEW chunks, NEW n \in Nat, Len(chunks) = n, NEW st,
           Absorbs(st, initial, chunks, n)
    PROVE  AbsorbRtl(initial, chunks) = st[n]
<1>0. st[0] = initial /\ \A k \in 1..n : st[k] = Compress(st[k - 1], chunks[n + 1 - k])
  BY DEF Absorbs
<1> DEFINE state == CHOOSE f : IsAbsorb(f, initial, chunks, n, n)
<1>1. AbsorbRtl(initial, chunks) = state[n]
  BY DEF AbsorbRtl, IsAbsorb
<1>2. IsAbsorb(state, initial, chunks, n, n)
  BY AbsorbExists
<1> HIDE DEF state
<1>3. \A k \in 0..n : state[k] = IF k = 0 THEN initial ELSE Compress(state[k - 1], chunks[n + 1 - k])
  BY <1>2 DEF IsAbsorb
<1> DEFINE T == {k \in 0..n : state[k] = st[k]}
<1>4. 0 \in T
  <2>1. 0 \in 0..n
    OBVIOUS
  <2> QED
    BY <1>0, <1>3, <2>1
<1>5. ASSUME NEW k \in 1..n, k - 1 \in T PROVE k \in T
  <2>1. k \in 0..n /\ k # 0 /\ state[k - 1] = st[k - 1]
    BY <1>5
  <2>2. state[k] = Compress(state[k - 1], chunks[n + 1 - k])
    BY <1>3, <2>1
  <2> QED
    BY <1>0, <2>1, <2>2
<1> HIDE DEF T
<1>6. \A k \in 0..n : k \in T
  BY <1>4, <1>5, UpTo
<1>7. n \in T
  BY <1>6
<1> QED
  BY <1>1, <1>7 DEF T

(* The same, of states that are known to exist. *)
LEMMA AbsorbStates ==
    ASSUME NEW initial, NEW chunks, NEW n \in Nat
    PROVE  \E st : Absorbs(st, initial, chunks, n)
<1>1. PICK st : IsAbsorb(st, initial, chunks, n, n)
  BY AbsorbExists
<1>2. \A k \in 0..n : st[k] = IF k = 0 THEN initial ELSE Compress(st[k - 1], chunks[n + 1 - k])
  BY <1>1 DEF IsAbsorb
<1>3. st[0] = initial
  <2>1. 0 \in 0..n
    OBVIOUS
  <2> QED
    BY <1>2, <2>1
<1>4. ASSUME NEW k \in 1..n PROVE st[k] = Compress(st[k - 1], chunks[n + 1 - k])
  <2>1. k \in 0..n /\ k # 0
    OBVIOUS
  <2> QED
    BY <1>2, <2>1
<1> QED
  BY <1>3, <1>4 DEF Absorbs

(* The data of chunk k. *)
Block(data, k) == SubSeq(data, (k - 1) * Rate + 1, k * Rate)

(* The chunks of whole chunks. *)
LEMMA ChunksAre ==
    ASSUME NEW data, NEW n \in Nat, Len(data) = n * Rate
    PROVE  /\ Len(Chunks(data)) = n
           /\ \A k \in 1..n : Chunks(data)[k] = <<"chunk", Block(data, k)>>
<1>1. (n * Rate + 0) \div Rate = n
  <2>1. Rate \in Nat \ {0} /\ 0 \in 0..Rate - 1
    BY TreeAssumption
  <2> QED
    BY <2>1, Quotient
<1>2. n * Rate + 0 = n * Rate
  BY TreeAssumption
<1>3. Len(data) \div Rate = n
  BY <1>1, <1>2
<1>4. Chunks(data) = [k \in 1..n |-> <<"chunk", Block(data, k)>>]
  BY <1>3 DEF Chunks, Block
<1>5. Len(Chunks(data)) = n
  BY <1>4
<1> QED
  BY <1>4, <1>5

(* Position i of chunk k. *)
LEMMA InChunk ==
    ASSUME NEW k \in Nat \ {0}, NEW n \in Nat, k <= n
    PROVE  /\ (k - 1) * Rate \in Nat /\ k * Rate = (k - 1) * Rate + Rate
           /\ k * Rate \in Nat /\ n * Rate \in Nat /\ k * Rate <= n * Rate
<1>0. Rate \in Nat \ {0}
  BY TreeAssumption
<1>1. (k - 1) * Rate \in Nat
  <2>1. k - 1 \in Nat /\ Rate \in Nat /\ k - 1 <= k - 1
    BY <1>0
  <2> QED
    BY <2>1, Multiples
<1>2. k * Rate = (k - 1) * Rate + Rate
  BY <1>0
<1>3. n * Rate \in Nat /\ k * Rate <= n * Rate
  <2>1. n \in Nat /\ k \in Nat /\ Rate \in Nat
    BY <1>0
  <2> QED
    BY <2>1, Multiples
<1> QED
  BY <1>0, <1>1, <1>2, <1>3

(* n positions of a sequence, after the first `from`. *)
Part(s, from, n) == [i \in 1..n |-> s[i + (from + 1) - 1]]

LEMMA PartIs ==
    ASSUME NEW s, NEW from \in Nat, NEW n \in Nat
    PROVE  SubSeq(s, from + 1, from + n) = Part(s, from, n)
<1>1. from + 1 \in Nat /\ from + n \in Nat /\ 1 + (from + n) - (from + 1) = n
  OBVIOUS
<1>2. SubSeq(s, from + 1, from + n) = [i \in 1..(1 + (from + n) - (from + 1)) |-> s[i + (from + 1) - 1]]
  BY <1>1
<1> QED
  BY <1>1, <1>2 DEF Part

Agree(a, b, n) == \A i \in 1..n : a[i] = b[i]

(* Data that agree up to n chunks have the same first n chunks. *)
LEMMA SameChunks ==
    ASSUME NEW a, NEW b, NEW k \in Nat \ {0}, NEW n \in Nat, k <= n, Agree(a, b, n * Rate)
    PROVE  Block(a, k) = Block(b, k)
<1> DEFINE from == (k - 1) * Rate
           to == k * Rate
           all == n * Rate
<1>1. from \in Nat /\ to = from + Rate /\ to <= all /\ all \in Nat /\ Rate \in Nat \ {0}
  BY InChunk, TreeAssumption
<1>2. \A i \in 1..all : a[i] = b[i]
  BY DEF Agree
<1> HIDE DEF from, to, all
<1>3. \A i \in 1..Rate : a[i + (from + 1) - 1] = b[i + (from + 1) - 1]
  BY <1>1, <1>2
<1>4. /\ SubSeq(a, from + 1, to) = Part(a, from, Rate)
      /\ SubSeq(b, from + 1, to) = Part(b, from, Rate)
  <2>1. from \in Nat /\ Rate \in Nat
    BY <1>1
  <2>2. SubSeq(a, from + 1, from + Rate) = Part(a, from, Rate)
    BY <2>1, PartIs
  <2>3. SubSeq(b, from + 1, from + Rate) = Part(b, from, Rate)
    BY <2>1, PartIs
  <2> QED
    BY <1>1, <2>2, <2>3
<1>5. SubSeq(a, from + 1, to) = SubSeq(b, from + 1, to)
  BY <1>3, <1>4 DEF Part
<1> QED
  BY <1>5 DEF from, to, Block

(* A chunk of zeros. *)
LEMMA ChunkOfZeros ==
    ASSUME NEW a, NEW k \in Nat \ {0}, \A i \in (k - 1) * Rate + 1..k * Rate : a[i] = 0
    PROVE  Block(a, k) = Zeros(Rate)
<1> DEFINE from == (k - 1) * Rate
           to == k * Rate
<1>1. from \in Nat /\ to = from + Rate /\ Rate \in Nat \ {0}
  BY InChunk, TreeAssumption
<1>2. \A i \in from + 1..to : a[i] = 0
  OBVIOUS
<1> HIDE DEF from, to
<1>3. \A i \in 1..Rate : a[i + (from + 1) - 1] = 0
  BY <1>1, <1>2
<1>4. SubSeq(a, from + 1, to) = Part(a, from, Rate)
  <2>1. from \in Nat /\ Rate \in Nat
    BY <1>1
  <2>2. SubSeq(a, from + 1, from + Rate) = Part(a, from, Rate)
    BY <2>1, PartIs
  <2> QED
    BY <1>1, <2>2
<1>5. SubSeq(a, from + 1, to) = Zeros(Rate)
  BY <1>3, <1>4 DEF Zeros, Part
<1> QED
  BY <1>5 DEF from, to, Block

(* The width of the matrix in whole chunks: the effective columns, completed, and zeros. *)
LEMMA WidthIs ==
    ASSUME NEW effective \in Nat, NEW full \in Nat, full % Rate = 0, effective <= full
    PROVE  \E n, m \in Nat : /\ full = n * Rate /\ m <= n
                             /\ effective + Padding(effective) = m * Rate
                             /\ (full - effective) \div Rate = n - m
                             /\ Padding(effective) \in Nat
<1>0. Rate \in Nat \ {0}
  BY TreeAssumption
<1> DEFINE n == full \div Rate
           q == effective \div Rate
           r == effective % Rate
<1>1. n \in Nat /\ full = n * Rate
  BY <1>0, SMTT(30)
<1>2. q \in Nat /\ r \in 0..Rate - 1 /\ effective = q * Rate + r
  BY <1>0, SMTT(30)
<1>3. Padding(effective) = (Rate - r) % Rate
  BY DEF Padding
<1> HIDE DEF n, q, r
<1>4. q <= n /\ (r # 0 => q + 1 <= n)
  <2>1. q <= n
    <3> SUFFICES ASSUME n + 1 <= q PROVE FALSE
      BY <1>1, <1>2
    <3>1. (n + 1) * Rate <= q * Rate
      BY <1>0, <1>1, <1>2, Multiples
    <3>2. (n + 1) * Rate = n * Rate + Rate /\ n * Rate \in Nat /\ q * Rate \in Nat
      BY <1>0, <1>1, <1>2
    <3> QED
      BY <1>0, <1>1, <1>2, <3>1, <3>2
  <2>2. ASSUME r # 0 PROVE q # n
    <3> SUFFICES ASSUME q = n PROVE FALSE
      OBVIOUS
    <3>1. effective = full + r
      BY <1>1, <1>2
    <3> QED
      BY <1>2, <2>2, <3>1
  <2> QED
    BY <1>1, <1>2, <2>1, <2>2
<1>5. CASE r = 0
  <2>1. Padding(effective) = 0
    BY <1>0, <1>3, <1>5, SMTT(30)
  <2>2. effective = q * Rate
    BY <1>0, <1>2, <1>5
  <2>3. n - q \in Nat /\ full - effective = (n - q) * Rate + 0
    BY <1>0, <1>1, <1>2, <1>4, <2>2, SMTT(30)
  <2>4. ((n - q) * Rate + 0) \div Rate = n - q
    <3>1. 0 \in 0..Rate - 1
      BY <1>0
    <3> QED
      BY <1>0, <2>3, <3>1, Quotient
  <2>5. (full - effective) \div Rate = n - q
    BY <2>3, <2>4
  <2> QED
    BY <1>1, <1>2, <1>4, <2>1, <2>2, <2>5
<1>6. CASE r # 0
  <2> DEFINE m == q + 1
  <2>1. Padding(effective) = Rate - r /\ Rate - r \in 0..Rate - 1
    BY <1>0, <1>2, <1>3, <1>6, SMTT(30)
  <2>2. m \in Nat /\ m <= n /\ m * Rate = q * Rate + Rate
    BY <1>0, <1>2, <1>4, <1>6
  <2>3. q * Rate \in Nat
    BY <1>0, <1>2
  <2> HIDE DEF m
  <2>4. effective + Padding(effective) = m * Rate /\ Padding(effective) \in Nat
    BY <1>0, <1>2, <2>1, <2>2, <2>3
  <2>5. n - m \in Nat /\ full - effective = (n - m) * Rate + (Rate - r)
    <3>1. (n - m) * Rate = n * Rate - m * Rate
      BY <1>0, <1>1, <2>2, SMTT(30)
    <3>2. n * Rate \in Nat /\ m * Rate \in Nat
      BY <1>0, <1>1, <2>2
    <3> QED
      BY <1>0, <1>1, <1>2, <2>2, <2>3, <3>1, <3>2
  <2>6. ((n - m) * Rate + (Rate - r)) \div Rate = n - m
    BY <1>0, <2>1, <2>5, Quotient
  <2>7. (full - effective) \div Rate = n - m
    BY <2>5, <2>6
  <2> QED
    BY <1>1, <2>2, <2>4, <2>7
<1> QED
  BY <1>5, <1>6

(* A function on the first numbers is a sequence. *)
LEMMA SequenceIs ==
    ASSUME NEW s, NEW n \in Nat, s = [i \in 1..n |-> s[i]]
    PROVE  s \in Seq(ToSet(s)) /\ Len(s) = n /\ DOMAIN s = 1..n
BY DEF ToSet

(* A row completed with zeros. *)
Completed(row, n) == [i \in 1..Len(row) + n |-> IF i <= Len(row) THEN row[i] ELSE 0]

LEMMA CompletedIs ==
    ASSUME NEW row, row \in Seq(ToSet(row)), NEW n \in Nat
    PROVE  row \o Zeros(n) = Completed(row, n) /\ Len(row) \in Nat
<1> DEFINE S == ToSet(row) \cup {0}
<1>1. row \in Seq(ToSet(row)) /\ ToSet(row) \subseteq S
  OBVIOUS
<1>2. Zeros(n) \in Seq(S) /\ Len(Zeros(n)) = n /\ \A i \in 1..n : Zeros(n)[i] = 0
  BY DEF Zeros
<1> HIDE DEF S
<1>3. row \in Seq(S)
  BY <1>1
<1> DEFINE z == Zeros(n)
           both == row \o z
<1> HIDE DEF z
<1>4. both \in Seq(S) /\ Len(both) = Len(row) + Len(z) /\ Len(row) \in Nat
  BY <1>2, <1>3 DEF z
<1>5. \A i \in 1..Len(row) + Len(z) : both[i] = IF i <= Len(row) THEN row[i] ELSE z[i - Len(row)]
  BY <1>2, <1>3 DEF z
<1>6. Len(z) = n /\ \A i \in 1..n : z[i] = 0
  BY <1>2 DEF z
<1>7. \A i \in 1..Len(row) + n : both[i] = IF i <= Len(row) THEN row[i] ELSE 0
  BY <1>4, <1>5, <1>6
<1> HIDE DEF both
<1>8. both = [i \in 1..Len(row) + n |-> both[i]]
  BY <1>4, <1>6
<1>9. both = Completed(row, n)
  BY <1>7, <1>8 DEF Completed
<1> QED
  BY <1>4, <1>9 DEF both, z

(* The digest of a leaf without its zero columns is the digest of the whole leaf. *)
LEMMA LeafDigestIs ==
    ASSUME NEW row, row \in Seq(ToSet(row)), NEW effective \in Nat, NEW full \in Nat,
           full % Rate = 0, effective <= Len(row), Len(row) <= full,
           \A k \in effective + 1..Len(row) : row[k] = 0
    PROVE  LeafDigest(row, effective, full) = HashSlice(row \o Zeros(full - Len(row)))
<1> DEFINE suffix == (full - effective) \div Rate
           data == row \o Zeros(full - Len(row))
           short == SubSeq(row, 1, effective) \o Zeros(Padding(effective))
<1>0. Rate \in Nat \ {0} /\ Len(row) \in Nat
  BY TreeAssumption
<1>1. PICK n, m \in Nat : /\ full = n * Rate /\ m <= n
                          /\ effective + Padding(effective) = m * Rate
                          /\ suffix = n - m
                          /\ Padding(effective) \in Nat
  <2>1. effective <= full
    BY <1>0
  <2> QED
    BY <2>1, WidthIs
<1> HIDE DEF suffix
<1>2. /\ Len(data) = n * Rate
      /\ \A i \in 1..n * Rate : data[i] = IF i <= Len(row) THEN row[i] ELSE 0
  <2>1. full - Len(row) \in Nat /\ Len(row) + (full - Len(row)) = full
    BY <1>0
  <2>2. data = Completed(row, full - Len(row))
    BY <2>1, CompletedIs, Zenon
  <2> HIDE DEF data
  <2>3. data = [i \in 1..full |-> IF i <= Len(row) THEN row[i] ELSE 0]
    BY <2>1, <2>2 DEF Completed
  <2>4. Len(data) = full /\ \A i \in 1..full : data[i] = IF i <= Len(row) THEN row[i] ELSE 0
    BY <2>3
  <2> QED
    BY <1>1, <2>4
<1>3. \A i \in 1..n * Rate : data[i] = IF i <= effective THEN row[i] ELSE 0
  BY <1>0, <1>1, <1>2
<1>4. /\ Len(short) = m * Rate
      /\ \A i \in 1..m * Rate : short[i] = IF i <= effective THEN row[i] ELSE 0
  <2> DEFINE head == SubSeq(row, 1, effective)
             p == Padding(effective)
  <2>1. head = [i \in 1..effective |-> row[i]]
    BY <1>0
  <2>2. p \in Nat /\ effective + p = m * Rate
    BY <1>1
  <2> HIDE DEF head, p
  <2>3. head \in Seq(ToSet(head)) /\ Len(head) = effective /\ \A i \in 1..effective : head[i] = row[i]
    <3>1. head = [i \in 1..effective |-> head[i]]
      BY <2>1
    <3> QED
      BY <2>1, <3>1, SequenceIs
  <2> DEFINE both == head \o Zeros(p)
  <2>4. both = Completed(head, p)
    BY <2>2, <2>3, CompletedIs, Zenon
  <2> HIDE DEF both
  <2>5. both = [i \in 1..effective + p |-> IF i <= effective THEN head[i] ELSE 0]
    BY <2>3, <2>4 DEF Completed
  <2>6. \A i \in 1..effective + p : both[i] = IF i <= effective THEN row[i] ELSE 0
    BY <2>2, <2>3, <2>5
  <2>7. Len(both) = effective + p
    BY <2>2, <2>5
  <2> QED
    BY <2>2, <2>6, <2>7 DEF both, head, p
<1> HIDE DEF data, short
<1>5. CASE suffix >= 2
  <2> DEFINE c == Chunks(data)
             d == Chunks(short)
             seed == Compress(ZeroChunk, ZeroChunk)
             firsts == SubSeq(c, 1, n - 2)
             zeros == [k \in 1..suffix - 2 |-> ZeroChunk]
  <2>0. n - 2 \in Nat /\ suffix - 2 \in Nat /\ m + 2 <= n /\ suffix = n - m
    BY <1>1, <1>5
  <2>1. /\ Len(c) = n
        /\ \A k \in 1..n : c[k] = <<"chunk", Block(data, k)>>
    BY <1>2, ChunksAre
  <2>2. /\ Len(d) = m
        /\ \A k \in 1..m : d[k] = <<"chunk", Block(short, k)>>
    BY <1>4, ChunksAre
  <2>3. \A k \in 1..m : d[k] = c[k]
    <3>1. m * Rate <= n * Rate /\ m * Rate \in Nat /\ n * Rate \in Nat
      BY <1>0, <1>1, Multiples
    <3>2. Agree(short, data, m * Rate)
      BY <1>3, <1>4, <3>1 DEF Agree
    <3>3. ASSUME NEW k \in 1..m PROVE d[k] = c[k]
      <4>1. k \in Nat \ {0} /\ k <= m /\ k \in 1..n
        BY <1>1
      <4>2. Block(short, k) = Block(data, k)
        BY <3>2, <4>1, SameChunks
      <4> QED
        BY <2>1, <2>2, <4>1, <4>2
    <3> QED
      BY <3>3
  <2>4. \A k \in m + 1..n : c[k] = ZeroChunk
    <3>1. ASSUME NEW k \in m + 1..n PROVE c[k] = ZeroChunk
      <4>1. k \in Nat \ {0} /\ k <= n /\ k \in 1..n /\ k - 1 \in Nat /\ m <= k - 1
        BY <1>1
      <4>2. /\ (k - 1) * Rate \in Nat /\ k * Rate \in Nat /\ n * Rate \in Nat
            /\ k * Rate <= n * Rate /\ m * Rate <= (k - 1) * Rate /\ m * Rate \in Nat
        BY <1>0, <4>1, InChunk, Multiples
      <4>3. effective <= m * Rate
        BY <1>1
      <4>4. \A i \in (k - 1) * Rate + 1..k * Rate : data[i] = 0
        BY <1>3, <4>2, <4>3
      <4>5. Block(data, k) = Zeros(Rate)
        BY <4>1, <4>4, ChunkOfZeros
      <4> QED
        BY <2>1, <4>1, <4>5 DEF ZeroChunk
    <3> QED
      BY <3>1
  <2> HIDE DEF c, d
  <2>5. Len(firsts) = n - 2 /\ \A k \in 1..n - 2 : firsts[k] = c[k]
    <3>1. firsts = [k \in 1..n - 2 |-> c[k]]
      BY <2>0
    <3> HIDE DEF firsts
    <3> QED
      BY <2>0, <3>1
  <2> HIDE DEF firsts
  <2> HIDE DEF seed
  <2>st. PICK st : Absorbs(st, seed, firsts, n - 2)
    BY <2>0, AbsorbStates
  <2>6. st[0] = seed /\ \A k \in 1..n - 2 : st[k] = Compress(st[k - 1], firsts[(n - 2) + 1 - k])
    BY <2>st DEF Absorbs
  <2>7. HashSlice(data) = st[n - 2]
    <3>1. c[n - 1] = ZeroChunk /\ c[n] = ZeroChunk
      BY <2>0, <2>4
    <3>2. AbsorbRtl(seed, firsts) = st[n - 2]
      BY <2>0, <2>5, <2>st, AbsorbIs
    <3>3. HashSlice(data) = AbsorbRtl(Compress(c[n - 1], c[n]), firsts)
      BY <2>1 DEF HashSlice, c, firsts
    <3> QED
      BY <3>1, <3>2, <3>3 DEF seed
  <2>8. PrecomputeZeroSuffixState(suffix) = st[suffix - 2]
    <3>1. Len(zeros) = suffix - 2
      BY <2>0
    <3>2. ASSUME NEW k \in 1..suffix - 2
          PROVE  st[k] = Compress(st[k - 1], zeros[(suffix - 2) + 1 - k])
      <4>1. k \in 1..n - 2 /\ (n - 2) + 1 - k \in 1..n - 2 /\ (n - 2) + 1 - k \in m + 1..n
        BY <2>0
      <4>2. firsts[(n - 2) + 1 - k] = ZeroChunk
        BY <2>4, <2>5, <4>1
      <4>3. zeros[(suffix - 2) + 1 - k] = ZeroChunk
        BY <2>0
      <4> QED
        BY <2>6, <4>1, <4>2, <4>3
    <3> HIDE DEF zeros
    <3>3. Absorbs(st, seed, zeros, suffix - 2)
      BY <2>6, <3>2 DEF Absorbs
    <3>4. AbsorbRtl(seed, zeros) = st[suffix - 2]
      BY <2>0, <3>1, <3>3, AbsorbIs
    <3> QED
      BY <3>4 DEF PrecomputeZeroSuffixState, seed, zeros
  <2>9. AbsorbRtl(st[suffix - 2], d) = st[n - 2]
    <3> DEFINE rest == [k \in 0..m |-> st[(suffix - 2) + k]]
    <3>1. rest[0] = st[suffix - 2] /\ rest[m] = st[n - 2]
      <4>1. 0 \in 0..m /\ m \in 0..m /\ (suffix - 2) + 0 = suffix - 2 /\ (suffix - 2) + m = n - 2
        BY <2>0
      <4> QED
        BY <4>1
    <3>2. ASSUME NEW k \in 1..m PROVE rest[k] = Compress(rest[k - 1], d[m + 1 - k])
      <4> DEFINE j == (suffix - 2) + k
      <4>1. /\ j \in 1..n - 2 /\ j - 1 = (suffix - 2) + (k - 1) /\ k \in 0..m /\ k - 1 \in 0..m
            /\ (n - 2) + 1 - j = m + 1 - k /\ m + 1 - k \in 1..m /\ m + 1 - k \in 1..n - 2
        BY <2>0
      <4>2. rest[k] = st[j] /\ rest[k - 1] = st[j - 1]
        BY <4>1
      <4> HIDE DEF j, rest
      <4>3. st[j] = Compress(st[j - 1], firsts[m + 1 - k])
        BY <2>6, <4>1
      <4>4. firsts[m + 1 - k] = d[m + 1 - k]
        BY <2>3, <2>5, <4>1
      <4> QED
        BY <4>2, <4>3, <4>4
    <3> HIDE DEF rest
    <3> DEFINE middle == st[suffix - 2]
    <3> HIDE DEF middle
    <3>3. Absorbs(rest, middle, d, m)
      BY <3>1, <3>2 DEF Absorbs, middle
    <3>4. AbsorbRtl(middle, d) = rest[m]
      BY <2>2, <3>3, AbsorbIs
    <3> QED
      BY <3>1, <3>4 DEF middle
  <2>10. LeafDigest(row, effective, full) = AbsorbRtl(PrecomputeZeroSuffixState(suffix), d)
    BY <1>5 DEF LeafDigest, suffix, d, short
  <2> QED
    BY <2>7, <2>8, <2>9, <2>10 DEF data
<1>6. CASE ~(suffix >= 2)
  BY <1>6 DEF LeafDigest, suffix, data
<1> QED
  BY <1>5, <1>6 DEF data

-----------------------------------------------------------------------------
(* The ancestors that two leaves share. *)

(* Two leaves meet at their lowest common ancestor, and not below. *)
LEMMA LcaIs ==
    ASSUME NEW a \in LeafIndices, NEW b \in LeafIndices
    PROVE  /\ LcaLevel(a, b) \in 0..Height
           /\ Node(a, LcaLevel(a, b)) = Node(b, LcaLevel(a, b))
           /\ \A l \in 0..LcaLevel(a, b) - 1 : Node(a, l) # Node(b, l)
<1> DEFINE Met == {l \in 0..Height : Node(a, l) = Node(b, l)}
<1>0. Height \in Nat /\ Height \in 0..Height
  BY LevelIs
<1>1. Height \in Met
  <2>1. Node(a, Height) \in {0} /\ Node(b, Height) \in {0}
    BY <1>0, NodeInLevel, LevelIs
  <2> QED
    BY <1>0, <2>1
<1>2. Met \subseteq 0..Height /\ Met \in SUBSET Nat
  BY <1>0
<1>3. \E x \in Met : \A y \in Met : x <= y
  BY <1>1, <1>2, Least
<1>4. LcaLevel(a, b) = CHOOSE x \in Met : \A y \in Met : x <= y
  BY DEF LcaLevel, Min, Node
<1> DEFINE m == LcaLevel(a, b)
<1>5. m \in Met /\ \A y \in Met : m <= y
  BY <1>3, <1>4
<1> HIDE DEF m
<1>6. m \in 0..Height /\ Node(a, m) = Node(b, m)
  BY <1>5
<1>7. ASSUME NEW l \in 0..m - 1, Node(a, l) = Node(b, l) PROVE FALSE
  <2>1. l \in 0..Height /\ ~(m <= l)
    BY <1>0, <1>6
  <2> QED
    BY <1>5, <1>7, <2>1
<1> QED
  BY <1>6, <1>7 DEF m

(* Just below it, the one on the right is under the sibling of the one on the left. *)
LEMMA NeighboursAreSiblings ==
    ASSUME NEW a \in LeafIndices, NEW b \in LeafIndices, a < b
    PROVE  /\ LcaLevel(a, b) \in 1..Height
           /\ Node(b, LcaLevel(a, b) - 1) = Sibling(Node(a, LcaLevel(a, b) - 1))
<1> DEFINE m == LcaLevel(a, b)
<1>1. m \in 0..Height /\ Node(a, m) = Node(b, m) /\ \A l \in 0..m - 1 : Node(a, l) # Node(b, l)
  BY LcaIs
<1> HIDE DEF m
<1>2. a \in Nat /\ b \in Nat /\ Height \in Nat
  BY NodeInLevel, LevelIs
<1>3. m # 0
  <2>1. Node(a, 0) = a /\ Node(b, 0) = b
    BY <1>2, NodeIs
  <2> QED
    BY <1>1, <1>2, <2>1
<1> DEFINE l == m - 1
           x == Node(a, l)
           y == Node(b, l)
<1>4. l \in Nat /\ l \in 0..m - 1 /\ l + 1 = m /\ l \in 0..Height - 1 /\ m \in 1..Height
  BY <1>1, <1>2, <1>3
<1> HIDE DEF l
<1>5. x \in Nat /\ y \in Nat /\ x \div 2 = y \div 2
  <2>1. x \in Nat /\ Node(a, l + 1) = x \div 2 /\ y \in Nat /\ Node(b, l + 1) = y \div 2
    BY <1>2, <1>4, NodeIs
  <2>2. Node(a, l + 1) = Node(b, l + 1)
    BY <1>1, <1>4
  <2> HIDE DEF x, y
  <2> QED
    BY <2>1, <2>2
<1>6. x # y /\ x <= y
  <2>1. a <= b
    BY <1>2
  <2> QED
    BY <1>1, <1>2, <1>4, <2>1, NodesGrow
<1> HIDE DEF x, y
<1>7. y = Sibling(x)
  BY <1>5, <1>6 DEF Sibling
<1> QED
  BY <1>4, <1>7 DEF m, l, x, y

-----------------------------------------------------------------------------
(* What restore computes. *)

(* Distinct leaves from left to right. *)
LeftToRight(s, n) ==
    /\ n \in Nat /\ Len(s) = n
    /\ \A i \in 1..n : s[i] \in LeafIndices
    /\ \A i, j \in 1..n : i < j => s[i] < s[j]

(* The levels of a path whose siblings are not those of the path on the left, and the one of them that
   the path on the right gives. *)
LEMMA LevelsAre ==
    ASSUME NEW s, NEW n, LeftToRight(s, n), NEW i \in 1..n
    PROVE  /\ Levels(s, Height, i) \in 0..Height
           /\ \A l \in Nat : l >= Levels(s, Height, i) /\ l < Height
                                => /\ i - 1 \in 1..n
                                   /\ Node(s[i - 1], l) = Node(s[i], l)
           /\ \A l \in Nat : Skips(s, i, l) => /\ i + 1 \in 1..n
                                               /\ l \in 0..Levels(s, Height, i + 1) - 1
                                               /\ Node(s[i + 1], l) = Sibling(Node(s[i], l))
<1>0. /\ n \in Nat /\ Len(s) = n /\ Height \in Nat
      /\ \A k \in 1..n : s[k] \in LeafIndices /\ s[k] \in Nat
      /\ \A j, k \in 1..n : j < k => s[j] < s[k]
  BY NodeInLevel, LevelIs DEF LeftToRight
<1>1. i # 1 => /\ i - 1 \in 1..n
               /\ Levels(s, Height, i) = LcaLevel(s[i - 1], s[i])
               /\ Levels(s, Height, i) \in 0..Height
               /\ Node(s[i - 1], Levels(s, Height, i)) = Node(s[i], Levels(s, Height, i))
  <2> SUFFICES ASSUME i # 1 PROVE /\ i - 1 \in 1..n
                                  /\ Levels(s, Height, i) = LcaLevel(s[i - 1], s[i])
                                  /\ Levels(s, Height, i) \in 0..Height
                                  /\ Node(s[i - 1], Levels(s, Height, i)) = Node(s[i], Levels(s, Height, i))
    OBVIOUS
  <2>1. i - 1 \in 1..n
    BY <1>0
  <2>2. Levels(s, Height, i) = LcaLevel(s[i - 1], s[i])
    BY DEF Levels
  <2> QED
    BY <1>0, <2>1, <2>2, LcaIs
<1>2. i = 1 => Levels(s, Height, i) = Height
  BY DEF Levels
<1>3. Levels(s, Height, i) \in 0..Height
  BY <1>0, <1>1, <1>2
<1>4. ASSUME NEW l \in Nat, l >= Levels(s, Height, i), l < Height
      PROVE  i - 1 \in 1..n /\ Node(s[i - 1], l) = Node(s[i], l)
  <2>1. i # 1
    BY <1>0, <1>2, <1>4
  <2> DEFINE m == Levels(s, Height, i)
  <2>2. m \in Nat /\ m <= l
    BY <1>0, <1>3, <1>4
  <2>3. i - 1 \in 1..n /\ Node(s[i - 1], m) = Node(s[i], m)
    BY <1>1, <2>1
  <2>4. s[i - 1] \in Nat /\ s[i] \in Nat
    BY <1>0, <2>3
  <2> HIDE DEF m
  <2> QED
    BY <2>2, <2>3, <2>4, NodesGrow
<1>5. ASSUME NEW l \in Nat, Skips(s, i, l)
      PROVE  /\ i + 1 \in 1..n
             /\ l \in 0..Levels(s, Height, i + 1) - 1
             /\ Node(s[i + 1], l) = Sibling(Node(s[i], l))
  <2>1. i < Len(s) /\ l = LcaLevel(s[i], s[i + 1]) - 1
    BY <1>5 DEF Skips
  <2>2. i + 1 \in 1..n /\ i < i + 1
    BY <1>0, <2>1
  <2>3. s[i] \in LeafIndices /\ s[i + 1] \in LeafIndices /\ s[i] < s[i + 1]
    BY <1>0, <2>2
  <2>4. Levels(s, Height, i + 1) = LcaLevel(s[i], s[i + 1])
    <3>1. i + 1 # 1 /\ (i + 1) - 1 = i
      BY <1>0
    <3> QED
      BY <3>1 DEF Levels
  <2>5. LcaLevel(s[i], s[i + 1]) \in 1..Height /\ Node(s[i + 1], l) = Sibling(Node(s[i], l))
    BY <2>1, <2>3, NeighboursAreSiblings
  <2> QED
    BY <1>0, <2>1, <2>2, <2>4, <2>5
<1> QED
  BY <1>3, <1>4, <1>5

(* A pruned proof of leaves of the tree: it stores the siblings that are not skipped. *)
ComesFrom(p, D, n) ==
    /\ p.merkleHeight = Height /\ LeftToRight(p.indices, n)
    /\ \A i \in 1..n : \A lvl \in Kept(p.indices, Height, i) :
          StoredSibling(p, i, lvl) = D[lvl][Sibling(Node(p.indices[i], lvl))]

(* The sibling that restore takes at a level: from the subtree on the right, or the next stored. *)
TakenSibling(p, subtree, i, lvl) ==
    IF Skips(p.indices, i, lvl) THEN subtree[i + 1][lvl] ELSE StoredSibling(p, i, lvl)

(* It is the sibling in the tree, when the subtree on the right is right. *)
LEMMA TakenSiblingIs ==
    ASSUME NEW D, NEW p, NEW n, ComesFrom(p, D, n), NEW i \in 1..n, NEW subtree,
           i + 1 \in 1..n => subtree[i + 1] = Way(D, p.indices[i + 1], Levels(p.indices, Height, i + 1)),
           NEW lvl \in 0..Levels(p.indices, Height, i) - 1
    PROVE  TakenSibling(p, subtree, i, lvl) = D[lvl][Sibling(Node(p.indices[i], lvl))]
<1> DEFINE s == p.indices
<1>0. LeftToRight(s, n) /\ \A k \in Kept(s, Height, i) : StoredSibling(p, i, k) = D[k][Sibling(Node(s[i], k))]
  BY DEF ComesFrom
<1> HIDE DEF s
<1>1. Levels(s, Height, i) \in 0..Height /\ Height \in Nat
  BY <1>0, LevelsAre, LevelIs
<1>2. lvl \in Nat /\ lvl \in 0..Levels(s, Height, i) - 1
  BY <1>1 DEF s
<1>3. CASE Skips(s, i, lvl)
  <2>1. /\ i + 1 \in 1..n /\ lvl \in 0..Levels(s, Height, i + 1) - 1
        /\ Node(s[i + 1], lvl) = Sibling(Node(s[i], lvl))
    BY <1>0, <1>2, <1>3, LevelsAre
  <2>2. Levels(s, Height, i + 1) \in 0..Height
    BY <1>0, <2>1, LevelsAre
  <2>3. lvl \in 0..Levels(s, Height, i + 1)
    BY <1>1, <2>1, <2>2
  <2>4. subtree[i + 1] = Way(D, s[i + 1], Levels(s, Height, i + 1))
    BY <2>1 DEF s
  <2>5. subtree[i + 1][lvl] = D[lvl][Node(s[i + 1], lvl)]
    BY <2>3, <2>4 DEF Way
  <2> QED
    BY <1>3, <2>1, <2>5 DEF TakenSibling, s
<1>4. CASE ~Skips(s, i, lvl)
  <2>1. lvl \in Kept(s, Height, i)
    BY <1>2, <1>4 DEF Kept
  <2> QED
    BY <1>0, <1>4, <2>1 DEF TakenSibling, s
<1> QED
  BY <1>3, <1>4

(* The backward pass, from the leaf on the right. *)
IsHash(hash, p, subtree, leaves, i) ==
    hash = [l \in 0..Levels(p.indices, p.merkleHeight, i) |->
              IF l = 0 THEN HashSlice(leaves[i])
              ELSE Parent(p.indices[i] \div 2^(l - 1), hash[l - 1],
                          IF Skips(p.indices, i, l - 1) THEN subtree[i + 1][l - 1]
                          ELSE StoredSibling(p, i, l - 1))]

HashOf(p, subtree, leaves, i) == CHOOSE hash : IsHash(hash, p, subtree, leaves, i)

IsSubtree(subtree, p, leaves) ==
    subtree = [i \in 1..Len(p.indices) |-> HashOf(p, subtree, leaves, i)]

(* One leaf's part of it. *)
LEMMA HashIsTheWay ==
    ASSUME NEW D, IsTree(D), NEW p, NEW n, ComesFrom(p, D, n), NEW i \in 1..n, NEW subtree, NEW leaves,
           D[0][p.indices[i]] = HashSlice(leaves[i]),
           i + 1 \in 1..n => subtree[i + 1] = Way(D, p.indices[i + 1], Levels(p.indices, Height, i + 1))
    PROVE  HashOf(p, subtree, leaves, i) = Way(D, p.indices[i], Levels(p.indices, Height, i))
<1> DEFINE m == Levels(p.indices, Height, i)
           q == p.indices[i]
           leaf == leaves[i]
           taken == [l \in 1..m |-> TakenSibling(p, subtree, i, l - 1)]
<1>0. p.merkleHeight = Height /\ LeftToRight(p.indices, n)
  BY DEF ComesFrom
<1>1. m \in 0..Height /\ q \in LeafIndices /\ D[0][q] = HashSlice(leaf)
  BY <1>0, LevelsAre DEF LeftToRight
<1>2. \A l \in 1..m : taken[l] = D[l - 1][Sibling(Node(q, l - 1))]
  <2>1. ASSUME NEW l \in 1..m PROVE taken[l] = D[l - 1][Sibling(Node(q, l - 1))]
    <3> DEFINE j == l - 1
    <3>1. j \in 0..m - 1
      BY <1>1
    <3> HIDE DEF j, m
    <3>2. TakenSibling(p, subtree, i, j) = D[j][Sibling(Node(q, j))]
      BY <3>1, TakenSiblingIs DEF m
    <3> QED
      BY <3>2 DEF j
  <2> QED
    BY <2>1
<1>3. ASSUME NEW hash
      PROVE  IsHash(hash, p, subtree, leaves, i) <=> IsClimb(hash, q, leaf, taken, m)
  <2> DEFINE F == [l \in 0..m |-> IF l = 0 THEN HashSlice(leaf)
                                  ELSE Parent(Node(q, l - 1), hash[l - 1], TakenSibling(p, subtree, i, l - 1))]
             G == [l \in 0..m |-> IF l = 0 THEN HashSlice(leaf)
                                  ELSE Parent(Node(q, l - 1), hash[l - 1], taken[l])]
  <2>1. F = G
    <3>1. \A l \in 0..m : l # 0 => l \in 1..m
      BY <1>1
    <3>2. \A l \in 1..m : taken[l] = TakenSibling(p, subtree, i, l - 1)
      OBVIOUS
    <3> HIDE DEF taken, m
    <3>3. \A l \in 0..m : F[l] = G[l]
      BY <3>1, <3>2
    <3> QED
      BY <3>3
  <2>2. IsHash(hash, p, subtree, leaves, i) <=> hash = F
    BY <1>0 DEF IsHash, Node, TakenSibling
  <2>3. IsClimb(hash, q, leaf, taken, m) <=> hash = G
    BY DEF IsClimb
  <2> QED
    BY <2>1, <2>2, <2>3
<1> HIDE DEF m, q, leaf, taken
<1>4. /\ IsClimb(Way(D, q, m), q, leaf, taken, m)
      /\ \A hash : IsClimb(hash, q, leaf, taken, m) => hash = Way(D, q, m)
  BY <1>1, <1>2, ClimbIsTheWay
<1>5. IsHash(HashOf(p, subtree, leaves, i), p, subtree, leaves, i)
  BY <1>3, <1>4 DEF HashOf
<1>6. HashOf(p, subtree, leaves, i) = Way(D, q, m)
  BY <1>3, <1>4, <1>5
<1> QED
  BY <1>6 DEF q, m

(* The digests of the leaves are those of the tree. *)
LeavesHash(D, p, leaves, n) == \A i \in 1..n : D[0][p.indices[i]] = HashSlice(leaves[i])

(* The whole pass: each leaf's digests are those on its way up the tree. *)
LEMMA SubtreesAreTheWays ==
    ASSUME NEW D, IsTree(D), NEW p, NEW n, ComesFrom(p, D, n), NEW leaves, LeavesHash(D, p, leaves, n)
    PROVE  \A i \in 1..n :
              SubtreeHashes(p, leaves)[i] = Way(D, p.indices[i], Levels(p.indices, Height, i))
<1> DEFINE W == [i \in 1..n |-> Way(D, p.indices[i], Levels(p.indices, Height, i))]
           t == SubtreeHashes(p, leaves)
<1>0. n \in Nat /\ Len(p.indices) = n
  BY DEF ComesFrom, LeftToRight
<1>1. ASSUME NEW u, NEW i \in 1..n,
             i + 1 \in 1..n => u[i + 1] = Way(D, p.indices[i + 1], Levels(p.indices, Height, i + 1))
      PROVE  HashOf(p, u, leaves, i) = Way(D, p.indices[i], Levels(p.indices, Height, i))
  <2>1. D[0][p.indices[i]] = HashSlice(leaves[i])
    BY DEF LeavesHash
  <2> QED
    BY <1>1, <2>1, HashIsTheWay
<1>2. \A i \in 1..n : W[i] = Way(D, p.indices[i], Levels(p.indices, Height, i))
  OBVIOUS
<1>3. W = [i \in 1..n |-> W[i]]
  OBVIOUS
<1> HIDE DEF W
<1>4. IsSubtree(W, p, leaves)
  <2>1. \A i \in 1..n : W[i] = HashOf(p, W, leaves, i)
    BY <1>1, <1>2
  <2> QED
    BY <1>0, <1>3, <2>1 DEF IsSubtree
<1>5. IsSubtree(t, p, leaves)
  <2>1. t = CHOOSE u : IsSubtree(u, p, leaves)
    BY DEF SubtreeHashes, IsSubtree, HashOf, IsHash
  <2> HIDE DEF t
  <2> QED
    BY <1>4, <2>1
<1> HIDE DEF t
<1>6. \A i \in 1..n : t[i] = HashOf(p, t, leaves, i)
  BY <1>0, <1>5 DEF IsSubtree
<1> DEFINE T == {k \in 0..n : \A i \in 1..n :
                    i >= n - k => t[i] = Way(D, p.indices[i], Levels(p.indices, Height, i))}
<1>7. 0 \in T
  <2>1. ASSUME NEW i \in 1..n, i >= n - 0
        PROVE  t[i] = Way(D, p.indices[i], Levels(p.indices, Height, i))
    <3>1. i + 1 \notin 1..n
      BY <1>0, <2>1
    <3> QED
      BY <1>1, <1>6, <3>1
  <2> QED
    BY <1>0, <2>1
<1>8. ASSUME NEW k \in 1..n, k - 1 \in T PROVE k \in T
  <2>1. ASSUME NEW i \in 1..n, i >= n - k
        PROVE  t[i] = Way(D, p.indices[i], Levels(p.indices, Height, i))
    <3>1. i + 1 \in 1..n => t[i + 1] = Way(D, p.indices[i + 1], Levels(p.indices, Height, i + 1))
      <4>1. i + 1 >= n - (k - 1)
        BY <1>0, <2>1
      <4> QED
        BY <1>8, <4>1
    <3> QED
      BY <1>1, <1>6, <3>1
  <2> QED
    BY <1>0, <2>1
<1> HIDE DEF T
<1>9. n \in T
  <2>1. \A k \in 0..n : k \in T
    BY <1>0, <1>7, <1>8, UpTo
  <2> QED
    BY <1>0, <2>1
<1>10. \A i \in 1..n : t[i] = Way(D, p.indices[i], Levels(p.indices, Height, i))
  BY <1>0, <1>9 DEF T
<1> QED
  BY <1>10 DEF t

(* The forward pass, from the leaf on the left. *)
IsFull(full, p, subtree) ==
    full = [i \in 1..Len(p.indices) |->
              [l \in 1..p.merkleHeight |->
                  IF l > Levels(p.indices, p.merkleHeight, i) THEN full[i - 1][l]
                  ELSE IF Skips(p.indices, i, l - 1) THEN subtree[i + 1][l - 1]
                  ELSE StoredSibling(p, i, l - 1)]]

(* The siblings it gives to each leaf are those the prover opened. *)
LEMMA FullSiblingsAreOpened ==
    ASSUME NEW D, IsTree(D), NEW p, NEW n, ComesFrom(p, D, n), NEW leaves, LeavesHash(D, p, leaves, n)
    PROVE  \A i \in 1..n : FullSiblings(p, leaves)[i] = OpenSiblings(D, p.indices[i])
<1> DEFINE t == SubtreeHashes(p, leaves)
           O == [i \in 1..n |-> OpenSiblings(D, p.indices[i])]
           f == FullSiblings(p, leaves)
           Row(full, i) == [l \in 1..Height |-> IF l > Levels(p.indices, Height, i) THEN full[i - 1][l]
                                                ELSE TakenSibling(p, t, i, l - 1)]
<1>0. n \in Nat /\ Len(p.indices) = n /\ Height \in Nat /\ p.merkleHeight = Height /\ LeftToRight(p.indices, n)
  BY LevelIs DEF ComesFrom, LeftToRight
<1>t. \A i \in 1..n : t[i] = Way(D, p.indices[i], Levels(p.indices, Height, i))
  BY SubtreesAreTheWays
<1>f. f = CHOOSE full : IsFull(full, p, t)
  BY DEF FullSiblings, IsFull
<1>r. \A full : IsFull(full, p, t) <=> full = [i \in 1..n |-> Row(full, i)]
  BY <1>0 DEF IsFull, TakenSibling
<1> HIDE DEF t, f
<1>1. ASSUME NEW full, NEW i \in 1..n,
             i - 1 \in 1..n => full[i - 1] = OpenSiblings(D, p.indices[i - 1])
      PROVE  Row(full, i) = OpenSiblings(D, p.indices[i])
  <2> DEFINE q == p.indices[i]
             m == Levels(p.indices, Height, i)
  <2>0. m \in 0..Height
    BY <1>0, LevelsAre
  <2>1. ASSUME NEW l \in 1..Height
        PROVE  Row(full, i)[l] = OpenSiblings(D, q)[l]
    <3> DEFINE j == l - 1
    <3>1. j \in Nat /\ j < Height
      BY <1>0
    <3>2. OpenSiblings(D, q)[l] = D[j][Sibling(Node(q, j))]
      BY DEF OpenSiblings, Node
    <3>3. CASE l > m
      <4>1. i - 1 \in 1..n /\ Node(p.indices[i - 1], j) = Node(q, j)
        <5>1. j >= m
          BY <2>0, <3>3
        <5> HIDE DEF j
        <5> QED
          BY <1>0, <3>1, <5>1, LevelsAre
      <4>2. OpenSiblings(D, p.indices[i - 1])[l] = D[j][Sibling(Node(p.indices[i - 1], j))]
        BY DEF OpenSiblings, Node
      <4>3. Row(full, i)[l] = full[i - 1][l]
        BY <3>3
      <4> QED
        BY <1>1, <3>2, <4>1, <4>2, <4>3
    <3>4. CASE ~(l > m)
      <4>1. j \in 0..m - 1
        BY <2>0, <3>1, <3>4
      <4>2. TakenSibling(p, t, i, j) = D[j][Sibling(Node(q, j))]
        <5> HIDE DEF j
        <5>1. i + 1 \in 1..n => t[i + 1] = Way(D, p.indices[i + 1], Levels(p.indices, Height, i + 1))
          BY <1>t
        <5> QED
          BY <4>1, <5>1, TakenSiblingIs
      <4>3. Row(full, i)[l] = TakenSibling(p, t, i, j)
        BY <3>4
      <4> QED
        BY <3>2, <4>2, <4>3
    <3> QED
      BY <3>3, <3>4
  <2>2. OpenSiblings(D, q) = [l \in 1..Height |-> OpenSiblings(D, q)[l]]
    BY DEF OpenSiblings
  <2>3. Row(full, i) = [l \in 1..Height |-> Row(full, i)[l]]
    OBVIOUS
  <2> HIDE DEF Row
  <2> QED
    BY <2>1, <2>2, <2>3
<1>2. \A i \in 1..n : O[i] = OpenSiblings(D, p.indices[i])
  OBVIOUS
<1>3. O = [i \in 1..n |-> O[i]]
  OBVIOUS
<1> HIDE DEF O, Row
<1>4. IsFull(O, p, t)
  <2>1. \A i \in 1..n : O[i] = Row(O, i)
    BY <1>1, <1>2
  <2> QED
    BY <1>3, <1>r, <2>1
<1>5. f = [i \in 1..n |-> Row(f, i)]
  <2>1. IsFull(f, p, t)
    BY <1>4, <1>f
  <2> QED
    BY <1>r, <2>1
<1>6. \A i \in 1..n : f[i] = Row(f, i)
  BY <1>5
<1> DEFINE T == {k \in 0..n : k = 0 \/ f[k] = OpenSiblings(D, p.indices[k])}
<1>7. ASSUME NEW k \in 1..n, k - 1 \in T PROVE k \in T
  <2>1. k - 1 \in 1..n => f[k - 1] = OpenSiblings(D, p.indices[k - 1])
    BY <1>7
  <2>2. f[k] = OpenSiblings(D, p.indices[k])
    BY <1>1, <1>6, <2>1
  <2> QED
    BY <1>0, <2>2
<1>8. 0 \in T
  BY <1>0
<1> HIDE DEF T
<1>9. \A k \in 0..n : k \in T
  BY <1>0, <1>7, <1>8, UpTo
<1>10. \A i \in 1..n : f[i] = OpenSiblings(D, p.indices[i])
  BY <1>0, <1>9 DEF T
<1> QED
  BY <1>10 DEF f

-----------------------------------------------------------------------------
(* What prune sends. *)

(* A set of numbers up to n that is not empty has a greatest member. *)
LEMMA Greatest ==
    ASSUME NEW n \in Nat, NEW T \in SUBSET (0..n), T # {}
    PROVE  \E x \in T : \A y \in T : x >= y
<1> DEFINE Left == {n - t : t \in T}
<1>1. \A t \in T : t \in Nat /\ n - t \in Nat
  OBVIOUS
<1>2. Left \in SUBSET Nat /\ Left # {}
  BY <1>1
<1>3. PICK x \in Left : \A y \in Left : x <= y
  BY <1>2, Least
<1>4. PICK t \in T : x = n - t
  BY <1>3
<1>5. ASSUME NEW y \in T PROVE t >= y
  <2>1. n - y \in Left
    OBVIOUS
  <2>2. n - t <= n - y
    BY <1>3, <1>4, <2>1
  <2> QED
    BY <1>1, <2>2
<1> QED
  BY <1>5

(* A leaf, whole. *)
IsRow(leaf, F) == leaf = [k \in 1..F |-> leaf[k]]

(* The openings of some leaves of a tree, in any order and with any repetitions; leafOf is the whole
   leaf of each index, F its width. *)
Opening(D, leafOf, q) == [leaf |-> leafOf[q], siblings |-> OpenSiblings(D, q), leafIndex |-> q]

AreOpenings(some, D, leafOf, F) ==
    /\ Len(some) \in Nat \ {0} /\ some = [k \in 1..Len(some) |-> some[k]]
    /\ \A k \in 1..Len(some) : /\ some[k].leafIndex \in LeafIndices
                               /\ some[k] = Opening(D, leafOf, some[k].leafIndex)
    /\ F \in Nat
    /\ \A q \in LeafIndices : IsRow(leafOf[q], F)

IndicesOf(some) == {path.leafIndex : path \in ToSet(some)}

(* The indices of some openings, sorted. *)
LEMMA SortedIndicesAre ==
    ASSUME NEW some, NEW D, NEW leafOf, NEW F, AreOpenings(some, D, leafOf, F)
    PROVE  \E n \in Nat \ {0} :
              /\ LeftToRight(SortedIndices(some), n)
              /\ SortedIndices(some) = [i \in 1..n |-> SortedIndices(some)[i]]
              /\ \A i \in 1..n : \E k \in 1..Len(some) : some[k].leafIndex = SortedIndices(some)[i]
              /\ \A k \in 1..Len(some) : \E i \in 1..n : SortedIndices(some)[i] = some[k].leafIndex
<1> DEFINE S == IndicesOf(some)
           n == Cardinality(S)
           s == SortedIndices(some)
           N == Len(some)
<1>0. N \in Nat \ {0} /\ DOMAIN some = 1..N /\ \A k \in 1..N : some[k].leafIndex \in LeafIndices
  BY DEF AreOpenings
<1>1. S = {some[k].leafIndex : k \in 1..N}
  <2> HIDE DEF N
  <2> QED
    BY <1>0 DEF IndicesOf, ToSet
<1>2. S \subseteq LeafIndices
  BY <1>0, <1>1
<1>3. IsFiniteSet(S) /\ S \in SUBSET Nat
  <2>1. 2^Height \in Nat
    BY LevelIs, PowerIsPositive
  <2>2. IsFiniteSet(0..2^Height - 1)
    BY <2>1, FS_Interval
  <2> HIDE DEF S
  <2>3. IsFiniteSet(S)
    BY <1>2, <2>2, FS_Subset DEF LeafIndices
  <2>4. \A q \in LeafIndices : q \in Nat
    BY NodeInLevel
  <2> QED
    BY <1>2, <2>3, <2>4
<1>4. S # {}
  <2>1. 1 \in 1..N
    BY <1>0
  <2>2. some[1].leafIndex \in S
    BY <1>1, <2>1
  <2> QED
    BY <2>2
<1>5. s = InOrder(S)
  BY DEF SortedIndices, IndicesOf
<1> HIDE DEF S, s
<1>6. /\ n \in Nat /\ DOMAIN s = 1..n /\ Len(s) = n
      /\ \A i \in 1..n : s[i] \in S
      /\ \A i, j \in 1..n : i < j => s[i] < s[j]
  BY <1>3, <1>5, InOrderIs
<1>7. ASSUME NEW x \in S PROVE \E i \in 1..n : s[i] = x
  <2> DEFINE r == Cardinality({l \in S : l <= x})
  <2>1. r \in 1..n /\ s[r] = x
    BY <1>3, <1>5, InOrderIs
  <2> HIDE DEF r
  <2> QED
    BY <2>1
<1>8. n # 0
  <2>1. \E x : x \in S
    BY <1>4
  <2> HIDE DEF n
  <2> QED
    BY <1>6, <1>7, <2>1
<1>9. s = [i \in 1..n |-> s[i]]
  BY <1>3, <1>5, InOrderIs
<1>10. LeftToRight(s, n)
  BY <1>2, <1>6 DEF LeftToRight
<1>11. \A i \in 1..n : \E k \in 1..N : some[k].leafIndex = s[i]
  BY <1>1, <1>6
<1>12. \A k \in 1..N : \E i \in 1..n : s[i] = some[k].leafIndex
  BY <1>1, <1>7
<1> QED
  BY <1>6, <1>8, <1>9, <1>10, <1>11, <1>12 DEF s

(* The first position of an opening of leaf q, and of an index q. *)
FirstOpening(some, q) == SelectInSeq(some, LAMBDA p : p.leafIndex = q)

FirstIndex(s, q) == SelectInSeq(s, LAMBDA x : x = q)

LEMMA FirstIs ==
    /\ \A some, q : Len(some) \in Nat /\ (\E k \in 1..Len(some) : some[k].leafIndex = q)
          => /\ FirstOpening(some, q) \in 1..Len(some)
             /\ some[FirstOpening(some, q)].leafIndex = q
    /\ \A s, q : Len(s) \in Nat /\ (\E k \in 1..Len(s) : s[k] = q)
          => FirstIndex(s, q) \in 1..Len(s) /\ s[FirstIndex(s, q)] = q
<1>1. ASSUME NEW some, NEW q, Len(some) \in Nat, \E k \in 1..Len(some) : some[k].leafIndex = q
      PROVE  FirstOpening(some, q) \in 1..Len(some) /\ some[FirstOpening(some, q)].leafIndex = q
  <2> DEFINE I == {k \in 1..Len(some) : some[k].leafIndex = q}
  <2>1. I \in SUBSET Nat /\ I # {}
    BY <1>1
  <2>2. FirstOpening(some, q) = CHOOSE x \in I : \A y \in I : x <= y
    BY <2>1 DEF FirstOpening, SelectInSeq, Min
  <2>3. \E x \in I : \A y \in I : x <= y
    BY <2>1, Least
  <2>4. FirstOpening(some, q) \in I
    BY <2>2, <2>3
  <2> QED
    BY <2>4
<1>2. ASSUME NEW s, NEW q, Len(s) \in Nat, \E k \in 1..Len(s) : s[k] = q
      PROVE  FirstIndex(s, q) \in 1..Len(s) /\ s[FirstIndex(s, q)] = q
  <2> DEFINE I == {k \in 1..Len(s) : s[k] = q}
  <2>1. I \in SUBSET Nat /\ I # {}
    BY <1>2
  <2>2. FirstIndex(s, q) = CHOOSE x \in I : \A y \in I : x <= y
    BY <2>1 DEF FirstIndex, SelectInSeq, Min
  <2>3. \E x \in I : \A y \in I : x <= y
    BY <2>1, Least
  <2>4. FirstIndex(s, q) \in I
    BY <2>2, <2>3
  <2> QED
    BY <2>4
<1> QED
  BY <1>1, <1>2

(* The zeros stripped are zeros of every leaf. *)
EndInZeros(leaves, n, F, zeros) ==
    zeros \in 0..F /\ \A i \in 1..n : \A k \in 1..F : k > F - zeros => leaves[i][k] = 0

LEMMA TrailingZerosAre ==
    ASSUME NEW n \in Nat \ {0}, NEW F \in Nat, NEW leaves, Len(leaves) = n,
           \A i \in 1..n : IsRow(leaves[i], F)
    PROVE  EndInZeros(leaves, n, F, TrailingZeros(leaves))
<1> DEFINE Used == {k \in 1..F : \E i \in 1..n : leaves[i][k] # 0}
           last == Max(Used \cup {0})
<1>1. Len(leaves[1]) = F
  <2>1. leaves[1] = [k \in 1..F |-> leaves[1][k]]
    BY DEF IsRow
  <2> QED
    BY <2>1
<1>2. TrailingZeros(leaves) = F - last
  BY <1>1 DEF TrailingZeros
<1>3. last \in Used \cup {0} /\ \A k \in Used : last >= k
  <2> DEFINE U == Used \cup {0}
  <2>1. U \in SUBSET (0..F) /\ U # {}
    OBVIOUS
  <2> HIDE DEF U
  <2>2. \E x \in U : \A y \in U : x >= y
    BY <2>1, Greatest
  <2>3. Max(U) \in U /\ \A y \in U : Max(U) >= y
    BY <2>2 DEF Max
  <2> QED
    BY <2>3 DEF U
<1>4. last \in 0..F
  BY <1>3
<1>5. ASSUME NEW i \in 1..n, NEW k \in 1..F, k > F - (F - last) PROVE leaves[i][k] = 0
  <2> HIDE DEF last
  <2>1. ~(last >= k)
    BY <1>4, <1>5
  <2>2. k \notin Used
    BY <1>3, <2>1
  <2> QED
    BY <2>2
<1> HIDE DEF last
<1>6. F - last \in 0..F
  BY <1>4
<1> QED
  BY <1>2, <1>5, <1>6 DEF EndInZeros

(* A leaf without its last zeros, completed with as many zeros, is the leaf. *)
LEMMA StrippedLeafIs ==
    ASSUME NEW F \in Nat, NEW leaf, IsRow(leaf, F), NEW zeros \in 0..F,
           \A k \in 1..F : k > F - zeros => leaf[k] = 0
    PROVE  SubSeq(leaf, 1, Len(leaf) - zeros) \o Zeros(zeros) = leaf
<1> DEFINE m == F - zeros
           head == SubSeq(leaf, 1, m)
<1>1. m \in Nat /\ m + zeros = F /\ zeros \in Nat
  OBVIOUS
<1>2. Len(leaf) = F /\ leaf = [k \in 1..F |-> leaf[k]]
  BY DEF IsRow
<1>3. head = [k \in 1..m |-> leaf[k]]
  BY <1>1
<1> HIDE DEF head
<1>4. head \in Seq(ToSet(head)) /\ Len(head) = m /\ \A k \in 1..m : head[k] = leaf[k]
  <2> HIDE DEF m
  <2>1. head = [k \in 1..m |-> head[k]]
    BY <1>3
  <2> QED
    BY <1>1, <1>3, <2>1, SequenceIs
<1>5. head \o Zeros(zeros) = Completed(head, zeros)
  BY <1>1, <1>4, CompletedIs, Zenon
<1>6. Completed(head, zeros) = [k \in 1..F |-> IF k <= m THEN head[k] ELSE 0]
  BY <1>1, <1>4 DEF Completed
<1>7. \A k \in 1..F : (IF k <= m THEN head[k] ELSE 0) = leaf[k]
  <2>1. ASSUME NEW k \in 1..F PROVE (IF k <= m THEN head[k] ELSE 0) = leaf[k]
    <3>1. CASE k <= m
      <4>1. k \in 1..m
        BY <1>1, <3>1
      <4> QED
        BY <1>4, <3>1, <4>1
    <3>2. CASE k > m
      <4>1. ~(k <= m)
        BY <1>1, <3>2
      <4> QED
        BY <3>2, <4>1
    <3> QED
      BY <1>1, <3>1, <3>2
  <2> QED
    BY <2>1
<1>8. Completed(head, zeros) = leaf
  BY <1>2, <1>6, <1>7
<1> QED
  BY <1>2, <1>5, <1>8 DEF head

(* The pruned proof of some openings: it comes from the tree, keeps their order, and gives back every
   leaf. *)
IsPruned(p, some, D, leafOf, n) ==
    /\ ComesFrom(p, D, n) /\ n \in Nat \ {0}
    /\ Len(p.leafData) = n /\ p.trailingZeros \in Nat
    /\ Len(p.originalOrder) = Len(some) /\ DOMAIN p.originalOrder = 1..Len(some)
    /\ \A i \in 1..n : p.leafData[i] \o Zeros(p.trailingZeros) = leafOf[p.indices[i]]
    /\ \A k \in 1..Len(some) : /\ p.originalOrder[k] \in 1..n
                               /\ p.indices[p.originalOrder[k]] = some[k].leafIndex
    /\ \A i \in 1..n : Cardinality(Kept(p.indices, Height, i)) <= Len(p.siblings[i])

(* The siblings sent with path i. *)
SentSiblings(D, s, i) ==
    [k \in 1..Len(InOrder(Kept(s, Height, i))) |->
        OpenSiblings(D, s[i])[InOrder(Kept(s, Height, i))[k] + 1]]

(* They are found again at their levels. *)
FoundAgain(sent, D, s, i) ==
    /\ Cardinality(Kept(s, Height, i)) <= Len(sent)
    /\ \A lvl \in Kept(s, Height, i) :
          sent[Cardinality({l \in Kept(s, Height, i) : l <= lvl})] = D[lvl][Sibling(Node(s[i], lvl))]

LEMMA StoredSiblingIs ==
    ASSUME NEW D, NEW s, NEW n, LeftToRight(s, n), NEW i \in 1..n, NEW sent,
           sent = SentSiblings(D, s, i)
    PROVE  FoundAgain(sent, D, s, i)
<1> DEFINE K == Kept(s, Height, i)
           c == Cardinality(K)
<1>0. Levels(s, Height, i) \in 0..Height /\ Height \in Nat
  BY LevelsAre, LevelIs
<1>1. K \subseteq 0..Levels(s, Height, i) - 1 /\ K \subseteq 0..Height - 1 /\ K \in SUBSET Nat
  BY <1>0 DEF Kept
<1>2. IsFiniteSet(K)
  <2>1. IsFiniteSet(0..Height - 1)
    BY <1>0, FS_Interval
  <2> HIDE DEF K
  <2> QED
    BY <1>1, <2>1, FS_Subset
<1> HIDE DEF K
<1>3. /\ c \in Nat /\ Len(InOrder(K)) = c
      /\ \A x \in K : /\ Cardinality({l \in K : l <= x}) \in 1..c
                      /\ InOrder(K)[Cardinality({l \in K : l <= x})] = x
  BY <1>1, <1>2, InOrderIs
<1>4. sent = [k \in 1..c |-> OpenSiblings(D, s[i])[InOrder(K)[k] + 1]]
  BY <1>3 DEF K, SentSiblings
<1>5. Len(sent) = c
  <2> HIDE DEF c
  <2> QED
    BY <1>3, <1>4
<1>6. ASSUME NEW lvl \in K
      PROVE  sent[Cardinality({l \in K : l <= lvl})] = D[lvl][Sibling(Node(s[i], lvl))]
  <2> DEFINE r == Cardinality({l \in K : l <= lvl})
  <2>1. r \in 1..c /\ InOrder(K)[r] = lvl
    BY <1>3
  <2> HIDE DEF r
  <2>2. sent[r] = OpenSiblings(D, s[i])[lvl + 1]
    BY <1>4, <2>1
  <2>3. lvl + 1 \in 1..Height /\ (lvl + 1) - 1 = lvl
    BY <1>0, <1>1
  <2>4. OpenSiblings(D, s[i])[lvl + 1] = D[lvl][Sibling(Node(s[i], lvl))]
    BY <2>3 DEF OpenSiblings, Node
  <2> QED
    BY <2>2, <2>4 DEF r
<1>7. Cardinality(K) <= Len(sent)
  BY <1>3, <1>5
<1> QED
  BY <1>6, <1>7 DEF K, FoundAgain

(* prune keeps what restore needs. *)
LEMMA PruneIs ==
    ASSUME NEW some, NEW D, NEW leafOf, NEW F, AreOpenings(some, D, leafOf, F)
    PROVE  \E n : IsPruned(Prune(some), some, D, leafOf, n)
<1> DEFINE s == SortedIndices(some)
           p == Prune(some)
           N == Len(some)
           opened(i) == some[FirstOpening(some, s[i])]
<1>0. /\ N \in Nat \ {0} /\ F \in Nat
      /\ \A k \in 1..N : /\ some[k].leafIndex \in LeafIndices
                         /\ some[k] = Opening(D, leafOf, some[k].leafIndex)
      /\ \A q \in LeafIndices : IsRow(leafOf[q], F)
  BY DEF AreOpenings
<1>1. PICK n \in Nat \ {0} :
         /\ LeftToRight(s, n) /\ s = [i \in 1..n |-> s[i]]
         /\ \A i \in 1..n : \E k \in 1..N : some[k].leafIndex = s[i]
         /\ \A k \in 1..N : \E i \in 1..n : s[i] = some[k].leafIndex
  BY SortedIndicesAre
<1>2. Len(s) = n /\ n \in Nat /\ \A i \in 1..n : s[i] \in LeafIndices
  BY <1>1 DEF LeftToRight
<1> DEFINE deduped == [i \in 1..n |-> opened(i)]
           leaves == [i \in 1..n |-> deduped[i].leaf]
           h == Len(some[1].siblings)
           zeros == TrailingZeros(leaves)
           kept(i) == InOrder(Kept(s, h, i))
<1>3. /\ p.merkleHeight = h /\ p.indices = s /\ p.trailingZeros = zeros
      /\ p.originalOrder = [k \in 1..N |-> FirstIndex(s, some[k].leafIndex)]
      /\ p.leafData = [i \in 1..n |-> SubSeq(deduped[i].leaf, 1, Len(deduped[i].leaf) - zeros)]
      /\ p.siblings = [i \in 1..n |-> [k \in 1..Len(kept(i)) |-> deduped[i].siblings[kept(i)[k] + 1]]]
  BY <1>2 DEF Prune, FirstOpening, FirstIndex
<1> HIDE DEF s, p
<1>4. \A i \in 1..n : opened(i) = Opening(D, leafOf, s[i])
  <2>1. ASSUME NEW i \in 1..n PROVE opened(i) = Opening(D, leafOf, s[i])
    <3> DEFINE q == s[i]
    <3>1. \E k \in 1..N : some[k].leafIndex = q
      BY <1>1
    <3> HIDE DEF q
    <3>2. FirstOpening(some, q) \in 1..N /\ some[FirstOpening(some, q)].leafIndex = q
      BY <1>0, <3>1, FirstIs
    <3>3. some[FirstOpening(some, q)] = Opening(D, leafOf, q)
      BY <1>0, <3>2
    <3> QED
      BY <3>3 DEF q
  <2> QED
    BY <2>1
<1>5. \A i \in 1..n : deduped[i].leaf = leafOf[s[i]] /\ deduped[i].siblings = OpenSiblings(D, s[i])
  <2>1. ASSUME NEW i \in 1..n
        PROVE  deduped[i].leaf = leafOf[s[i]] /\ deduped[i].siblings = OpenSiblings(D, s[i])
    <3>1. deduped[i] = Opening(D, leafOf, s[i])
      BY <1>4
    <3> HIDE DEF deduped
    <3> QED
      BY <3>1 DEF Opening
  <2> QED
    BY <2>1
<1>6. h = Height
  <2>1. 1 \in 1..N
    BY <1>0
  <2>2. some[1].siblings = OpenSiblings(D, some[1].leafIndex)
    <3>1. some[1] = Opening(D, leafOf, some[1].leafIndex)
      BY <1>0, <2>1
    <3> DEFINE q == some[1].leafIndex
    <3> HIDE DEF q
    <3>2. some[1] = Opening(D, leafOf, q)
      BY <3>1 DEF q
    <3>3. some[1].siblings = OpenSiblings(D, q)
      BY <3>2 DEF Opening
    <3> QED
      BY <3>3 DEF q
  <2>3. \A q : Len(OpenSiblings(D, q)) = Height
    BY LevelIs DEF OpenSiblings
  <2> QED
    BY <2>2, <2>3
<1> HIDE DEF deduped, h
<1>7. /\ zeros \in 0..F
      /\ \A i \in 1..n : \A k \in 1..F : k > F - zeros => leafOf[s[i]][k] = 0
  <2>1. Len(leaves) = n
    BY <1>2
  <2>2. \A i \in 1..n : leaves[i] = leafOf[s[i]]
    BY <1>5
  <2>3. \A i \in 1..n : IsRow(leaves[i], F)
    BY <1>0, <1>2, <2>2
  <2> HIDE DEF leaves
  <2>4. EndInZeros(leaves, n, F, zeros)
    BY <1>0, <1>1, <2>1, <2>3, TrailingZerosAre
  <2> HIDE DEF zeros
  <2> QED
    BY <2>2, <2>4 DEF EndInZeros
<1> HIDE DEF zeros
<1>8. \A i \in 1..n : p.leafData[i] \o Zeros(p.trailingZeros) = leafOf[p.indices[i]]
  <2>1. ASSUME NEW i \in 1..n
        PROVE  p.leafData[i] \o Zeros(p.trailingZeros) = leafOf[p.indices[i]]
    <3> DEFINE leaf == leafOf[s[i]]
    <3>1. IsRow(leaf, F)
      BY <1>0, <1>2
    <3>2. \A k \in 1..F : k > F - zeros => leaf[k] = 0
      BY <1>7
    <3>3. p.leafData[i] = SubSeq(leaf, 1, Len(leaf) - zeros)
      <4>1. deduped[i].leaf = leaf
        BY <1>5
      <4>2. p.leafData[i] = SubSeq(deduped[i].leaf, 1, Len(deduped[i].leaf) - zeros)
        BY <1>3
      <4> QED
        BY <4>1, <4>2
    <3> HIDE DEF leaf
    <3>4. SubSeq(leaf, 1, Len(leaf) - zeros) \o Zeros(zeros) = leaf
      BY <1>0, <1>7, <3>1, <3>2, StrippedLeafIs
    <3> QED
      BY <1>3, <3>3, <3>4 DEF leaf
  <2> QED
    BY <2>1
<1>9. \A k \in 1..N : p.originalOrder[k] \in 1..n /\ p.indices[p.originalOrder[k]] = some[k].leafIndex
  <2>1. ASSUME NEW k \in 1..N
        PROVE  p.originalOrder[k] \in 1..n /\ p.indices[p.originalOrder[k]] = some[k].leafIndex
    <3> DEFINE q == some[k].leafIndex
    <3>1. \E i \in 1..Len(s) : s[i] = q
      BY <1>1, <1>2
    <3>2. p.originalOrder[k] = FirstIndex(s, q)
      BY <1>3
    <3> HIDE DEF q
    <3>3. FirstIndex(s, q) \in 1..Len(s) /\ s[FirstIndex(s, q)] = q
      BY <1>2, <3>1, FirstIs
    <3> QED
      BY <1>2, <1>3, <3>2, <3>3 DEF q
  <2> QED
    BY <2>1
<1>10. ASSUME NEW i \in 1..n
       PROVE  FoundAgain(p.siblings[i], D, s, i)
  <2> DEFINE sent == p.siblings[i]
  <2>1. sent = SentSiblings(D, s, i)
    BY <1>3, <1>5, <1>6 DEF SentSiblings
  <2> HIDE DEF sent
  <2>2. FoundAgain(sent, D, s, i)
    BY <1>1, <2>1, StoredSiblingIs
  <2> QED
    BY <2>2 DEF sent
<1>11. ComesFrom(p, D, n)
  <2>1. ASSUME NEW i \in 1..n, NEW lvl \in Kept(p.indices, Height, i)
        PROVE  StoredSibling(p, i, lvl) = D[lvl][Sibling(Node(p.indices[i], lvl))]
    <3>1. lvl \in Kept(s, Height, i) /\ p.indices = s /\ p.merkleHeight = Height
      BY <1>3, <1>6, <2>1
    <3>2. StoredSibling(p, i, lvl) = p.siblings[i][Cardinality({l \in Kept(s, Height, i) : l <= lvl})]
      BY <3>1 DEF StoredSibling
    <3>3. FoundAgain(p.siblings[i], D, s, i)
      BY <1>10
    <3> QED
      BY <3>1, <3>2, <3>3 DEF FoundAgain
  <2> QED
    BY <1>1, <1>3, <1>6, <2>1 DEF ComesFrom
<1>12. Len(p.leafData) = n /\ Len(p.originalOrder) = N /\ DOMAIN p.originalOrder = 1..N
  <2> HIDE DEF N
  <2>1. Len(p.leafData) = n
    BY <1>2, <1>3
  <2>2. Len(p.originalOrder) = N /\ DOMAIN p.originalOrder = 1..N
    BY <1>0, <1>3
  <2> QED
    BY <2>1, <2>2
<1>13. IsPruned(p, some, D, leafOf, n)
  <2>1. \A i \in 1..n : Cardinality(Kept(p.indices, Height, i)) <= Len(p.siblings[i])
    BY <1>3, <1>10 DEF FoundAgain
  <2>2. p.trailingZeros \in Nat
    BY <1>0, <1>3, <1>7
  <2> QED
    BY <1>1, <1>8, <1>9, <1>11, <1>12, <2>1, <2>2 DEF IsPruned
<1> QED
  BY <1>13 DEF p

-----------------------------------------------------------------------------
(* What restore returns. *)

(* The first layer of the tree is that of the whole leaves. *)
HashesLeaves(D, leafOf) == \A q \in LeafIndices : D[0][q] = HashSlice(leafOf[q])

(* A pruned proof within the limits has all that restore asks for. *)
LEMMA PrunedIsComplete ==
    ASSUME NEW p, NEW some, NEW D, NEW leafOf, NEW n, IsPruned(p, some, D, leafOf, n)
    PROVE  Complete(p) <=> Height < MaxHeight /\ p.trailingZeros <= MaxTrailingZeros
<1>1. /\ p.merkleHeight = Height /\ LeftToRight(p.indices, n) /\ Len(p.leafData) = n
      /\ DOMAIN p.originalOrder = 1..Len(some)
      /\ \A k \in 1..Len(some) : p.originalOrder[k] \in 1..n
      /\ \A i \in 1..n : Cardinality(Kept(p.indices, Height, i)) <= Len(p.siblings[i])
  BY DEF IsPruned, ComesFrom
<1>2. Len(p.indices) = n /\ n \in Nat /\ \A i \in 1..n : p.indices[i] \in LeafIndices
  BY <1>1 DEF LeftToRight
<1>3. 2^Height \in Nat
  BY LevelIs, PowerIsPositive
<1>4. \A i \in 1..n : p.indices[i] < 2^Height
  <2>1. \A x \in LeafIndices : x < 2^Height
    BY <1>3 DEF LeafIndices
  <2> QED
    BY <1>2, <2>1
<1>5. ToSet(p.originalOrder) \subseteq 1..n
  BY <1>1 DEF ToSet
<1>6. \A i \in 1..n : i <= Len(p.leafData)
  BY <1>1, <1>2
<1> QED
  BY <1>1, <1>2, <1>4, <1>5, <1>6 DEF Complete

(* It gives back the openings, or refuses what is over the limits. *)
LEMMA RestoreOfPruned ==
    ASSUME NEW p, NEW some, NEW D, IsTree(D), NEW leafOf, HashesLeaves(D, leafOf),
           NEW F, AreOpenings(some, D, leafOf, F), NEW n, IsPruned(p, some, D, leafOf, n)
    PROVE  Restore(p) = IF Height >= MaxHeight \/ p.trailingZeros > MaxTrailingZeros THEN Refused
                        ELSE [ok |-> TRUE, paths |-> some]
<1> DEFINE leaves == [i \in 1..Len(p.leafData) |-> p.leafData[i] \o Zeros(p.trailingZeros)]
           full == FullSiblings(p, leaves)
           path(i) == [leaf |-> leaves[i], siblings |-> full[i], leafIndex |-> p.indices[i]]
           given == [k \in 1..Len(p.originalOrder) |-> path(p.originalOrder[k])]
<1>1. /\ Len(p.leafData) = n /\ n \in Nat /\ ComesFrom(p, D, n) /\ p.trailingZeros \in Nat
      /\ Len(p.originalOrder) = Len(some)
      /\ \A i \in 1..n : p.leafData[i] \o Zeros(p.trailingZeros) = leafOf[p.indices[i]]
      /\ \A k \in 1..Len(some) : /\ p.originalOrder[k] \in 1..n
                                 /\ p.indices[p.originalOrder[k]] = some[k].leafIndex
  BY DEF IsPruned
<1>2. \A i \in 1..n : leaves[i] = leafOf[p.indices[i]] /\ p.indices[i] \in LeafIndices
  BY <1>1 DEF ComesFrom, LeftToRight
<1>3. Complete(p) <=> Height < MaxHeight /\ p.trailingZeros <= MaxTrailingZeros
  BY PrunedIsComplete
<1>4. Restore(p) = IF ~Complete(p) THEN Refused ELSE [ok |-> TRUE, paths |-> given]
  BY DEF Restore
<1> HIDE DEF leaves
<1>5. LeavesHash(D, p, leaves, n)
  BY <1>2 DEF LeavesHash, HashesLeaves
<1>6. \A i \in 1..n : full[i] = OpenSiblings(D, p.indices[i])
  BY <1>1, <1>5, FullSiblingsAreOpened
<1> HIDE DEF full
<1>7. \A k \in 1..Len(some) : given[k] = some[k]
  <2>1. ASSUME NEW k \in 1..Len(some) PROVE given[k] = some[k]
    <3> DEFINE i == p.originalOrder[k]
               q == some[k].leafIndex
    <3>1. i \in 1..n /\ p.indices[i] = q
      BY <1>1
    <3>2. q \in LeafIndices /\ some[k] = Opening(D, leafOf, q)
      BY DEF AreOpenings
    <3>3. leaves[i] = leafOf[p.indices[i]] /\ full[i] = OpenSiblings(D, p.indices[i])
      BY <1>2, <1>6, <3>1
    <3>4. given[k] = path(i)
      BY <1>1
    <3> HIDE DEF i, q
    <3>5. path(i) = Opening(D, leafOf, q)
      BY <3>1, <3>3 DEF Opening
    <3> QED
      BY <3>2, <3>4, <3>5
  <2> QED
    BY <2>1
<1>8. given = [k \in 1..Len(some) |-> given[k]]
  BY <1>1
<1>9. some = [k \in 1..Len(some) |-> some[k]]
  BY DEF AreOpenings
<1> HIDE DEF given
<1>10. given = some
  <2>1. [k \in 1..Len(some) |-> given[k]] = [k \in 1..Len(some) |-> some[k]]
    BY <1>7
  <2> QED
    BY <1>8, <1>9, <2>1
<1>11. Height \in Nat /\ MaxHeight \in Nat /\ MaxTrailingZeros \in Nat
  BY TreeAssumption, LimitsAssumption
<1> QED
  BY <1>1, <1>3, <1>4, <1>10, <1>11

(* restore is the inverse of prune on the openings of any tree, within the limits.  This is what
   Transcript asks of its batches. *)
THEOREM RestoreIsTheInverseOfPrune ==
    ASSUME NEW D, IsTree(D), NEW leafOf, HashesLeaves(D, leafOf),
           NEW some, NEW F, AreOpenings(some, D, leafOf, F),
           Height < MaxHeight, Prune(some).trailingZeros <= MaxTrailingZeros
    PROVE  Restore(Prune(some)) = [ok |-> TRUE, paths |-> some]
<1> DEFINE p == Prune(some)
<1>1. PICK n : IsPruned(p, some, D, leafOf, n)
  BY PruneIs
<1>2. p.trailingZeros \in Nat /\ p.trailingZeros <= MaxTrailingZeros
  BY <1>1 DEF IsPruned
<1> HIDE DEF p
<1>3. Restore(p) = IF Height >= MaxHeight \/ p.trailingZeros > MaxTrailingZeros THEN Refused
                   ELSE [ok |-> TRUE, paths |-> some]
  BY <1>1, RestoreOfPruned
<1>4. ~(Height >= MaxHeight \/ p.trailingZeros > MaxTrailingZeros)
  BY <1>2, TreeAssumption, LimitsAssumption
<1> QED
  BY <1>3, <1>4 DEF p

-----------------------------------------------------------------------------
(* The query phase. *)

(* The whole leaves of a matrix, and the digests committed to. *)
LeafOf(m) == [q \in LeafIndices |-> m.rows[q] \o Zeros(m.full - Len(m.rows[q]))]

LayersOf(m) == DigestLayers([q \in LeafIndices |-> LeafDigest(m.rows[q], m.effective, m.full)])

(* The commitment is to the whole leaves. *)
LEMMA CommitmentIs ==
    ASSUME NEW m \in Matrices
    PROVE  /\ IsTree(LayersOf(m)) /\ HashesLeaves(LayersOf(m), LeafOf(m)) /\ m.full \in Nat
           /\ \A q \in LeafIndices : IsRow(LeafOf(m)[q], m.full)
<1> DEFINE first == [q \in LeafIndices |-> LeafDigest(m.rows[q], m.effective, m.full)]
<1>1. /\ m.full % Rate = 0
      /\ m.full \in Nat /\ m.effective \in Nat /\ m.effective <= m.full
      /\ \A q \in LeafIndices : /\ m.rows[q] \in Seq(ToSet(m.rows[q]))
                                /\ Len(m.rows[q]) \in m.effective..m.full
                                /\ \A k \in m.effective + 1..Len(m.rows[q]) : m.rows[q][k] = 0
  BY PruningAssumption
<1>2. LayersOf(m)[0] = first /\ IsTree(LayersOf(m))
  <2> HIDE DEF first
  <2>1. DigestLayers(first)[0] = first /\ IsTree(DigestLayers(first))
    BY LayersAreATree
  <2> QED
    BY <2>1 DEF LayersOf, first
<1>3. ASSUME NEW q \in LeafIndices
      PROVE  first[q] = HashSlice(LeafOf(m)[q]) /\ IsRow(LeafOf(m)[q], m.full)
  <2> DEFINE row == m.rows[q]
             effective == m.effective
             width == m.full
             n == width - Len(row)
  <2>1. /\ row \in Seq(ToSet(row)) /\ effective \in Nat /\ width \in Nat /\ width % Rate = 0
        /\ Len(row) \in effective..width
        /\ \A k \in effective + 1..Len(row) : row[k] = 0
    BY <1>1
  <2>2. first[q] = LeafDigest(row, effective, width) /\ LeafOf(m)[q] = row \o Zeros(n)
    BY DEF LeafOf
  <2> HIDE DEF row, effective, width
  <2>3. effective <= Len(row) /\ Len(row) <= width /\ Len(row) \in Nat /\ n \in Nat /\ Len(row) + n = width
    BY <2>1
  <2>4. LeafDigest(row, effective, width) = HashSlice(row \o Zeros(n))
    BY <2>1, <2>3, LeafDigestIs
  <2>5. row \o Zeros(n) = Completed(row, n)
    BY <2>1, <2>3, CompletedIs
  <2>6. IsRow(Completed(row, n), width)
    BY <2>3 DEF Completed, IsRow
  <2> QED
    BY <2>2, <2>4, <2>5, <2>6 DEF width
<1>4. HashesLeaves(LayersOf(m), LeafOf(m))
  BY <1>2, <1>3 DEF HashesLeaves
<1> QED
  BY <1>1, <1>2, <1>3, <1>4

(* Before the commitment nothing is queried; after it the layers are the commitment's, every query is
   answered by the opening of its leaf, and what the proof and the verifier hold comes from the
   openings. *)
QueryInv ==
    /\ queries \in Seq(LeafIndices)
    /\ IF matrix = NoMatrix THEN queries = <<>> ELSE matrix \in Matrices /\ layers = LayersOf(matrix)
    /\ paths = [k \in 1..Len(queries) |-> Opening(layers, LeafOf(matrix), queries[k])]
    /\ phase \in {"open", "hinted", "restored"}
    /\ phase # "open" => queries # <<>> /\ proof = Prune(paths)
    /\ IF phase = "restored" THEN restored = Restore(proof) ELSE restored = Refused

LEMMA QueryInvInit == Init => QueryInv
<1> SUFFICES ASSUME Init PROVE QueryInv
  OBVIOUS
<1>1. /\ matrix = NoMatrix /\ queries = <<>> /\ paths = <<>>
      /\ phase = "open" /\ restored = Refused
  BY DEF Init, PruneInit
<1>2. <<>> = [k \in 1..Len(<<>>) |-> Opening(layers, LeafOf(matrix), queries[k])]
  OBVIOUS
<1> QED
  BY <1>1, <1>2 DEF QueryInv

(* One more value at the end of a sequence. *)
LEMMA AppendedIs ==
    ASSUME NEW s, NEW n \in Nat, s = [k \in 1..n |-> s[k]], NEW e
    PROVE  Append(s, e) = [k \in 1..n + 1 |-> IF k <= n THEN s[k] ELSE e]
<1>1. s \in Seq(ToSet(s)) /\ Len(s) = n
  BY SequenceIs
<1> QED
  BY <1>1

LEMMA QueryInvNext == QueryInv /\ [Next]_vars => QueryInv'
<1> SUFFICES ASSUME QueryInv, [Next]_vars PROVE QueryInv'
  OBVIOUS
<1>0. /\ queries \in Seq(LeafIndices)
      /\ IF matrix = NoMatrix THEN queries = <<>> ELSE matrix \in Matrices /\ layers = LayersOf(matrix)
      /\ paths = [k \in 1..Len(queries) |-> Opening(layers, LeafOf(matrix), queries[k])]
      /\ phase \in {"open", "hinted", "restored"}
      /\ phase # "open" => queries # <<>> /\ proof = Prune(paths)
      /\ IF phase = "restored" THEN restored = Restore(proof) ELSE restored = Refused
  BY DEF QueryInv
<1>1. CASE UNCHANGED pruneVars
  BY <1>0, <1>1 DEF QueryInv, pruneVars
<1>2. ASSUME NEW m \in Matrices, StartQueries(m) PROVE QueryInv'
  <2>1. /\ matrix = NoMatrix /\ matrix' = m /\ layers' = LayersOf(m)
        /\ UNCHANGED <<queries, paths, phase, proof, restored>>
    BY <1>2 DEF StartQueries, Commit, LayersOf
  <2>2. queries = <<>> /\ phase = "open" /\ paths = <<>>
    BY <1>0, <2>1
  <2>3. paths' = [k \in 1..Len(queries') |-> Opening(layers', LeafOf(matrix'), queries'[k])]
    BY <2>1, <2>2
  <2>4. (IF matrix = NoMatrix THEN queries = <<>> ELSE matrix \in Matrices /\ layers = LayersOf(matrix))'
    BY <2>1, <2>2
  <2> QED
    BY <1>0, <2>1, <2>2, <2>3, <2>4 DEF QueryInv
<1>3. ASSUME NEW q \in LeafIndices, Query(q) PROVE QueryInv'
  <2> DEFINE n == Len(queries)
             path == Opening(layers, LeafOf(matrix), q)
  <2>1. /\ matrix # NoMatrix /\ phase = "open"
        /\ queries' = Append(queries, q) /\ paths' = Append(paths, Open(q))
        /\ UNCHANGED <<matrix, layers, phase, proof, restored>>
    BY <1>3 DEF Query
  <2>2. Open(q) = path
    BY DEF Open, Opening, LeafOf
  <2>3. /\ queries' \in Seq(LeafIndices) /\ n \in Nat /\ Len(queries') = n + 1
        /\ queries'[n + 1] = q
        /\ \A k \in 1..n : queries'[k] = queries[k]
    BY <1>0, <2>1
  <2>4. paths = [k \in 1..n |-> paths[k]] /\ \A k \in 1..n : paths[k] = Opening(layers, LeafOf(matrix), queries[k])
    BY <1>0
  <2> HIDE DEF n, path
  <2>5. paths' = [k \in 1..n + 1 |-> IF k <= n THEN paths[k] ELSE path]
    BY <2>1, <2>2, <2>3, <2>4, AppendedIs
  <2>6. \A k \in 1..n + 1 : (IF k <= n THEN paths[k] ELSE path) = Opening(layers, LeafOf(matrix), queries'[k])
    <3>1. ASSUME NEW k \in 1..n + 1, k <= n
          PROVE  paths[k] = Opening(layers, LeafOf(matrix), queries'[k])
      <4>1. k \in 1..n
        BY <2>3, <3>1
      <4> QED
        BY <2>3, <2>4, <4>1
    <3>2. ASSUME NEW k \in 1..n + 1, ~(k <= n)
          PROVE  path = Opening(layers, LeafOf(matrix), queries'[k])
      <4>1. k = n + 1
        BY <2>3, <3>2
      <4> QED
        BY <2>3, <4>1 DEF path
    <3> QED
      BY <3>1, <3>2
  <2>7. paths' = [k \in 1..Len(queries') |-> Opening(layers', LeafOf(matrix'), queries'[k])]
    BY <2>1, <2>3, <2>5, <2>6
  <2> QED
    BY <1>0, <2>1, <2>3, <2>7 DEF QueryInv
<1>4. CASE HintPaths
  <2>1. /\ phase = "open" /\ paths # <<>> /\ phase' = "hinted" /\ proof' = Prune(paths)
        /\ UNCHANGED <<matrix, layers, queries, paths, restored>>
    BY <1>4 DEF HintPaths
  <2>2. queries # <<>>
    BY <1>0, <2>1
  <2> QED
    BY <1>0, <2>1, <2>2 DEF QueryInv
<1>5. CASE RestorePaths
  BY <1>0, <1>5 DEF RestorePaths, QueryInv
<1> QED
  BY <1>1, <1>2, <1>3, <1>4, <1>5 DEF Next, OpenNext, vars

LEMMA QueryInvAlways == Spec => []QueryInv
<1> QED
  BY QueryInvInit, QueryInvNext, PTL DEF Spec

(* Once there are queries, the paths are openings of the tree of the matrix. *)
LEMMA PathsAreOpenings ==
    ASSUME QueryInv, queries # <<>>
    PROVE  /\ matrix \in Matrices /\ layers = LayersOf(matrix)
           /\ AreOpenings(paths, layers, LeafOf(matrix), matrix.full)
           /\ IsTree(layers) /\ HashesLeaves(layers, LeafOf(matrix))
           /\ Len(paths) = Len(queries) /\ Len(queries) \in Nat
           /\ \A k \in 1..Len(queries) : queries[k] \in LeafIndices /\ paths[k].leafIndex = queries[k]
<1> DEFINE n == Len(queries)
<1>1. matrix \in Matrices /\ layers = LayersOf(matrix)
  BY DEF QueryInv
<1>2. /\ IsTree(layers) /\ HashesLeaves(layers, LeafOf(matrix)) /\ matrix.full \in Nat
      /\ \A q \in LeafIndices : IsRow(LeafOf(matrix)[q], matrix.full)
  BY <1>1, CommitmentIs
<1>3. n \in Nat \ {0} /\ \A k \in 1..n : queries[k] \in LeafIndices
  BY DEF QueryInv
<1>4. paths = [k \in 1..n |-> Opening(layers, LeafOf(matrix), queries[k])]
  BY DEF QueryInv
<1> HIDE DEF n
<1>5. Len(paths) = n /\ paths = [k \in 1..n |-> paths[k]]
  BY <1>3, <1>4
<1>6. ASSUME NEW k \in 1..n
      PROVE  paths[k].leafIndex = queries[k] /\ paths[k] = Opening(layers, LeafOf(matrix), queries[k])
  <2> DEFINE q == queries[k]
  <2>1. paths[k] = Opening(layers, LeafOf(matrix), q)
    BY <1>4
  <2> HIDE DEF q
  <2>2. paths[k].leafIndex = q
    BY <2>1 DEF Opening
  <2> QED
    BY <2>1, <2>2 DEF q
<1>7. AreOpenings(paths, layers, LeafOf(matrix), matrix.full)
  BY <1>2, <1>3, <1>5, <1>6 DEF AreOpenings
<1> QED
  BY <1>1, <1>2, <1>3, <1>5, <1>6, <1>7 DEF n

(* What prune and restore do between them. *)
LEMMA RestoredIs ==
    ASSUME QueryInv, phase = "restored"
    PROVE  restored = IF Height >= MaxHeight \/ proof.trailingZeros > MaxTrailingZeros THEN Refused
                      ELSE [ok |-> TRUE, paths |-> paths]
<1>1. queries # <<>> /\ proof = Prune(paths) /\ restored = Restore(proof)
  BY DEF QueryInv
<1>2. /\ AreOpenings(paths, layers, LeafOf(matrix), matrix.full)
      /\ IsTree(layers) /\ HashesLeaves(layers, LeafOf(matrix))
  BY <1>1, PathsAreOpenings
<1>3. PICK n : IsPruned(proof, paths, layers, LeafOf(matrix), n)
  BY <1>1, <1>2, PruneIs
<1> DEFINE leafOf == LeafOf(matrix)
           F == matrix.full
<1> HIDE DEF leafOf, F
<1>4. AreOpenings(paths, layers, leafOf, F) /\ HashesLeaves(layers, leafOf)
  BY <1>2 DEF leafOf, F
<1>5. IsPruned(proof, paths, layers, leafOf, n)
  BY <1>3 DEF leafOf
<1> QED
  BY <1>1, <1>2, <1>4, <1>5, RestoreOfPruned

(* For every height, matrix and queries: the verifier restores the paths the prover opened, in their
   order and with their repetitions, or refuses what is over the limits. *)
THEOREM RestoredPathsAreThePathsOpened == Spec => []RestoreInvertsPrune
<1>1. QueryInv => RestoreInvertsPrune
  BY RestoredIs DEF RestoreInvertsPrune
<1> QED
  BY <1>1, QueryInvAlways, PTL

(* Every opening restored verifies against the root, at the index of the query, though the prover hashed
   the leaf without its zero columns. *)
THEOREM RestoredOpeningsVerify == Spec => []OpeningsVerify
<1>1. ASSUME QueryInv PROVE OpeningsVerify
  <2>1. SUFFICES ASSUME restored.ok, NEW k \in 1..Len(queries)
                 PROVE  MerkleVerify(Root(layers), queries[k], restored.paths[k].leaf, restored.paths[k].siblings)
    BY DEF OpeningsVerify
  <2>2. restored # Refused
    BY <2>1 DEF Refused
  <2>3. phase = "restored"
    BY <1>1, <2>2 DEF QueryInv
  <2>4. restored = [ok |-> TRUE, paths |-> paths]
    BY <1>1, <2>2, <2>3, RestoredIs
  <2>5. queries # <<>>
    BY <1>1, <2>3 DEF QueryInv
  <2> DEFINE q == queries[k]
             leafOf == LeafOf(matrix)
  <2>6. /\ q \in LeafIndices /\ IsTree(layers) /\ HashesLeaves(layers, leafOf)
        /\ paths[k] = Opening(layers, leafOf, q)
    BY <1>1, <2>5, PathsAreOpenings DEF QueryInv
  <2>7. restored.paths[k] = paths[k]
    BY <2>4
  <2> HIDE DEF q, leafOf
  <2> DEFINE leaf == leafOf[q]
  <2>8. restored.paths[k].leaf = leaf /\ restored.paths[k].siblings = OpenSiblings(layers, q)
    BY <2>6, <2>7 DEF Opening
  <2>9. layers[0][q] = HashSlice(leaf)
    BY <2>6 DEF HashesLeaves
  <2> HIDE DEF leaf
  <2>10. MerkleVerify(Root(layers), q, leaf, OpenSiblings(layers, q))
    BY <2>6, <2>9, OpeningVerifies
  <2> QED
    BY <2>8, <2>10 DEF q
<1> QED
  BY <1>1, QueryInvAlways, PTL

(* A digest of the tree kept for two paths would be above the ancestor the right one shares with its
   neighbour. *)
LEMMA KeptApart ==
    ASSUME NEW s, NEW n, LeftToRight(s, n), NEW i \in 1..n, NEW j \in 1..n, i < j,
           NEW l \in Kept(s, Height, i), l \in Kept(s, Height, j)
    PROVE  Sibling(Node(s[i], l)) # Sibling(Node(s[j], l))
<1>0. n \in Nat /\ j - 1 \in 1..n /\ j # 1 /\ i <= j - 1 /\ j - 1 < j
  BY DEF LeftToRight
<1>1. /\ s[i] \in LeafIndices /\ s[j] \in LeafIndices /\ s[j - 1] \in LeafIndices
      /\ \A x, y \in 1..n : x < y => s[x] < s[y]
  BY <1>0 DEF LeftToRight
<1>2. s[i] \in Nat /\ s[j] \in Nat /\ s[j - 1] \in Nat /\ s[i] <= s[j - 1] /\ s[j - 1] <= s[j]
  <2>1. s[i] \in Nat /\ s[j] \in Nat /\ s[j - 1] \in Nat
    BY <1>1, NodeInLevel
  <2>2. s[j - 1] < s[j]
    BY <1>0, <1>1
  <2>3. CASE i = j - 1
    BY <2>1, <2>2, <2>3
  <2>4. CASE i < j - 1
    BY <1>0, <1>1, <2>1, <2>2, <2>4
  <2> QED
    BY <1>0, <2>1, <2>3, <2>4
<1>3. Levels(s, Height, j) = LcaLevel(s[j - 1], s[j])
  BY <1>0 DEF Levels
<1>4. LcaLevel(s[j - 1], s[j]) \in 0..Height /\ Height \in Nat
  BY <1>1, LcaIs, LevelIs
<1>5. /\ l \in 0..LcaLevel(s[j - 1], s[j]) - 1 /\ l \in Nat /\ l \in 0..Height - 1 /\ l \in 0..Height
  BY <1>3, <1>4 DEF Kept
<1>6. Node(s[j - 1], l) # Node(s[j], l)
  BY <1>1, <1>5, LcaIs
<1> DEFINE a == Node(s[i], l)
           b == Node(s[j - 1], l)
           c == Node(s[j], l)
<1>7. a <= b /\ b <= c
  BY <1>2, <1>5, NodesGrow
<1>8. a \in Level(l) /\ c \in Level(l) /\ a \in Nat /\ b \in Nat /\ c \in Nat
  BY <1>1, <1>2, <1>5, NodeInLevel, NodeIs
<1> HIDE DEF a, b, c
<1>9. a < c
  BY <1>6, <1>7, <1>8 DEF b, c
<1>10. Sibling(a) = Sibling(c) => a = c
  <2>1. /\ a % 2 = 0 => a = 2 * (a \div 2) /\ Sibling(a) = 2 * (a \div 2) + 1
        /\ a % 2 # 0 => a = 2 * (a \div 2) + 1 /\ Sibling(a) = 2 * (a \div 2)
    BY <1>5, <1>8, FamilyIs
  <2>2. /\ c % 2 = 0 => c = 2 * (c \div 2) /\ Sibling(c) = 2 * (c \div 2) + 1
        /\ c % 2 # 0 => c = 2 * (c \div 2) + 1 /\ Sibling(c) = 2 * (c \div 2)
    BY <1>5, <1>8, FamilyIs
  <2>3. a \div 2 \in Nat /\ c \div 2 \in Nat
    BY <1>8
  <2> DEFINE ha == a \div 2
             hc == c \div 2
  <2> HIDE DEF ha, hc
  <2>4. /\ \/ a = 2 * ha /\ Sibling(a) = 2 * ha + 1
           \/ a = 2 * ha + 1 /\ Sibling(a) = 2 * ha
        /\ \/ c = 2 * hc /\ Sibling(c) = 2 * hc + 1
           \/ c = 2 * hc + 1 /\ Sibling(c) = 2 * hc
        /\ ha \in Nat /\ hc \in Nat
    BY <2>1, <2>2, <2>3 DEF ha, hc
  <2> QED
    BY <2>4
<1> QED
  BY <1>8, <1>9, <1>10 DEF a, c

(* No digest travels twice, for any queries. *)
THEOREM EachDigestTravelsOnce == Spec => []NoDigestTwice
<1>1. ASSUME QueryInv PROVE NoDigestTwice
  <2>1. SUFFICES ASSUME phase # "open", NEW i \in 1..Len(proof.indices), NEW j \in 1..Len(proof.indices), i # j
                 PROVE  StoredNodes(i) \cap StoredNodes(j) = {}
    BY DEF NoDigestTwice
  <2>2. queries # <<>> /\ proof = Prune(paths)
    BY <1>1, <2>1 DEF QueryInv
  <2>3. AreOpenings(paths, layers, LeafOf(matrix), matrix.full)
    BY <1>1, <2>2, PathsAreOpenings
  <2>4. PICK n : IsPruned(proof, paths, layers, LeafOf(matrix), n)
    BY <2>2, <2>3, PruneIs
  <2> DEFINE s == proof.indices
  <2>5. LeftToRight(s, n) /\ Len(s) = n /\ n \in Nat
    BY <2>4 DEF IsPruned, ComesFrom, LeftToRight
  <2>6. ASSUME NEW x \in StoredNodes(i), x \in StoredNodes(j) PROVE FALSE
    <3>1. PICK l \in Kept(s, Height, i) : x = <<l, Sibling(Node(s[i], l))>>
      BY <2>6 DEF StoredNodes, Node
    <3>2. PICK m \in Kept(s, Height, j) : x = <<m, Sibling(Node(s[j], m))>>
      BY <2>6 DEF StoredNodes, Node
    <3>3. l = m /\ Sibling(Node(s[i], l)) = Sibling(Node(s[j], l))
      BY <3>1, <3>2
    <3>4. l \in Kept(s, Height, j)
      BY <3>2, <3>3
    <3>5. i \in 1..n /\ j \in 1..n
      BY <2>5
    <3> HIDE DEF s
    <3>6. CASE i < j
      BY <2>5, <3>1, <3>3, <3>4, <3>5, <3>6, KeptApart
    <3>7. CASE j < i
      BY <2>5, <3>1, <3>3, <3>4, <3>5, <3>7, KeptApart
    <3> QED
      BY <2>1, <2>5, <3>5, <3>6, <3>7
  <2> QED
    BY <2>6
<1> QED
  BY <1>1, QueryInvAlways, PTL

-----------------------------------------------------------------------------
(* The proof of work: for any number of workers, any order and any width of    *)
(* the lanes, the Mutex holds a witness when the search has ended well, and    *)
(* the search only fails when there is none.                                   *)

(* A witness is in a batch that is untested or being tested, or some worker    *)
(* has found one.                                                              *)
Accounted(w) ==
    \/ \E b \in untested : w \in Lane(b)
    \/ \E t \in Threads : pc[t] = "testing" /\ w \in Lane(batch[t])
    \/ \E t \in Threads : pc[t] = "found"
    \/ found

SomebodyFound == found \/ \E t \in Threads : pc[t] = "found"

DoneMeansOver == (\E t \in Threads : pc[t] = "done") => found \/ untested = {}

(* The strengthening that is inductive: a search that ends without a flag has  *)
(* nowhere left to hide a witness.                                             *)
GrindInv ==
    /\ GrindTypeOK
    /\ witnessFound \in passing \cup {NoWitness}
    /\ SomebodyFound => witnessFound # NoWitness
    /\ DoneMeansOver
    /\ \A w \in passing : Accounted(w)
    /\ FailsOnlyWithoutWitness

USE GrindingAssumption

(* Every candidate is in the lane of some batch. *)
LEMMA LanesCover ==
    ASSUME lanes \in LaneWidths, NEW w \in Candidates
    PROVE  \E b \in Batches : w \in Lane(b)
<1>1. w \div lanes \in Batches
  BY SMTT(30) DEF Candidates, Batches, NumBatches
<1>2. w \in Lane(w \div lanes)
  BY SMTT(30) DEF Candidates, Lane
<1> QED
  BY <1>1, <1>2

(* At first no batch is taken and nothing is written. *)
LEMMA InitInv == GrindInit => GrindInv
<1> SUFFICES ASSUME GrindInit PROVE GrindInv
  OBVIOUS
<1>0. 0 \in Batches
  <2>0. lanes \in LaneWidths /\ lanes \in Nat \ {0}
    BY DEF GrindInit
  <2>1. PICK b \in Batches : 0 \in Lane(b)
    BY <2>0, LanesCover DEF Candidates
  <2>2. NumBatches \in Nat
    BY <2>0 DEF NumBatches
  <2> QED
    BY <2>1, <2>2 DEF Batches
<1>1. GrindTypeOK
  BY <1>0 DEF GrindInit, GrindTypeOK
<1>2. \A w \in passing : Accounted(w)
  BY LanesCover DEF GrindInit, Accounted
<1> QED
  BY <1>1, <1>2 DEF GrindInit, GrindInv, SomebodyFound, DoneMeansOver, FailsOnlyWithoutWitness

(* Each step of a worker, and the collection of their results, keeps the invariant. *)
LEMMA NextInv == GrindInv /\ [GrindNext]_grindVars => GrindInv'
<1> SUFFICES ASSUME GrindInv, [GrindNext]_grindVars PROVE GrindInv'
  OBVIOUS
<1>0. Batches' = Batches /\ \A b : Lane(b)' = Lane(b)
  <2>1. lanes' = lanes
    BY DEF GrindNext, Worker, Take, Retire, Panic, Test, Report, Finish, grindVars
  <2> QED
    BY <2>1 DEF Batches, NumBatches, Lane
<1> USE <1>0 DEF GrindInv, GrindTypeOK
<1>1. ASSUME NEW t \in Threads, Take(t) PROVE GrindInv'
  <2> USE <1>1 DEF Take
  <2>1. PICK b \in untested : untested' = untested \ {b} /\ batch' = [batch EXCEPT ![t] = b]
    OBVIOUS
  <2>2. GrindTypeOK'
    BY <2>1
  <2>3. (SomebodyFound => witnessFound # NoWitness)' /\ DoneMeansOver'
    BY DEF SomebodyFound, DoneMeansOver
  <2>4. ASSUME NEW w \in passing' PROVE Accounted(w)'
    <3>1. Accounted(w)
      OBVIOUS
    <3>2. CASE w \in Lane(b)
      BY <2>1, <3>2 DEF Accounted, Lane
    <3>3. CASE w \notin Lane(b)
      BY <2>1, <3>1, <3>3 DEF Accounted, Lane
    <3> QED
      BY <3>2, <3>3
  <2> QED
    BY <2>2, <2>3, <2>4 DEF FailsOnlyWithoutWitness
<1>2. ASSUME NEW t \in Threads, Retire(t) PROVE GrindInv'
  <2> USE <1>2 DEF Retire
  <2>1. GrindTypeOK'
    OBVIOUS
  <2>2. (SomebodyFound => witnessFound # NoWitness)' /\ DoneMeansOver'
    BY DEF SomebodyFound, DoneMeansOver
  <2>3. ASSUME NEW w \in passing' PROVE Accounted(w)'
    BY <2>3 DEF Accounted, Lane
  <2> QED
    BY <2>1, <2>2, <2>3 DEF FailsOnlyWithoutWitness
<1>3. ASSUME NEW t \in Threads, Panic(t) PROVE GrindInv'
  BY <1>3 DEF Panic, SomebodyFound, DoneMeansOver, Accounted, Lane, FailsOnlyWithoutWitness
<1>4. ASSUME NEW t \in Threads, Test(t) PROVE GrindInv'
  <2> DEFINE hits == Lane(batch[t]) \cap passing
  <2> USE <1>4 DEF Test
  <2>1. CASE hits = {}
    <3>1. GrindTypeOK' /\ witnessFound' = witnessFound /\ pc' = [pc EXCEPT ![t] = "ready"]
      BY <2>1
    <3>2. (SomebodyFound => witnessFound # NoWitness)' /\ DoneMeansOver'
      BY <3>1 DEF SomebodyFound, DoneMeansOver
    <3>3. ASSUME NEW w \in passing' PROVE Accounted(w)'
      <4>1. Accounted(w) /\ w \notin Lane(batch[t])
        BY <2>1
      <4> QED
        BY <3>1, <4>1 DEF Accounted, Lane
    <3> QED
      BY <3>1, <3>2, <3>3 DEF FailsOnlyWithoutWitness
  <2>2. CASE hits # {}
    <3>1. witnessFound' \in passing /\ pc' = [pc EXCEPT ![t] = "found"]
      BY <2>2
    <3>2. GrindTypeOK'
      BY <3>1
    <3>3. (SomebodyFound => witnessFound # NoWitness)' /\ DoneMeansOver'
      BY <3>1 DEF SomebodyFound, DoneMeansOver, Candidates
    <3>4. pc'[t] = "found"
      BY <3>1
    <3> QED
      BY <3>1, <3>2, <3>3, <3>4 DEF Accounted, FailsOnlyWithoutWitness
  <2> QED
    BY <2>1, <2>2
<1>5. ASSUME NEW t \in Threads, Report(t) PROVE GrindInv'
  BY <1>5 DEF Report, SomebodyFound, DoneMeansOver, Accounted, FailsOnlyWithoutWitness
<1>6. ASSUME Finish PROVE GrindInv'
  <2> USE <1>6 DEF Finish
  <2>1. GrindTypeOK'
    OBVIOUS
  <2>2. ASSUME ~found PROVE passing = {}
    <3>1. untested = {}
      BY <2>2 DEF AllDone, DoneMeansOver
    <3>2. \A t \in Threads : pc[t] = "done"
      BY DEF AllDone
    <3>3. \A w \in passing : FALSE
      BY <2>2, <3>1, <3>2, Zenon DEF Accounted
    <3> QED
      BY <3>3
  <2>3. FailsOnlyWithoutWitness'
    BY <2>2 DEF FailsOnlyWithoutWitness
  <2>4. ASSUME NEW w \in passing' PROVE Accounted(w)'
    BY <2>4 DEF Accounted, Lane
  <2> QED
    BY <2>1, <2>3, <2>4 DEF SomebodyFound, DoneMeansOver
<1>7. CASE UNCHANGED grindVars
  BY <1>7 DEF grindVars, SomebodyFound, DoneMeansOver, Accounted, Lane, FailsOnlyWithoutWitness
<1> QED
  BY <1>1, <1>2, <1>3, <1>4, <1>5, <1>6, <1>7 DEF GrindNext, Worker

(* So it holds throughout a search. *)
LEMMA InvAlways == GrindSpec => []GrindInv
<1> QED
  BY InitInv, NextInv, PTL DEF GrindSpec

(* The Mutex is never empty once the flag is up, and what it holds passes,     *)
(* however many workers overwrite it.                                          *)
THEOREM MutexHoldsAWitness == GrindSpec => []TheMutexHoldsAWitness
<1>1. GrindInv => TheMutexHoldsAWitness
  BY DEF GrindInv, TheMutexHoldsAWitness, SomebodyFound
<1> QED
  BY <1>1, InvAlways, PTL

(* A search that fails has left no witness untested.                           *)
THEOREM NoWitnessIsMissed == GrindSpec => []FailsOnlyWithoutWitness
<1>1. GrindInv => FailsOnlyWithoutWitness
  BY DEF GrindInv
<1> QED
  BY <1>1, InvAlways, PTL

=============================================================================
