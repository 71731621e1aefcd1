---------------------------- MODULE MerklePaths ----------------------------
(***************************************************************************)
(* The commitment to a matrix, one leaf per row (crates/whir/src/merkle.rs *)
(* and crates/backend/symetric/src): the sponge that hashes a leaf from    *)
(* right to left, the shortcut for the columns known to be zero, the       *)
(* digest layers, the openings and their verification.  The compression    *)
(* function is free: equal digests are digests of equal data.              *)
(*                                                                         *)
(* prune and restore (crates/backend/fiat-shamir/src/merkle_pruning.rs):   *)
(* the openings of one commitment travel sorted and without duplicates,    *)
(* without the siblings the verifier can recompute from the opening on the *)
(* right, and without the zeros common to all leaves.                      *)
(***************************************************************************)
EXTENDS Naturals, Sequences, FiniteSets, FiniteSetsExt, SequencesExt

CONSTANTS
    Rate,             \* RATE: field elements absorbed per compression
    Height,           \* of the tree: 2^Height leaves
    MaxHeight,        \* restore refuses a tree of this height (32) ...
    MaxTrailingZeros  \* ... and more stripped zeros than this (1024)

ASSUME TreeAssumption == Rate \in Nat \ {0} /\ Height \in Nat
ASSUME LimitsAssumption == {MaxHeight, MaxTrailingZeros} \subseteq Nat

-----------------------------------------------------------------------------
(* The tree. *)
LeafIndices == 0..2^Height - 1

(* symetric::compress, and compress_mut on a state whose first half is l. *)
Compress(l, r) == <<"compress", l, r>>

Zeros(n) == [k \in 1..n |-> 0]

Chunks(data) ==
    [k \in 1..Len(data) \div Rate |-> <<"chunk", SubSeq(data, (k - 1) * Rate + 1, k * Rate)>>]

ZeroChunk == <<"chunk", Zeros(Rate)>>

(* absorb_rtl_chunks: the last chunk first. *)
AbsorbRtl(initial, chunks) ==
    LET n == Len(chunks)
        state[k \in 0..n] == IF k = 0 THEN initial ELSE Compress(state[k - 1], chunks[n + 1 - k])
    IN  state[n]

(* hash_slice, and hash_rtl_iter: the first state is the last two chunks. *)
HashSlice(data) ==
    LET c == Chunks(data)
        n == Len(c)
    IN  AbsorbRtl(Compress(c[n - 1], c[n]), SubSeq(c, 1, n - 2))

PrecomputeZeroSuffixState(n) ==
    AbsorbRtl(Compress(ZeroChunk, ZeroChunk), [k \in 1..n - 2 |-> ZeroChunk])

(* A mutant of Padding: the last chunk of the row is not completed. *)
NoPadding(effective) == 0

Padding(effective) == (Rate - (effective % Rate)) % Rate

(* The digest of a row of the matrix, whose columns from `effective` on are    *)
(* zero and whose columns past its own length up to `full` are not stored.     *)
LeafDigest(row, effective, full) ==
    LET suffix == (full - effective) \div Rate
    IN  IF suffix >= 2
        THEN AbsorbRtl(PrecomputeZeroSuffixState(suffix),
                       Chunks(SubSeq(row, 1, effective) \o Zeros(Padding(effective))))
        ELSE HashSlice(row \o Zeros(full - Len(row)))

(* MerkleTree::from_first_layer, compress_layer. *)
DigestLayers(first) ==
    LET layer[l \in 0..Height] ==
            IF l = 0 THEN first
            ELSE [k \in 0..2^(Height - l) - 1 |->
                     Compress(layer[l - 1][2 * k], layer[l - 1][2 * k + 1])]
    IN  layer

Root(layers) == layers[Height][0]

(* x ^ 1 *)
Sibling(k) == IF k % 2 = 0 THEN k + 1 ELSE k - 1

OpenSiblings(layers, index) ==
    [l \in 1..Height |-> layers[l - 1][Sibling(index \div 2^(l - 1))]]

(* One step up: the digest of a node and its sibling, by the index of the node. *)
Parent(index, hash, sibling) ==
    IF index % 2 = 0 THEN Compress(hash, sibling) ELSE Compress(sibling, hash)

MerkleVerify(root, index, data, proof) ==
    /\ Len(proof) = Height
    /\ root = LET hash[l \in 0..Height] ==
                      IF l = 0 THEN HashSlice(data)
                      ELSE Parent(index \div 2^(l - 1), hash[l - 1], proof[l])
              IN  hash[Height]

-----------------------------------------------------------------------------
(* The pruned paths. *)

(* What restore returns instead of None. *)
Refused == [ok |-> FALSE, paths |-> <<>>]

(* The number of levels below the lowest common ancestor of two leaves. *)
LcaLevel(a, b) == Min({l \in 0..Height : a \div 2^l = b \div 2^l})

(* A mutant of Levels: the sibling at the shared ancestor too. *)
LevelsThroughLca(indices, h, i) == IF i = 1 THEN h ELSE LcaLevel(indices[i - 1], indices[i]) + 1

(* levels and skip, the closures of prune and of restore: how many siblings    *)
(* below the ancestor shared with the leaf on the left, and which of them is   *)
(* the subtree of the leaf on the right.                                       *)
Levels(indices, h, i) == IF i = 1 THEN h ELSE LcaLevel(indices[i - 1], indices[i])

Skips(indices, i, lvl) == i < Len(indices) /\ lvl = LcaLevel(indices[i], indices[i + 1]) - 1

Kept(indices, h, i) == {lvl \in 0..Levels(indices, h, i) - 1 : ~Skips(indices, i, lvl)}

(* A mutant of TrailingZeros: one leaf speaks for all. *)
TrailingZerosOfFirst(leaves) ==
    Len(leaves[1]) - Max({k \in 1..Len(leaves[1]) : leaves[1][k] # 0} \cup {0})

(* The trailing positions where every leaf is zero. *)
TrailingZeros(leaves) ==
    LET n == Len(leaves[1])
        used == {k \in 1..n : \E i \in 1..Len(leaves) : leaves[i][k] # 0}
    IN  n - Max(used \cup {0})

(* A set of numbers in order: each comes after those that are smaller. *)
InOrder(S) == [i \in 1..Cardinality(S) |-> CHOOSE k \in S : Cardinality({l \in S : l < k}) = i - 1]

SortedIndices(paths) == InOrder({p.leafIndex : p \in ToSet(paths)})

Prune(paths) ==
    LET sorted == SortedIndices(paths)
        first(q) == paths[SelectInSeq(paths, LAMBDA p : p.leafIndex = q)]
        deduped == [i \in 1..Len(sorted) |-> first(sorted[i])]
        h == Len(paths[1].siblings)
        zeros == TrailingZeros([i \in 1..Len(sorted) |-> deduped[i].leaf])
        siblings(i) ==
            LET kept == InOrder(Kept(sorted, h, i))
            IN  [k \in 1..Len(kept) |-> deduped[i].siblings[kept[k] + 1]]
    IN  [merkleHeight |-> h,
         originalOrder |-> [k \in 1..Len(paths) |->
                               SelectInSeq(sorted, LAMBDA q : q = paths[k].leafIndex)],
         leafData |-> [i \in 1..Len(sorted) |->
                          SubSeq(deduped[i].leaf, 1, Len(deduped[i].leaf) - zeros)],
         indices |-> sorted,
         siblings |-> [i \in 1..Len(sorted) |-> siblings(i)],
         trailingZeros |-> zeros]

-----------------------------------------------------------------------------

(* The stored sibling of level lvl is the next one of the iterator. *)
StoredSibling(p, i, lvl) ==
    p.siblings[i][Cardinality({l \in Kept(p.indices, p.merkleHeight, i) : l <= lvl})]

(* Backward pass: subtree[i][l] is the digest of the ancestor of leaf i at     *)
(* level l, for the levels below the ancestor shared with leaf i - 1.          *)
SubtreeHashes(p, leaves) ==
    LET h == p.merkleHeight
        n == Len(p.indices)
        subtree[i \in 1..n] ==
            LET hash[l \in 0..Levels(p.indices, h, i)] ==
                    IF l = 0 THEN HashSlice(leaves[i])
                    ELSE Parent(p.indices[i] \div 2^(l - 1), hash[l - 1],
                                IF Skips(p.indices, i, l - 1) THEN subtree[i + 1][l - 1]
                                ELSE StoredSibling(p, i, l - 1))
            IN  hash
    IN  subtree

(* Forward pass: the siblings above the shared ancestor are those of the path  *)
(* on the left.                                                                *)
FullSiblings(p, leaves) ==
    LET h == p.merkleHeight
        subtree == SubtreeHashes(p, leaves)
        full[i \in 1..Len(p.indices)] ==
            [l \in 1..h |->
                IF l > Levels(p.indices, h, i) THEN full[i - 1][l]
                ELSE IF Skips(p.indices, i, l - 1) THEN subtree[i + 1][l - 1]
                ELSE StoredSibling(p, i, l - 1)]
    IN  full

(* The early returns and the `?`s: the limits, and whatever is missing. *)
Complete(p) ==
    /\ p.merkleHeight < MaxHeight
    /\ p.trailingZeros <= MaxTrailingZeros
    /\ \A i \in 1..Len(p.indices) :
          /\ p.indices[i] < 2^p.merkleHeight
          /\ i <= Len(p.leafData)
          /\ Cardinality(Kept(p.indices, p.merkleHeight, i)) <= Len(p.siblings[i])
    /\ ToSet(p.originalOrder) \subseteq 1..Len(p.indices)

Restore(p) ==
    IF ~Complete(p) THEN Refused
    ELSE LET leaves == [i \in 1..Len(p.leafData) |-> p.leafData[i] \o Zeros(p.trailingZeros)]
             full == FullSiblings(p, leaves)
             path(i) == [leaf |-> leaves[i], siblings |-> full[i], leafIndex |-> p.indices[i]]
         IN  [ok |-> TRUE,
              paths |-> [k \in 1..Len(p.originalOrder) |-> path(p.originalOrder[k])]]

=============================================================================
