-------------------------------- MODULE Xmss --------------------------------
(***************************************************************************)
(* One XMSS key (crates/xmss/src): key generation over a range of slots,   *)
(* signing, and the two verifications, xmss_verify and the guest's         *)
(* xmss_verify of zkdsl_implem/xmss_aggregate.py.                          *)
(*                                                                         *)
(* Hashes are free: a digest is the tuple of what was hashed, the public   *)
(* parameter left out (there is one key).  The words that the encoding     *)
(* hash returns are a constant.                                            *)
(***************************************************************************)
EXTENDS Integers, SequencesExt

CONSTANTS
    LogLifetime,     \* LOG_LIFETIME
    V,               \* the number of chains
    W,               \* the bits of a digit of the encoding
    TargetSum,       \* TARGET_SUM
    WordBits,        \* the low bits of a field element that make digits (24)
    K,               \* the field has order K * 2^WordBits + 1 (127)
    Messages,        \* messages
    Randomness,      \* what the signer may draw
    EncodingWords,   \* [Messages \X slots \X Randomness -> words]: the encoding hash
    Ranges           \* the ranges of slots keys are generated for

LevelsPerChunk == 4
ChainLength == 2^W
P == K * 2^WordBits + 1
Slots == 0..2^LogLifetime - 1
DigitsPerWord == WordBits \div W

(* NUM_ENCODING_FE: the words the guest decomposes. *)
NumEncodingWords == (V + DigitsPerWord - 1) \div DigitsPerWord

ASSUME XmssAssumption ==
    /\ {LogLifetime, V, W, TargetSum, WordBits, K} \subseteq Nat \ {0}
    /\ LogLifetime % LevelsPerChunk = 0 /\ V % 2 = 0
    /\ WordBits % (2 * W) = 0
    /\ Ranges \subseteq Nat \X Nat
    /\ DOMAIN EncodingWords \subseteq Messages \X Slots \X Randomness
    /\ \A x \in DOMAIN EncodingWords :
          EncodingWords[x] \in Seq(0..P - 1) /\ Len(EncodingWords[x]) >= NumEncodingWords

VARIABLES
    key,        \* the secret key, or NoKey
    issued,     \* what the signer has signed: [message, slot, signature]
    presented,  \* what a verifier is given: [message, slot, signature]
    accepted    \* whether xmss_verify and the guest accept it

xmssVars == <<key, issued, presented, accepted>>

NoKey == <<>>
Undecided == <<>>

-----------------------------------------------------------------------------
(* Encoding. *)

(* to_little_endian_bits(kb, 24), in chunks of W bits. *)
WordDigit(word, j) == (word \div 2^(W * j)) % ChainLength

(* The digits of all the words, of which V are taken. *)
Digits(words) ==
    LET n == DigitsPerWord * Len(words)
    IN  [i \in 1..IF n < V THEN n ELSE V |->
            WordDigit(words[((i - 1) \div DigitsPerWord) + 1], (i - 1) % DigitsPerWord)]

Total(s) == LET sum[k \in 0..Len(s)] == IF k = 0 THEN 0 ELSE sum[k - 1] + s[k] IN sum[Len(s)]

(* A faulty IsValidEncoding: any sum will do. *)
AnyDigits(digits) == Len(digits) = V

IsValidEncoding(digits) == Len(digits) = V /\ Total(digits) = TargetSum

(* wots_encode: no digits where a word is -1 or the sum is not the target. *)
NoDigits == <<>>

WotsEncode(message, slot, randomness) ==
    LET words == EncodingWords[<<message, slot, randomness>>]
    IN  IF P - 1 \notin ToSet(words) /\ IsValidEncoding(Digits(words)) THEN Digits(words) ELSE NoDigits

-----------------------------------------------------------------------------
(* Chains. *)

WotsPreImage(slot, i) == <<slot, i>>

(* iterate_hash: n steps of chain i from a step, each under its own tweak. *)
IterateHash(a, n, slot, i, start) ==
    LET acc[j \in 0..n] == IF j = 0 THEN a ELSE <<acc[j - 1], slot, i, start + j - 1>> IN acc[n]

WotsLeaf(slot, ends) == <<slot, ends>>

WotsPublicKey(slot) == [i \in 1..V |-> IterateHash(WotsPreImage(slot, i), ChainLength - 1, slot, i, 0)]

(* recover_public_key *)
RecoverPublicKey(tips, digits, slot) ==
    [i \in 1..V |-> IterateHash(tips[i], ChainLength - 1 - digits[i], slot, i, digits[i])]

-----------------------------------------------------------------------------
(* The tree. *)

Parent(level, index, left, right) == <<level, index, left, right>>

(* gen_random_node: a node of the tree outside the key's range. *)
RandomNode(level, index) == <<level, index, 0>>

Shifted(slot, level) == slot \div 2^level

(* key generation: a node of a level of the tree, stored or derived from the seed. *)
StoredNode(layer, start, end, level, index) ==
    IF index \in Shifted(start, level)..Shifted(end, level) THEN layer[index] ELSE RandomNode(level, index)

(* xmss_key_gen: at each level the nodes over the range, from those of the level below. *)
Leaves(start, end) == [s \in start..end |-> WotsLeaf(s, WotsPublicKey(s))]

LevelAbove(layer, start, end, l) ==
    LET child(k) == StoredNode(layer, start, end, l - 1, k)
    IN  [i \in Shifted(start, l)..Shifted(end, l) |-> Parent(l, i, child(2 * i), child(2 * i + 1))]

KeyTree(start, end) ==
    LET tree[l \in 0..LogLifetime] ==
            IF l = 0 THEN Leaves(start, end) ELSE LevelAbove(tree[l - 1], start, end, l)
    IN  tree

Root(secret) == secret.tree[LogLifetime][0]

Neighbour(index) == IF index % 2 = 0 THEN index + 1 ELSE index - 1

(* A faulty PathNode: the end of the range is not shifted down to the level. *)
PathNodePastTop(secret, level, index) ==
    IF index < Shifted(secret.start, level) THEN RandomNode(level, index)
    ELSE IF index \in DOMAIN secret.tree[level] THEN secret.tree[level][index]
    ELSE IF index <= secret.end THEN secret.tree[level][Shifted(secret.end, level)]
    ELSE RandomNode(level, index)

(* signing: a neighbour of the path, stored or derived from the seed. *)
PathNode(secret, level, index) ==
    IF index < Shifted(secret.start, level) \/ index > Shifted(secret.end, level)
    THEN RandomNode(level, index)
    ELSE secret.tree[level][index]

MerkleProof(secret, slot) ==
    [l \in 1..LogLifetime |-> PathNode(secret, l - 1, Neighbour(Shifted(slot, l - 1)))]

-----------------------------------------------------------------------------
(* The verifications. *)

(* The fold of xmss_verify over the path. *)
PathStep(digest, node, slot, l) ==
    IF Shifted(slot, l - 1) % 2 = 0 THEN Parent(l, Shifted(slot, l), digest, node)
    ELSE Parent(l, Shifted(slot, l), node, digest)

PathRoot(leaf, proof, slot) ==
    LET hash[l \in 0..LogLifetime] == IF l = 0 THEN leaf ELSE PathStep(hash[l - 1], proof[l], slot, l)
    IN  hash[LogLifetime]

XmssVerify(root, message, slot, signature) ==
    LET digits == WotsEncode(message, slot, signature.randomness)
        leaf == WotsLeaf(slot, RecoverPublicKey(signature.tips, digits, slot))
    IN  /\ digits # NoDigits
        /\ Len(signature.proof) = LogLifetime
        /\ PathRoot(leaf, signature.proof, slot) = root

(* compute_tweak_table: what the guest finds in it for a chain, a tree level. *)
ChainTweak(slot, i, step) == <<slot, i, step>>
MerkleTweak(slot, level) == <<level + 1, Shifted(slot, level + 1)>>

(* compute_merkle_chunks_for_slot: the nibbles of the slot, inverted. *)
MerkleChunks(slot) ==
    [c \in 0..(LogLifetime \div LevelsPerChunk) - 1 |->
        15 - ((slot \div 2^(c * LevelsPerChunk)) % 2^LevelsPerChunk)]

(* The hinted pairs of digits that the guest's check of a word accepts. *)
PairBase == 2^(2 * W)
PairsPerWord == WordBits \div (2 * W)
PairSum(pairs) == Total([j \in 1..PairsPerWord |-> pairs[j] * 2^(2 * W * (j - 1))])

(* A faulty Remaining: compared with one more, as if -1 were a word like another. *)
RemainingWithLast(word, pairs) == (((PairSum(pairs) - word) * K) % P) <= K

Remaining(word, pairs) == (((PairSum(pairs) - word) * K) % P) < K

HashedWords == UNION {ToSet(SubSeq(EncodingWords[x], 1, NumEncodingWords)) : x \in DOMAIN EncodingWords}

AcceptedPairs ==
    [word \in HashedWords |-> {pairs \in [1..PairsPerWord -> 0..PairBase - 1] : Remaining(word, pairs)}]

(* chain_hash_pair splits a pair n into raw_a and raw_b. *)
PairDigits(pairs) ==
    [i \in 1..V |-> LET k == (i - 1) \div 2
                        n == pairs[(k \div PairsPerWord) + 1][(k % PairsPerWord) + 1]
                    IN  IF i % 2 = 1 THEN n % ChainLength ELSE (n - (n % ChainLength)) \div ChainLength]

(* The encodings some hint makes the guest accept. *)
GuestEncodings(message, slot, randomness) ==
    LET words == EncodingWords[<<message, slot, randomness>>]
        choices == {f \in [1..NumEncodingWords -> UNION {AcceptedPairs[words[k]] : k \in 1..NumEncodingWords}] :
                        \A k \in 1..NumEncodingWords : f[k] \in AcceptedPairs[words[k]]}
    IN  {digits \in {PairDigits(f) : f \in choices} : Total(digits) = TargetSum}

(* chain_hash_pa: num_hashes steps from the complement of num_hashes. *)
GuestChain(tip, digit, slot, i) ==
    LET hashes == ChainLength - 1 - digit
        starting == ChainLength - 1 - hashes
        acc[j \in 0..hashes] ==
            IF j = 0 THEN tip
            ELSE LET tweak == ChainTweak(slot, i, starting + j - 1)
                 IN  <<acc[j - 1], tweak[1], tweak[2], tweak[3]>>
    IN  acc[hashes]

(* do_4_merkle_levels: bit j of the chunk; 1 puts the running digest left. *)
ChunkBit(b, j) == (b \div 2^j) % 2

GuestPathStep(digest, node, slot, l) ==
    LET tweak == MerkleTweak(slot, l - 1)
        bit == ChunkBit(MerkleChunks(slot)[(l - 1) \div LevelsPerChunk], (l - 1) % LevelsPerChunk)
    IN  IF bit = 1 THEN Parent(tweak[1], tweak[2], digest, node) ELSE Parent(tweak[1], tweak[2], node, digest)

GuestPathRoot(leaf, nodes, slot) ==
    LET hash[l \in 0..LogLifetime] == IF l = 0 THEN leaf ELSE GuestPathStep(hash[l - 1], nodes[l], slot, l)
    IN  hash[LogLifetime]

GuestVerify(root, message, slot, signature) ==
    \E digits \in GuestEncodings(message, slot, signature.randomness) :
        /\ Len(signature.proof) = LogLifetime
        /\ GuestPathRoot(WotsLeaf(slot, [i \in 1..V |-> GuestChain(signature.tips[i], digits[i], slot, i)]),
                         signature.proof, slot) = root

-----------------------------------------------------------------------------
(* Key generation, signing, and what a verifier may be given. *)

XmssInit == key = NoKey /\ issued = {} /\ presented = <<>> /\ accepted = Undecided

(* xmss_key_gen *)
KeyGen(start, end) ==
    /\ key = NoKey
    /\ start <= end /\ end < 2^LogLifetime
    /\ key' = [start |-> start, end |-> end, tree |-> KeyTree(start, end)]
    /\ UNCHANGED <<issued, presented, accepted>>

(* xmss_sign: randomness is drawn until the encoding is valid, then the slot    *)
(* is checked.  A slot outside the range is an error, and nothing is signed.   *)
Sign(message, slot, randomness) ==
    /\ key # NoKey
    /\ issued = {}
    /\ WotsEncode(message, slot, randomness) # NoDigits
    /\ slot >= key.start /\ slot <= key.end
    /\ LET digits == WotsEncode(message, slot, randomness)
           signature == [randomness |-> randomness,
                         tips |-> [i \in 1..V |-> IterateHash(WotsPreImage(slot, i), digits[i], slot, i, 0)],
                         proof |-> MerkleProof(key, slot)]
       IN  issued' = {[message |-> message, slot |-> slot, signature |-> signature]}
    /\ UNCHANGED <<key, presented, accepted>>

(* A verifier is given a signature. *)
Present(s) ==
    /\ presented = <<>>
    /\ presented' = s
    /\ UNCHANGED <<key, issued, accepted>>

(* What was signed, as it was signed. *)
PresentAsIs == \E s \in issued : Present(s)

(* The signature for another message, slot or randomness: whoever holds the     *)
(* tips can hash them further, and reuse the path.                             *)
PresentMovedOn(message, slot, randomness) ==
    /\ presented = <<>>
    /\ \E s \in issued :
           LET from == WotsEncode(s.message, s.slot, s.signature.randomness)
               to == LET native == WotsEncode(message, slot, randomness)
                     IN  IF native # NoDigits THEN {native} ELSE GuestEncodings(message, slot, randomness)
           IN  \E digits \in to :
                   LET further(i) == IF digits[i] > from[i] THEN digits[i] - from[i] ELSE 0
                       tips == [i \in 1..V |-> IterateHash(s.signature.tips[i], further(i), slot, i, from[i])]
                   IN  Present([message |-> message, slot |-> slot,
                                signature |-> [s.signature EXCEPT !.randomness = randomness, !.tips = tips]])

(* A signature damaged on its way: one node of the path, or its last one lost. *)
PresentDamaged(l) ==
    \E s \in issued :
        \/ Present([s EXCEPT !.signature.proof[l] = RandomNode(LogLifetime, l)])
        \/ l = LogLifetime /\ Present([s EXCEPT !.signature.proof = Front(@)])

(* xmss_verify, and the guest with the best hints there are. *)
Verify ==
    /\ presented # <<>>
    /\ accepted = Undecided
    /\ accepted' = [native |-> XmssVerify(Root(key), presented.message, presented.slot, presented.signature),
                    guest |-> GuestVerify(Root(key), presented.message, presented.slot, presented.signature)]
    /\ UNCHANGED <<key, issued, presented>>

XmssNext ==
    \/ \E r \in Ranges : KeyGen(r[1], r[2])
    \/ \E x \in DOMAIN EncodingWords : Sign(x[1], x[2], x[3])
    \/ PresentAsIs
    \/ \E x \in DOMAIN EncodingWords : PresentMovedOn(x[1], x[2], x[3])
    \/ \E l \in 1..LogLifetime : PresentDamaged(l)
    \/ Verify

-----------------------------------------------------------------------------
(* Properties *)

(* Every signature a key issues verifies, natively and in the guest, wherever   *)
(* the key's range lies in the tree and the slot in the range: key generation  *)
(* and signing agree, level by level, on the nodes outside the range.          *)
IssuedSignaturesVerify ==
    accepted # Undecided /\ presented \in issued => accepted.native /\ accepted.guest

(* The guest accepts what xmss_verify accepts: inverted nibbles, pairs of      *)
(* digits and the tweak table give the same leaf, the same path and the same   *)
(* order of children.  It accepts more only where a word of the encoding hash  *)
(* that it does not decompose is -1.                                           *)
GuestAgreesWithVerify ==
    accepted # Undecided =>
        LET words == EncodingWords[<<presented.message, presented.slot, presented.signature.randomness>>]
        IN  \/ accepted.native = accepted.guest
            \/ accepted.guest /\ \E k \in NumEncodingWords + 1..Len(words) : words[k] = P - 1

(* The tips of one signature serve no other encoding: what a verifier accepts  *)
(* has the slot and the encoding of something the signer signed.  Hashing tips *)
(* further raises digits, and the target sum leaves no room for that.          *)
OnlySignedEncodingsVerify ==
    accepted # Undecided =>
        LET encodings(m, slot, r) ==
                (IF accepted.native THEN {WotsEncode(m, slot, r)} ELSE {})
                    \cup (IF accepted.guest THEN GuestEncodings(m, slot, r) ELSE {})
        IN  \A digits \in encodings(presented.message, presented.slot, presented.signature.randomness) :
                \E s \in issued : s.slot = presented.slot
                                 /\ digits = WotsEncode(s.message, s.slot, s.signature.randomness)

=============================================================================
