---------------------------- MODULE PackedField ----------------------------
(***************************************************************************)
(* A register of field elements, as every backend holds it: one element    *)
(* after another (monty_31.rs) or packed for AVX2, AVX-512 and NEON.       *)
(* `value` is what the register stands for, in the integers modulo P;      *)
(* `words` are the machine words.  An operation of the packed fields acts  *)
(* on both.                                                                *)
(*                                                                         *)
(* Operands are patterns: the words of the register differ, so that an     *)
(* operation that takes a word of another place shows.                     *)
(***************************************************************************)
EXTENDS FieldWords

CONSTANTS
    Width,          \* the words of a vector
    DotLengths,     \* the lengths of dot products and sums
    Exponents,      \* the exponents of powers of two
    Integers128,    \* integers that are converted
    PowerStarts,    \* the elements that powers are collected from
    Strides,        \* how the operands of a dot product vary
    MaxOperations   \* a bound on the operations on one register

A2 == INSTANCE Avx2Words
A512 == INSTANCE Avx512Words
N == INSTANCE NeonWords

VARIABLES value, words, operations

packedVars == <<value, words, operations>>

Backends == {"scalar", "avx2", "avx512", "neon"}
Lanes == 0..Width - 1

(* The register that starts at a, and the operand that starts at b. *)
Register(a) == [i \in Lanes |-> (a + i) % P]
Operand(b) == [i \in Lanes |-> (b + 3 * i) % P]
WordsOf(v) == [i \in Lanes |-> ToMonty(v[i])]

PackedInit ==
    /\ \E a \in Elements : value = Register(a)
    /\ words = [b \in Backends |-> WordsOf(value)]
    /\ operations = 0

(* The register after an operation: what it stands for, and the words. *)
Computes(v, scalar, avx2, avx512, neon) ==
    /\ operations < MaxOperations
    /\ value' = v
    /\ words' = [scalar |-> scalar, avx2 |-> avx2, avx512 |-> avx512, neon |-> neon]
    /\ operations' = operations + 1

EachWord(Op(_, _), lhs, rhs) == [i \in Lanes |-> Op(lhs[i], rhs[i])]

AddAction(b) ==
    LET r == Operand(b)  s == WordsOf(r)
    IN  Computes([i \in Lanes |-> (value[i] + r[i]) % P],
                 EachWord(MontyAdd, words.scalar, s),
                 A2!Add(words.avx2, s), A512!Add(words.avx512, s), N!Add(words.neon, s))

SubAction(b) ==
    LET r == Operand(b)  s == WordsOf(r)
    IN  Computes([i \in Lanes |-> (value[i] - r[i]) % P],
                 EachWord(MontySub, words.scalar, s),
                 A2!Sub(words.avx2, s), A512!Sub(words.avx512, s), N!Sub(words.neon, s))

MulAction(b) ==
    LET r == Operand(b)  s == WordsOf(r)
    IN  Computes([i \in Lanes |-> (value[i] * r[i]) % P],
                 EachWord(MontyMul, words.scalar, s),
                 A2!Mul(words.avx2, s), A512!Mul(words.avx512, s), N!Mul(words.neon, s))

(* base_mul_packed and packed_linear_combination: one scalar for every word. *)
ScaleAction(b) ==
    LET s == [i \in Lanes |-> ToMonty(b)]
    IN  Computes([i \in Lanes |-> (value[i] * b) % P],
                 EachWord(MontyMul, words.scalar, s),
                 A2!Mul(words.avx2, s), A512!MulByOne(words.avx512, ToMonty(b)), N!Mul(words.neon, s))

(* xor and andn: the default of PrimeCharacteristicRing, and fused forms. *)
DefaultXor(x, y) == MontySub(MontyAdd(x, y), MontyMul(x, MontyAdd(y, y)))
DefaultAndNot(x, y) == MontyMul(MontySub(MontyOne, x), y)

XorAction(b) ==
    LET r == Operand(b)  s == WordsOf(r)
        default(v) == EachWord(DefaultXor, v, s)
    IN  Computes([i \in Lanes |-> (value[i] + r[i] - 2 * value[i] * r[i]) % P],
                 default(words.scalar),
                 A2!Xor(words.avx2, s), A512!Xor(words.avx512, s), default(words.neon))

AndNotAction(b) ==
    LET r == Operand(b)  s == WordsOf(r)
        default(v) == EachWord(DefaultAndNot, v, s)
    IN  Computes([i \in Lanes |-> ((1 - value[i]) * r[i]) % P],
                 default(words.scalar),
                 A2!AndNot(words.avx2, s), A512!AndNot(words.avx512, s), default(words.neon))

(* fused_sub_mul: (self - rhs) * scalar. *)
FusedSubMulAction(b, c) ==
    LET r == Operand(b)  s == WordsOf(r)  k == [i \in Lanes |-> ToMonty(c)]
    IN  Computes([i \in Lanes |-> ((value[i] - r[i]) * c) % P],
                 EachWord(MontyMul, EachWord(MontySub, words.scalar, s), k),
                 A2!Mul(A2!Sub(words.avx2, s), k), A512!Mul(A512!Sub(words.avx512, s), k),
                 N!FusedSubMul(words.neon, s, ToMonty(c)))

NegAction ==
    Computes([i \in Lanes |-> (-value[i]) % P],
             [i \in Lanes |-> MontyNeg(words.scalar[i])],
             A2!Neg(words.avx2), A512!Neg(words.avx512), N!Neg(words.neon))

(* The element whose double is x. *)
HalfOf(x) == IF x % 2 = 0 THEN x \div 2 ELSE (x + P) \div 2

HalveAction ==
    Computes([i \in Lanes |-> HalfOf(value[i])],
             [i \in Lanes |-> HalveWord(words.scalar[i])],
             A2!Halved(words.avx2), A512!Halved(words.avx512), N!Halved(words.neon))

PowerOf(x, d) == LET f[k \in 0..d] == IF k = 0 THEN 1 % P ELSE (f[k - 1] * x) % P IN f[d]

ExpAction(d) ==
    Computes([i \in Lanes |-> PowerOf(value[i], d)],
             [i \in Lanes |-> ExpWord(words.scalar[i], d)],
             A2!Exp(d, words.avx2), A512!Exp(d, words.avx512), N!Exp(d, words.neon))

(* add_rc_and_sbox: the constant is held below zero. *)
SboxAction(d, rc) ==
    LET k == ToMonty(rc)
    IN  Computes([i \in Lanes |-> PowerOf((value[i] + rc) % P, d)],
                 [i \in Lanes |-> ExpWord(MontyAdd(words.scalar[i], k), d)],
                 A2!AddRcAndSbox(d, words.avx2, k), A512!AddRcAndSbox(d, words.avx512, k),
                 N!AddRcAndSbox(d, words.neon, k))

(* What only the scalar field has; the packed fields apply it to each word. *)
OnEachWord(v, Op(_)) ==
    LET apply(w) == [i \in Lanes |-> Op(w[i])]
    IN  Computes(v, apply(words.scalar), apply(words.avx2), apply(words.avx512), apply(words.neon))

Mul2ExpAction(e) ==
    OnEachWord([i \in Lanes |-> (value[i] * PowerOf(2, e)) % P], LAMBDA x : Mul2Exp(x, e))

Div2ExpAction(e) ==
    OnEachWord([i \in Lanes |-> (value[i] * PowerOf(HalfOf(1), e)) % P], LAMBDA x : Div2Exp(x, e))

InverseOf(x) == CHOOSE y \in Elements : (x * y) % P = 1

InverseAction ==
    /\ \A i \in Lanes : value[i] # 0
    /\ OnEachWord([i \in Lanes |-> InverseOf(value[i])], InverseWord)

(* A register filled from an integer. *)
ConvertAction(int) ==
    OnEachWord([i \in Lanes |-> int % P], LAMBDA x : FromInt(int))

(* from_canonical_checked, where it accepts the integer. *)
CheckedAction(int, signed) ==
    LET Convert(x) == IF signed THEN CanonicalSigned(x) ELSE CanonicalUnsigned(x)
    IN  /\ Convert(int) # NoElement
        /\ OnEachWord([i \in Lanes |-> int % P], LAMBDA x : Convert(int))

(* A register that was stored, or drawn: words that deserialize accepts, and *)
(* that the sampling of a random element does not reject.                    *)
ElementOf(word) == CHOOSE x \in Elements : ToMonty(x) = word % P

LoadAction(word) ==
    /\ Deserialize(word) # NoElement
    /\ OnEachWord([i \in Lanes |-> ElementOf(word)], LAMBDA x : Deserialize(word))

(* add_slices: whole vectors, then the elements left over one by one.  The *)
(* register is the last of a slice of `tail` elements more than a vector.  *)
AddSlicesAction(b, tail) ==
    LET r == Operand(b)  s == WordsOf(r)
        split(packed, v) == [i \in Lanes |->
            IF i < Width - tail THEN packed[i] ELSE MontyAdd(v[i], s[i])]
    IN  Computes([i \in Lanes |-> (value[i] + r[i]) % P],
                 EachWord(MontyAdd, words.scalar, s),
                 split(A2!Add(words.avx2, s), words.avx2),
                 split(A512!Add(words.avx512, s), words.avx512),
                 split(N!Add(words.neon, s), words.neon))

(* The powers of a base, split evenly between threads: BoundedPowers::collect. *)
ChunkOf(packs, threads) == (packs + threads - 1) \div threads

PackedPower(MulBy(_, _), base, start, packs, threads) ==
    LET width == Width
        chunk == ChunkOf(packs, threads)
        chunkBase == ExpWord(base, chunk * width)
        step == [i \in Lanes |-> ExpWord(base, width)]
        first(c) ==
            LET s[i \in Lanes] == IF i = 0 THEN MontyMul(start, ExpWord(chunkBase, c))
                                  ELSE MontyMul(s[i - 1], base)
            IN  s
        at[p \in 0..packs - 1] ==
            IF p % chunk = 0 THEN first(p \div chunk) ELSE MulBy(at[p - 1], step)
    IN  at

(* The register takes the vector `at` of n powers from `start`. *)
PowersAction(b, start, packs, threads, at) ==
    LET w(MulBy(_, _)) == PackedPower(MulBy, ToMonty(b), ToMonty(start), packs, threads)[at]
        one(x, y) == EachWord(MontyMul, x, y)
    IN  Computes([i \in Lanes |-> (start * PowerOf(b, at * Width + i)) % P],
                 w(one), w(A2!Mul), w(A512!Mul), w(N!Mul))

(* The operands of a dot product of n vectors. *)
LeftOperands(n, s) == [j \in 1..n |-> [i \in Lanes |-> (value[i] + s * j) % P]]
RightOperands(n, b, s) == [j \in 1..n |-> [i \in Lanes |-> (b + s * (i + 2 * j)) % P]]

DotProductAction(n, b, s) ==
    LET l == LeftOperands(n, s)  r == RightOperands(n, b, s)
        us == [j \in 1..n |-> WordsOf(l[j])]  vs == [j \in 1..n |-> WordsOf(r[j])]
        lane(ws, i) == [j \in 1..n |-> ws[j][i]]
    IN  Computes([i \in Lanes |-> Products(lane(l, i), lane(r, i), 1, n) % P],
                 [i \in Lanes |-> DotProduct(lane(us, i), lane(vs, i))],
                 A2!DotProductOf(us, vs), A512!DotProductOf(us, vs), N!DotProductOf(us, vs))

(* The same, summed over a wide integer and reduced once; the signed form   *)
(* takes off what an operand of the other sign contributes.                 *)
DeferredDotAction(n, b, s, less) ==
    LET l == LeftOperands(n, s)  r == RightOperands(n, b, s)
        wordSum(i) == Products([j \in 1..n |-> ToMonty(l[j][i])], [j \in 1..n |-> ToMonty(r[j][i])], 1, n)
        element(i) == Products([j \in 1..n |-> l[j][i]], [j \in 1..n |-> r[j][i]], 1, n)
        all == [i \in Lanes |-> IF less THEN ReduceSignedProductSum(-wordSum(i))
                                ELSE ReduceProductSum(wordSum(i))]
    IN  Computes([i \in Lanes |-> (IF less THEN -element(i) ELSE element(i)) % P], all, all, all, all)

(* sum_array: the scalar field has its own, the packed ones that of the trait. *)
SumAction(n, s) ==
    LET l == LeftOperands(n, s)
        us == [j \in 1..n |-> WordsOf(l[j])]
        lane(ws, i) == [j \in 1..n |-> ws[j][i]]
        sum == A2!SumVectors(us)
    IN  Computes([i \in Lanes |-> FoldSeq(LAMBDA x, y : x + y, 0, lane(l, i)) % P],
                 [i \in Lanes |-> SumArray(lane(us, i))], sum, sum, sum)

PackedNext ==
    \/ \E b \in Elements :
          \/ AddAction(b) \/ SubAction(b) \/ MulAction(b) \/ ScaleAction(b)
          \/ XorAction(b) \/ AndNotAction(b)
          \/ \E c \in {1, P - 1} : FusedSubMulAction(b, c)
          \/ SboxAction(3, b)
          \/ \E n \in DotLengths, s \in Strides : b % 13 = 0 /\ (DotProductAction(n, b, s) \/ \E less \in BOOLEAN : DeferredDotAction(n, b, s, less))
    \/ NegAction \/ HalveAction \/ InverseAction
    \/ \E d \in {3, 5, 7} : ExpAction(d)
    \/ \E e \in Exponents : Mul2ExpAction(e) \/ Div2ExpAction(e)
    \/ \E int \in Integers128 : ConvertAction(int) \/ \E signed \in BOOLEAN : CheckedAction(int, signed)
    \/ \E word \in 0..Half - 1 : LoadAction(word)
    \/ \E b \in {0, 1, P - 1}, tail \in 0..Width : AddSlicesAction(b, tail)
    \/ \E b \in {2, P - 2}, packs \in {4, 5, 7}, threads \in {1, 2, 3, 8} :
          /\ value[0] \in PowerStarts
          /\ \E at \in 0..packs - 1 : PowersAction(b, value[0], packs, threads, at)
    \/ \E n \in DotLengths, s \in Strides : SumAction(n, s)

PackedSpec == PackedInit /\ [][PackedNext]_packedVars

-----------------------------------------------------------------------------
(* Whatever the backend and the operation, the words are the ones below P  *)
(* that stand for the result, each in its own place: comparison and hashing *)
(* of elements go by the words, so that a value with two representations,   *)
(* or one that differs between machines, would be two values.               *)
WordsAreCanonical == \A b \in Backends : words[b] = WordsOf(value)
=============================================================================
