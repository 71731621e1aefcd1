----------------------------- MODULE FieldWords -----------------------------
(***************************************************************************)
(* One element of a 31-bit prime field in Montgomery form                  *)
(* (crates/backend/koala-bear/src/monty_31): a machine word below P that   *)
(* holds x * 2^WordBits mod P.  The word has WordBits bits, the double     *)
(* word of a product twice as many; both wrap.                             *)
(*                                                                         *)
(* KoalaBear is P = 2^31 - 2^24 + 1 with words of 32 bits: what the code   *)
(* relies on is the assumption below, which 2^7 - 2^4 + 1 = 113 with words *)
(* of 8 bits satisfies as well.                                            *)
(***************************************************************************)
EXTENDS Integers, SequencesExt

CONSTANTS
    WordBits,   \* MONTY_BITS
    P           \* PRIME

Base == 2^WordBits
Half == Base \div 2

ASSUME WordAssumption ==
    /\ WordBits \in Nat /\ WordBits > 2
    /\ P \in Nat /\ P % 2 = 1
    /\ 2^(WordBits - 2) < P /\ P < 2^(WordBits - 1)

Elements == 0..P - 1

(* MONTY_MU: the inverse of P modulo the word. *)
Mu == CHOOSE m \in 0..Base - 1 : (m * P) % Base = 1

Word(x) == x % Base
Wide(x) == x % (Base * Base)
Hi(x) == Wide(x) \div Base
Signed(x) == IF Word(x) < Half THEN Word(x) ELSE Word(x) - Base
WideSigned(x) == IF Wide(x) < Base * Half THEN Wide(x) ELSE Wide(x) - Base * Base
Lesser(a, b) == IF a < b THEN a ELSE b

(* The remainder of Rust, with the sign of the dividend. *)
Rem(x, n) == IF x >= 0 THEN x % n ELSE -((-x) % n)

-----------------------------------------------------------------------------
(* monty_31/utils.rs *)

ToMonty(x) == (x * Base) % P

ToMontySigned(x) ==
    LET red == Rem(x * Base, P)
    IN  IF red >= 0 THEN red ELSE Word(P + red)

MontyAdd(lhs, rhs) ==
    LET sum == Word(lhs + rhs)
    IN  IF sum < P THEN sum ELSE sum - P

MontySub(lhs, rhs) == Word(Word(lhs - rhs) + (IF lhs < rhs THEN P ELSE 0))

HalveWord(x) == (x \div 2) + (IF x % 2 = 0 THEN 0 ELSE (P + 1) \div 2)

(* monty_reduce: x must be below P * Base. *)
MontyReduce(x) ==
    LET t == (x * Mu) % Base
        u == t * P
    IN  Word(Hi(x - u) + (IF x < u THEN P ELSE 0))

(* large_monty_reduce: x must be below twice that. *)
LargeMontyReduce(x) ==
    LET u == ((x * Mu) % Base) * P
        corr == IF x < P * Base THEN x ELSE x - P * Base
    IN  Word(Hi(corr - u) + (IF corr < u THEN P ELSE 0))

(* monty_reduce_u128: a double word and a word above it. *)
MontyReduceLong(x) ==
    LET lo == x % (Base * Base)
        hi == Word(x \div (Base * Base))
        twice == 2 * P * Base
    IN  MontyAdd(ToMonty(hi), LargeMontyReduce(IF lo >= twice THEN lo - twice ELSE lo))

-----------------------------------------------------------------------------
(* monty_31/monty_31.rs *)

MontyOne == ToMonty(1)
MontyNeg(x) == MontySub(0, x)
MontyMul(lhs, rhs) == MontyReduce(lhs * rhs)

(* bits_u64 *)
BitLength(n) == CHOOSE k \in 0..30 : 2^k > n /\ (k = 0 \/ 2^(k - 1) <= n)

(* exp_u64, over any multiplication: the powers of x that the bits select. *)
ExpWord(x, power) ==
    LET bits == BitLength(power)
        current[j \in 0..bits] ==
            IF j = 0 THEN x ELSE LET c == current[j - 1] IN MontyMul(c, c)
        product[j \in 0..bits] ==
            IF j = 0 THEN MontyOne
            ELSE IF (power \div 2^(j - 1)) % 2 = 1
                 THEN MontyMul(product[j - 1], current[j - 1]) ELSE product[j - 1]
    IN  product[bits]

PowerOfTwoTable == [k \in 0..2 * WordBits - 1 |-> ToMonty(2^k % P)]

Mul2Exp(x, exp) ==
    IF exp < 2 * WordBits THEN MontyMul(x, PowerOfTwoTable[exp])
    ELSE MontyMul(x, ExpWord(ToMonty(2), exp))

Div2Exp(x, exp) ==
    IF exp <= WordBits THEN MontyReduce(x * 2^(WordBits - exp))
    ELSE MontyMul(x, ExpWord(HalveWord(MontyOne), exp))

(* The Sum of an iterator. *)
SumWords(xs) == FoldSeq(LAMBDA x, sum : x + sum, 0, xs) % P

(* sum_array: pairs up to seven elements, the iterator's sum beyond. *)
SumArray(xs) ==
    LET n == Len(xs)
        x(i) == xs[i]
        four == MontyAdd(MontyAdd(x(1), x(2)), MontyAdd(x(3), x(4)))
        upToThree(ys) == FoldLeft(MontyAdd, 0, ys)
    IN  IF n <= 3 THEN upToThree(xs)
        ELSE IF n <= 7 THEN MontyAdd(four, upToThree(SubSeq(xs, 5, n)))
        ELSE SumWords(xs)

Products(lhs, rhs, first, last) ==
    FoldSeq(LAMBDA k, sum : lhs[k] * rhs[k] + sum, 0,
            [k \in 1..last - first + 1 |-> first + k - 1])

(* head.min(head.wrapping_sub(P << MONTY_BITS)) *)
Corrected(x) == Lesser(x, Wide(x - P * Base))

(* dot_product: one reduction for a sum of products that fits. *)
DotProduct(lhs, rhs) ==
    LET n == Len(lhs)
        sum(first, last) == Products(lhs, rhs, first, last)
        chunks == [k \in 1..(n + 3) \div 4 |-> Wide(sum(4 * k - 3, Lesser(4 * k, n)))]
    IN  CASE n = 0 -> 0
          [] n = 1 -> MontyMul(lhs[1], rhs[1])
          [] n = 2 -> MontyReduce(sum(1, 2))
          [] n \in {3, 4} -> LargeMontyReduce(sum(1, n))
          [] n \in {5, 6} -> LargeMontyReduce(Corrected(sum(1, 4)) + sum(5, n))
          [] n \in {7, 8} -> LargeMontyReduce(Corrected(sum(1, 4)) + Corrected(sum(5, n)))
          [] OTHER -> MontyReduceLong(FoldSeq(LAMBDA c, acc : c + acc, 0, chunks))

(* gcd_inversion_prime_field_32 with FIELD_BITS = WordBits - 1: <<a, b, u, v>>. *)
GcdRounds == 2 * (WordBits - 1) - 2

(* A faulty GcdStep: the coefficients are not exchanged with the values. *)
GcdStepNoSwap(s) ==
    LET a == s[1]  b == s[2]  u == s[3]  v == s[4]
    IN  IF a % 2 = 0 THEN <<a \div 2, b, u, 2 * v>>
        ELSE IF a < b THEN <<(b - a) \div 2, a, u - v, 2 * v>>
        ELSE <<(a - b) \div 2, b, u - v, 2 * v>>

GcdStep(s) ==
    LET a == s[1]  b == s[2]  u == s[3]  v == s[4]
    IN  IF a % 2 = 0 THEN <<a \div 2, b, u, 2 * v>>
        ELSE IF a < b THEN <<(b - a) \div 2, a, v - u, 2 * u>>
        ELSE <<(a - b) \div 2, b, u - v, 2 * v>>

GcdInversion(x) ==
    LET run[k \in 0..GcdRounds] == IF k = 0 THEN <<x, P, 1, 0>> ELSE GcdStep(run[k - 1])
    IN  run[GcdRounds][4]

(* try_inverse of a word that is not zero. *)
InverseWord(x) ==
    Mul2Exp(MontyReduce(P * 2^(WordBits - 2) + GcdInversion(x)), 3 * WordBits - GcdRounds)

(* QuotientMap: from_int of unsigned and signed integers, and             *)
(* from_canonical_checked, which is NoElement outside its range.           *)
NoElement == -1
FromInt(int) == IF int < 0 THEN ToMontySigned(Rem(int, P)) ELSE ToMonty(int % P)
CanonicalUnsigned(int) == IF int \in 0..P - 1 THEN ToMonty(int) ELSE NoElement
CanonicalSigned(int) ==
    IF int <= P \div 2 /\ int >= -(P \div 2) THEN ToMontySigned(int) ELSE NoElement

(* as_canonical_u32 (from_monty), reduce_product_sum, reduce_signed_product_sum. *)
FromMonty(word) == MontyReduce(word)
ReduceProductSum(sum) == MontyReduce(sum % P)
ReduceSignedProductSum(sum) ==
    LET r == Rem(sum, P) IN MontyReduce(IF r < 0 THEN r + P ELSE r)

(* Deserialize: a word that is not below P is refused. *)
Deserialize(word) == IF word >= P THEN NoElement ELSE word
=============================================================================
