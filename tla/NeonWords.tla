----------------------------- MODULE NeonWords -----------------------------
(***************************************************************************)
(* Field elements packed into NEON vectors                                 *)
(* (koala-bear/src/monty_31/aarch64_neon).  A product is taken by the      *)
(* saturating doubling multiply that returns its high word, on signed      *)
(* words, and the difference is halved.  The widening instructions work on *)
(* the two halves of a vector and put the words back in place: each word   *)
(* is computed on its own here.                                            *)
(***************************************************************************)
EXTENDS FieldWords

CONSTANT Width

Words == 0..Width - 1

(* vqdmulhq_s32: the high word of twice the product, saturated. *)
DoublingHigh(a, b) == Lesser((2 * Signed(a) * Signed(b)) \div Base, Half - 1)

(* mulby_mu, get_c_hi, get_qp_hi *)
MulByMu(x) == Word(x * Mu)
QpHigh(lhs, muRhs) == DoublingHigh(Word(lhs * muRhs), P)

(* mul_with_precomp: vhsubq_s32, and P added where it is negative. *)
MulWithPrecomp(canonical, lhs, rhs, muRhs) ==
    LET c == DoublingHigh(lhs, rhs)
        qp == QpHigh(lhs, muRhs)
        d == (c - qp) \div 2
    IN  Word(IF canonical /\ c < qp THEN d + P ELSE d)

MulWords(lhs, rhs) == MulWithPrecomp(TRUE, lhs, rhs, MulByMu(rhs))
Mul(lhs, rhs) == [i \in Words |-> MulWords(lhs[i], rhs[i])]

(* cube, exp_5, exp_7: what lies between stays in (-P, P). *)
Cube(x) ==
    LET mu == MulByMu(x)
    IN  MulWithPrecomp(TRUE, MulWithPrecomp(FALSE, x, x, mu), x, mu)

Exp5(x) ==
    LET mu == MulByMu(x)
        x2 == MulWithPrecomp(FALSE, x, x, mu)
    IN  MulWithPrecomp(TRUE, MulWithPrecomp(FALSE, x2, x, mu), x2, MulByMu(x2))

Exp7(x) ==
    LET mu == MulByMu(x)
        x2 == MulWithPrecomp(FALSE, x, x, mu)
        x3 == MulWithPrecomp(FALSE, x2, x, mu)
        x4 == MulWithPrecomp(FALSE, x2, x2, MulByMu(x2))
    IN  MulWithPrecomp(TRUE, x4, x3, MulByMu(x3))

ExpSmall(d, x) == CASE d = 3 -> Cube(x) [] d = 5 -> Exp5(x) [] d = 7 -> Exp7(x)
Exp(d, v) == [i \in Words |-> ExpSmall(d, v[i])]

(* add_rc_and_sbox, on a constant in the form c - P. *)
AddRcAndSbox(d, v, rc) == [i \in Words |-> ExpSmall(d, Word(v[i] + Word(rc - P)))]

(* uint32x4_mod_add, uint32x4_mod_sub *)
ModAdd(a, b) == LET t == Word(a + b) IN Lesser(t, Word(t - P))
ModSub(a, b) == LET t == Word(a - b) IN Lesser(t, Word(t + P))
Add(lhs, rhs) == [i \in Words |-> ModAdd(lhs[i], rhs[i])]
Sub(lhs, rhs) == [i \in Words |-> ModSub(lhs[i], rhs[i])]

(* neg, halve_neon *)
Neg(v) == [i \in Words |-> IF v[i] = 0 THEN 0 ELSE Word(P - v[i])]
Halved(v) == [i \in Words |-> (v[i] + (IF v[i] % 2 = 1 THEN P ELSE 0)) \div 2]

(* fused_sub_mul: the difference is not reduced before it is multiplied. *)
FusedSubMul(v, w, scalar) == [i \in Words |-> MulWords(Word(v[i] - w[i]), scalar)]

-----------------------------------------------------------------------------
WordDot(us, vs, first, last, i) ==
    Wide(FoldSeq(LAMBDA j, sum : us[j][i] * vs[j][i] + sum, 0,
                 [j \in 1..last - first + 1 |-> first + j - 1]))

(* The end of dot_product_4 and 5: hi - qp, plus P if that underflows. *)
MinusQp(hi, lo) ==
    LET qp == Hi(Word(lo * Mu) * P)
    IN  Word(hi - qp + (IF hi < qp THEN P ELSE 0))

BelowP(hi) == Lesser(hi, Word(hi - P))

(* dot_product_2: q * P taken off the whole sum; a high word with its top bit *)
(* set is negative.                                                           *)
Dot2(us, vs) ==
    [i \in Words |->
        LET sum == WordDot(us, vs, 1, 2, i)
            d == Hi(sum - Word(sum * Mu) * P)
        IN  Word(d + (IF d >= Half THEN P ELSE 0))]

Dot4(us, vs) ==
    [i \in Words |->
        LET sum == WordDot(us, vs, 1, 4, i) IN MinusQp(BelowP(Hi(sum)), Word(sum))]

(* A faulty Dot5: without the carry. *)
Dot5NoCarry(us, vs) ==
    [i \in Words |->
        LET a == WordDot(us, vs, 1, 3, i)
            b == WordDot(us, vs, 4, 5, i)
        IN  MinusQp(BelowP(Word(BelowP(Hi(a)) + Hi(b))), Word(a + b))]

(* dot_product_5: three products and two, the carry of their low words between. *)
Dot5(us, vs) ==
    [i \in Words |->
        LET a == WordDot(us, vs, 1, 3, i)
            b == WordDot(us, vs, 4, 5, i)
            lo == Word(Word(a) + Word(b))
            carry == IF lo < Word(a) THEN 1 ELSE 0
            hi == Word(BelowP(Hi(a)) + Hi(b) + carry)
        IN  MinusQp(BelowP(hi), lo)]

Zero == [i \in Words |-> 0]

(* PrimeCharacteristicRing::sum_array (crates/backend/field) on sixteen vectors. *)
SumSixteen(xs) ==
    LET pair(i) == Add(xs[i], xs[i + 1])
        four(i) == Add(pair(i), pair(i + 2))
        eight(i) == Add(four(i), four(i + 4))
    IN  Add(eight(1), eight(9))

(* general_dot_product: three padded to four, five and sixty-four of their *)
(* own, the rest by fours.                                                 *)
DotProductOf(us, vs) ==
    LET n == Len(us)
        cut(s, first, last) == SubSeq(s, first, last)
        small(u, v) == CASE Len(u) = 0 -> Zero
                         [] Len(u) = 1 -> Mul(u[1], v[1])
                         [] Len(u) = 2 -> Dot2(u, v)
                         [] Len(u) = 3 -> Dot4(Append(u, Zero), Append(v, Zero))
                         [] Len(u) = 4 -> Dot4(u, v)
        dot(k) == Dot4(cut(us, 4 * k - 3, 4 * k), cut(vs, 4 * k - 3, 4 * k))
        acc[k \in 0..n \div 4] == IF k = 0 THEN Zero ELSE Add(acc[k - 1], dot(k))
        done == 4 * (n \div 4)
    IN  CASE n <= 4 -> small(us, vs)
          [] n = 5 -> Dot5(us, vs)
          [] n = 64 -> SumSixteen([k \in 1..16 |-> dot(k)])
          [] OTHER -> Add(acc[n \div 4], small(cut(us, done + 1, n), cut(vs, done + 1, n)))
=============================================================================
