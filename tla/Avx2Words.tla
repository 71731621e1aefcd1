----------------------------- MODULE Avx2Words -----------------------------
(***************************************************************************)
(* Field elements packed into AVX2 vectors                                 *)
(* (koala-bear/src/monty_31/x86_64_avx2).  A vector is a function from its *)
(* words 0..Width-1; seen as 64-bit lanes, lane k holds the words 2k (low) *)
(* and 2k+1 (high).  An instruction on double words reads the low word of  *)
(* each lane; movehdup brings the odd words there.                         *)
(***************************************************************************)
EXTENDS FieldWords

CONSTANT Width

Words == 0..Width - 1
WideLanes == 0..Width \div 2 - 1

Evens(v) == [k \in WideLanes |-> v[2 * k]]
MoveHighDown(v) == [k \in WideLanes |-> v[2 * k + 1]]

(* _mm256_sign_epi32 *)
SignOf(a, b) == IF Signed(b) > 0 THEN a ELSE IF Signed(b) = 0 THEN 0 ELSE Word(-a)

(* mm256_mod_add, mm256_mod_sub *)
ModAdd(lhs, rhs) == LET t == Word(lhs + rhs) IN Lesser(t, Word(t - P))
ModSub(lhs, rhs) == LET t == Word(lhs - rhs) IN Lesser(t, Word(t + P))

Add(lhs, rhs) == [i \in Words |-> ModAdd(lhs[i], rhs[i])]
Sub(lhs, rhs) == [i \in Words |-> ModSub(lhs[i], rhs[i])]

(* partial_monty_red_*: the high word of the reduction, in (-P, P) as a signed word. *)
ReduceUnsigned(wide) == Word(Hi(wide) - Hi(Word(wide * Mu) * P))
ReduceSigned(wide) == Word(Hi(wide) - Hi(Signed(Signed(wide) * Signed(Mu)) * P))

(* A faulty ToCanonical: compared as signed words. *)
ToCanonicalSigned(word) == IF Signed(word) < Signed(word + P) THEN word ELSE Word(word + P)

(* red_signed_to_canonical *)
ToCanonical(word) == Lesser(word, Word(word + P))

Weave(evn, odd) == [i \in Words |-> IF i % 2 = 0 THEN evn[i \div 2] ELSE odd[i \div 2]]

(* blend_evn_odd: the high words of both, the even ones moved down. *)
BlendHigh(evn, odd) == Weave([k \in WideLanes |-> Hi(evn[k])], [k \in WideLanes |-> Hi(odd[k])])

MulLanes(l, r) == [k \in WideLanes |-> ReduceUnsigned(l[k] * r[k])]

MulToSigned(lhs, rhs) ==
    Weave(MulLanes(Evens(lhs), Evens(rhs)), MulLanes(MoveHighDown(lhs), MoveHighDown(rhs)))

Mul(lhs, rhs) == LET t == MulToSigned(lhs, rhs) IN [i \in Words |-> ToCanonical(t[i])]

(* dot_product_2: us and vs are sequences of vectors. *)
DotLanes(us, vs, Select(_)) ==
    LET u == [j \in DOMAIN us |-> Select(us[j])]
        v == [j \in DOMAIN vs |-> Select(vs[j])]
    IN  [k \in WideLanes |->
            Wide(FoldSeq(LAMBDA j, sum : u[j][k] * v[j][k] + sum, 0, [j \in DOMAIN us |-> j]))]

Dot2(us, vs) ==
    LET evn == DotLanes(us, vs, Evens)  odd == DotLanes(us, vs, MoveHighDown)
        t == Weave([k \in WideLanes |-> ReduceUnsigned(evn[k])],
                        [k \in WideLanes |-> ReduceUnsigned(odd[k])])
    IN  [i \in Words |-> ToCanonical(t[i])]

(* dot_product_4: the high words are brought below P before q * P is taken off. *)
Dot4(us, vs) ==
    LET evn == DotLanes(us, vs, Evens)  odd == DotLanes(us, vs, MoveHighDown)
        dot == BlendHigh(evn, odd)
        qp == BlendHigh([k \in WideLanes |-> Word(evn[k] * Mu) * P],
                        [k \in WideLanes |-> Word(odd[k] * Mu) * P])
    IN  [i \in Words |-> ToCanonical(Word(Lesser(dot[i], Word(dot[i] - P)) - qp[i]))]

(* PrimeCharacteristicRing::sum_array (crates/backend/field): blocks of eight. *)
Zero == [i \in Words |-> 0]

SumVectors(xs) ==
    LET tree(ys) == FoldLeft(Add, Zero, ys)
        whole == Len(xs) \div 8
        block(b) == Add(tree(SubSeq(xs, 8 * b - 7, 8 * b - 4)), tree(SubSeq(xs, 8 * b - 3, 8 * b)))
        acc[b \in 0..whole] == IF b = 0 THEN Zero ELSE Add(acc[b - 1], block(b))
    IN  Add(acc[whole], tree(SubSeq(xs, 8 * whole + 1, Len(xs))))

(* general_dot_product: fours, then what is left. *)
DotProductOf(us, vs) ==
    LET n == Len(us)
        part(first, last) == <<SubSeq(us, first, last), SubSeq(vs, first, last)>>
        upTo3(p) == CASE Len(p[1]) = 0 -> Zero
                      [] Len(p[1]) = 1 -> Mul(p[1][1], p[2][1])
                      [] Len(p[1]) = 2 -> Dot2(p[1], p[2])
                      [] OTHER -> Add(Dot2(SubSeq(p[1], 1, 2), SubSeq(p[2], 1, 2)), Mul(p[1][3], p[2][3]))
        four(k) == LET p == part(4 * k - 3, 4 * k) IN Dot4(p[1], p[2])
        fours[k \in 0..n \div 4] == IF k = 0 THEN Zero ELSE IF k = 1 THEN four(1) ELSE Add(fours[k - 1], four(k))
    IN  IF n < 4 THEN upTo3(part(1, n))
        ELSE IF n = 64 THEN SumVectors([k \in 1..16 |-> four(k)])
        ELSE IF n % 4 = 0 THEN fours[n \div 4]
        ELSE Add(fours[n \div 4], upTo3(part(4 * (n \div 4) + 1, n)))

-----------------------------------------------------------------------------
(* The powers: func works on the low words of the lanes, canonical or in (-P, P). *)

(* shifted_square leaves the reduced square in the low word again. *)
SquareLow(x) == ReduceUnsigned(Signed(x) * Signed(x))
MulLow(x, y) == ReduceSigned(Signed(x) * Signed(y))

Power3(x) == MulLow(SquareLow(x), x)
Power5(x) == MulLow(SquareLow(SquareLow(x)), x)
Power7(x) == MulLow(SquareLow(SquareLow(x)), MulLow(SquareLow(x), x))

ExpSmall(d, x) == CASE d = 3 -> Power3(x) [] d = 5 -> Power5(x) [] d = 7 -> Power7(x)

(* apply_func_to_even_odd *)
Exp(d, v) ==
    LET t == Weave([k \in WideLanes |-> ExpSmall(d, v[2 * k])],
                        [k \in WideLanes |-> ExpSmall(d, v[2 * k + 1])])
    IN  [i \in Words |-> ToCanonical(t[i])]

(* convert_to_vec_neg_form, add_rc_and_sbox *)
NegativeForm(rc) == Word(rc - P)
AddRcAndSbox(d, v, rc) == Exp(d, [i \in Words |-> Word(v[i] + NegativeForm(rc))])

-----------------------------------------------------------------------------
Halved(v) == [i \in Words |-> Word((v[i] \div 2) + SignOf((P + 1) \div 2, v[i] % 2))]

Neg(v) == [i \in Words |-> SignOf(Word(P - v[i]), v[i])]

(* signed_add_avx2: lhs canonical, rhs in (-P, P). *)
SignedAdd(lhs, rhs) ==
    LET sum == Word(lhs + rhs) IN Lesser(sum, Word(sum - SignOf(P, rhs)))

(* xor: rhs + 2 lhs (Half - rhs), where Half is 2^31 read as unsigned. *)
Xor(lhs, rhs) ==
    LET product == MulToSigned([i \in Words |-> Word(2 * lhs[i])], [i \in Words |-> Word(Half - rhs[i])])
    IN  [i \in Words |-> SignedAdd(rhs[i], product[i])]

(* andn: (2^32 - P - lhs) rhs. *)
AndNot(lhs, rhs) ==
    LET t == MulToSigned([i \in Words |-> Word(Word(-P) - lhs[i])], rhs)
    IN  [i \in Words |-> ToCanonical(t[i])]
=============================================================================
