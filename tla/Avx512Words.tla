---------------------------- MODULE Avx512Words ----------------------------
(***************************************************************************)
(* Field elements packed into AVX-512 vectors                              *)
(* (koala-bear/src/monty_31/x86_64_avx512).  Here a multiplication takes   *)
(* the high words of the products and of q * P together, by a masked       *)
(* movehdup, and adds P where a comparison says that they underflowed.     *)
(***************************************************************************)
EXTENDS FieldWords

CONSTANT Width

Words == 0..Width - 1
WideLanes == 0..Width \div 2 - 1

(* The low words of the lanes, and the words movehdup_epi32 brings there. *)
Low(v) == [k \in WideLanes |-> v[2 * k]]
High(v) == [k \in WideLanes |-> v[2 * k + 1]]

(* mask_movehdup_epi32(odd, EVENS, evn): every high word, in its own place. *)
MaskedHigh(odd, evn) == [i \in Words |-> Hi(IF i % 2 = 0 THEN evn[i \div 2] ELSE odd[i \div 2])]

TimesMu(lanes) == [k \in WideLanes |-> Word(Word(lanes[k]) * Mu)]
TimesP(lanes) == [k \in WideLanes |-> Wide(lanes[k] * P)]

(* hi - qp, with P added where it underflows. *)
MinusQp(hi, qp) == [i \in Words |-> Word(hi[i] - qp[i] + (IF hi[i] < qp[i] THEN P ELSE 0))]

ReduceLanes(evn, odd) ==
    MinusQp(MaskedHigh(odd, evn), MaskedHigh(TimesP(TimesMu(odd)), TimesP(TimesMu(evn))))

Products2(l, r) == [k \in WideLanes |-> l[k] * r[k]]

Mul(lhs, rhs) == ReduceLanes(Products2(Low(lhs), Low(rhs)), Products2(High(lhs), High(rhs)))

(* mul_256: a vector and one element, the latter in every word. *)
MulByOne(lhs, b) ==
    LET times(l) == [k \in WideLanes |-> l[k] * b] IN ReduceLanes(times(Low(lhs)), times(High(lhs)))

(* mm512_mod_add, mm512_mod_sub *)
ModAdd(a, b) == LET t == Word(a + b) IN Lesser(t, Word(t - P))
ModSub(a, b) == LET t == Word(a - b) IN Lesser(t, Word(t + P))
Add(lhs, rhs) == [i \in Words |-> ModAdd(lhs[i], rhs[i])]
Sub(lhs, rhs) == [i \in Words |-> ModSub(lhs[i], rhs[i])]

(* xor and andn: the products are canonical already. *)
Xor(lhs, rhs) ==
    Add(rhs, Mul([i \in Words |-> Word(2 * lhs[i])], [i \in Words |-> Word(Half - rhs[i])]))

AndNot(lhs, rhs) == Mul([i \in Words |-> Word(Word(-P) - lhs[i])], rhs)

(* neg: zero where the element is zero. *)
Neg(v) == [i \in Words |-> IF v[i] = 0 THEN 0 ELSE Word(P - v[i])]

(* halve_avx512: (P + 1) / 2 added where the lowest bit is set. *)
Halved(v) == [i \in Words |-> Word((v[i] \div 2) + (IF v[i] % 2 = 1 THEN (P + 1) \div 2 ELSE 0))]

-----------------------------------------------------------------------------
(* partial_monty_red_*_to_signed, and shifted_square with its movehdup. *)
ReduceUnsigned(wide) == Word(Hi(wide) - Hi(Word(Word(wide) * Mu) * P))
ReduceSigned(wide) == Word(Hi(wide) - Hi(Signed(Signed(wide) * Signed(Mu)) * P))
SquareLow(x) == ReduceUnsigned(Signed(x) * Signed(x))

(* packed_exp_3, 5 and 7 leave the last product to be reduced. *)
WideExp3(x) == Wide(Signed(SquareLow(x)) * Signed(x))
WideExp5(x) == Wide(Signed(SquareLow(SquareLow(x))) * Signed(x))
WideExp7(x) ==
    LET cube == ReduceSigned(Signed(SquareLow(x)) * Signed(x))
    IN  Wide(Signed(SquareLow(SquareLow(x))) * Signed(cube))
WideExp(d, x) == CASE d = 3 -> WideExp3(x) [] d = 5 -> WideExp5(x) [] d = 7 -> WideExp7(x)

(* apply_func_to_even_odd: the comparison is signed here. *)
SignedQp(lanes) == [k \in WideLanes |-> Signed(Signed(lanes[k]) * Signed(Mu)) * P]

Exp(d, v) ==
    LET evn == [k \in WideLanes |-> WideExp(d, v[2 * k])]
        odd == [k \in WideLanes |-> WideExp(d, v[2 * k + 1])]
        hi == MaskedHigh(odd, evn)
        qp == MaskedHigh(SignedQp(odd), SignedQp(evn))
    IN  [i \in Words |-> Word(hi[i] - qp[i] + (IF Signed(hi[i]) < Signed(qp[i]) THEN P ELSE 0))]

(* add_rc_and_sbox, on a constant in the form c - P. *)
AddRcAndSbox(d, v, rc) == Exp(d, [i \in Words |-> Word(v[i] + Word(rc - P))])

-----------------------------------------------------------------------------
DotLanes(us, vs, Select(_)) ==
    LET u == [j \in DOMAIN us |-> Select(us[j])]
        v == [j \in DOMAIN vs |-> Select(vs[j])]
    IN  [k \in WideLanes |->
            Wide(FoldSeq(LAMBDA j, sum : u[j][k] * v[j][k] + sum, 0, [j \in DOMAIN us |-> j]))]

Dot2(us, vs) == ReduceLanes(DotLanes(us, vs, Low), DotLanes(us, vs, High))

(* A faulty Dot4: the high words stay above P. *)
Dot4Uncorrected(us, vs) == ReduceLanes(DotLanes(us, vs, Low), DotLanes(us, vs, High))

(* dot_product_4: P is taken off the high words that reach it. *)
Dot4(us, vs) ==
    LET evn == DotLanes(us, vs, Low)  odd == DotLanes(us, vs, High)
        dot == MaskedHigh(odd, evn)
    IN  MinusQp([i \in Words |-> IF P <= dot[i] THEN dot[i] - P ELSE dot[i]],
                MaskedHigh(TimesP(TimesMu(odd)), TimesP(TimesMu(evn))))

Zero == [i \in Words |-> 0]

(* PrimeCharacteristicRing::sum_array (crates/backend/field) on sixteen vectors. *)
SumSixteen(xs) ==
    LET pair(i) == Add(xs[i], xs[i + 1])
        four(i) == Add(pair(i), pair(i + 2))
        eight(i) == Add(four(i), four(i + 4))
    IN  Add(eight(1), eight(9))

(* general_dot_product: sixty-four by a tree, the rest by fours. *)
DotProductOf(us, vs) ==
    LET n == Len(us)
        cut(s, first, last) == SubSeq(s, first, last)
        rest(u, v) == CASE Len(u) = 0 -> Zero
                        [] Len(u) = 1 -> Mul(u[1], v[1])
                        [] Len(u) = 2 -> Dot2(u, v)
                        [] OTHER -> Add(Dot2(cut(u, 1, 2), cut(v, 1, 2)), Mul(u[3], v[3]))
        dot(k) == Dot4(cut(us, 4 * k - 3, 4 * k), cut(vs, 4 * k - 3, 4 * k))
        acc[k \in 0..n \div 4] == IF k = 0 THEN Zero ELSE Add(acc[k - 1], dot(k))
        done == 4 * (n \div 4)
    IN  IF n = 64 THEN SumSixteen([k \in 1..16 |-> dot(k)])
        ELSE Add(acc[n \div 4], rest(cut(us, done + 1, n), cut(vs, done + 1, n)))
=============================================================================
