------------------------------ MODULE Quintic ------------------------------
(***************************************************************************)
(* The quintic extension F[X] / (X^5 + X^2 - 1)                            *)
(* (koala-bear/src/quintic_extension): an element is five words.  Each     *)
(* machine has its own layout of the product over its vectors; the packed  *)
(* extension holds five vectors instead.                                   *)
(***************************************************************************)
EXTENDS FieldWords

CONSTANTS
    Samples,   \* the elements an operation starts from
    Factors    \* the elements it takes

Vec8 == INSTANCE Avx2Words WITH Width <- 8
Vec16 == INSTANCE Avx512Words WITH Width <- 16
Vec4 == INSTANCE NeonWords WITH Width <- 4

VARIABLES element, quintic, done

quinticVars == <<element, quintic, done>>

Machines == {"scalar", "avx2", "avx512", "neon", "packed"}
Coeffs == 0..4
Five(F(_)) == 0 :> F(0) @@ 1 :> F(1) @@ 2 :> F(2) @@ 3 :> F(3) @@ 4 :> F(4)
CoefficientWords(x) == Five(LAMBDA i : ToMonty(x[i]))

-----------------------------------------------------------------------------
(* The field itself: X^k is reduced by X^5 = 1 - X^2. *)
TimesX(x) ==
    Five(LAMBDA i : (CASE i = 0 -> x[4] [] i = 2 -> x[1] - x[4] [] OTHER -> x[i - 1]) % P)

One == Five(LAMBDA i : IF i = 0 THEN 1 ELSE 0)

PowersOfX ==
    LET f[k \in 0..8] == IF k = 0 THEN One ELSE TimesX(f[k - 1])
    IN  f

Times(x, y) ==
    LET degree(k) == FoldSet(LAMBDA i, sum : x[i] * y[k - i] + sum, 0, {i \in Coeffs : k - i \in Coeffs})
        d == [k \in 0..8 |-> degree(k) % P]
    IN  Five(LAMBDA i : FoldSet(LAMBDA k, sum : d[k] * PowersOfX[k][i] + sum, 0, 0..8) % P)

PowerOfX(n) ==
    LET f[k \in 0..n] ==
            IF k <= 8 THEN PowersOfX[k]
            ELSE LET half == f[k \div 2]
                     square == Times(half, half)
                 IN  IF k % 2 = 0 THEN square ELSE TimesX(square)
    IN  f[n]

-----------------------------------------------------------------------------
(* extension.rs: quintic_mul over any dot product of five, quintic_square. *)
Seq5(a, b, c, d, e) == <<a, b, c, d, e>>

QuinticMul(a, b, Minus(_, _), Dot(_, _)) ==
    LET b0m3 == Minus(b[0], b[3])
        b1m4 == Minus(b[1], b[4])
        b4m2 == Minus(b[4], b[2])
        as == Seq5(a[0], a[1], a[2], a[3], a[4])
    IN  Five(LAMBDA i :
            CASE i = 0 -> Dot(as, Seq5(b[0], b[4], b[3], b[2], b1m4))
              [] i = 1 -> Dot(as, Seq5(b[1], b[0], b[4], b[3], b[2]))
              [] i = 2 -> Dot(as, Seq5(b[2], b1m4, b0m3, b4m2, Minus(b[3], b1m4)))
              [] i = 3 -> Dot(as, Seq5(b[3], b[2], b1m4, b0m3, b4m2))
              [] i = 4 -> Dot(as, Seq5(b[4], b[3], b[2], b1m4, b0m3)))

ScalarMul(a, b) == QuinticMul(a, b, MontySub, DotProduct)

(* quintic_mul_packed with AVX2: eight words, the three left over in the upper ones. *)
Vector(w, s) == [i \in 0..w - 1 |-> IF i < Len(s) THEN s[i + 1] ELSE 0]

Avx2Mul(a, b) ==
    LET b0m3 == MontySub(b[0], b[3])
        b1m4 == MontySub(b[1], b[4])
        b4m2 == MontySub(b[4], b[2])
        row(x, tail) == Vector(8, <<x, x, x, x, x>> \o tail)
        dot == Vec8!Dot4(<<row(a[0], <<a[4], a[4], a[4]>>), row(a[1], <<>>), row(a[2], <<>>), row(a[3], <<>>)>>,
                       <<Vector(8, <<b[0], b[1], b[2], b[3], b[4], b1m4, b[2], MontySub(b[3], b1m4)>>),
                         Vector(8, <<b[4], b[0], b1m4, b[2], b[3]>>),
                         Vector(8, <<b[3], b[4], b0m3, b1m4, b[2]>>),
                         Vector(8, <<b[2], b[3], b4m2, b0m3, b1m4>>)>>)
        extra == Vector(8, <<dot[5], dot[6], dot[7], MontyMul(b4m2, a[4]), MontyMul(b0m3, a[4])>>)
    IN  Five(LAMBDA i : Vec8!Add(dot, extra)[i])

(* With AVX-512: two products in each of the first ten words, five single ones. *)
Avx512Mul(a, b) ==
    LET b0m3 == MontySub(b[0], b[3])
        b1m4 == MontySub(b[1], b[4])
        b4m2 == MontySub(b[4], b[2])
        five(x, y) == <<x, y, x, y, x, y, x, y, x, y>>
        dot == Vec16!Dot2(<<Vector(16, five(a[0], a[2]) \o <<a[4], a[4], a[4], a[4], a[4]>>),
                           Vector(16, five(a[1], a[3]))>>,
                         <<Vector(16, <<b[0], b[3], b[1], b[4], b[2], b0m3, b[3], b1m4, b[4], b[2],
                                        b1m4, b[2], MontySub(b[3], b1m4), b4m2, b0m3>>),
                           Vector(16, <<b[4], b[2], b[0], b[3], b1m4, b4m2, b[2], b0m3, b[3], b1m4>>)>>)
        summand(f(_)) == Vector(16, [i \in 1..5 |-> dot[f(i - 1)]])
        sum == Vec16!Add(Vec16!Add(summand(LAMBDA i : 2 * i), summand(LAMBDA i : 2 * i + 1)),
                        summand(LAMBDA i : 10 + i))
    IN  Five(LAMBDA i : sum[i])

(* With NEON: four words of a dot product of five, the last on its own. *)
NeonMul(a, b) ==
    LET b0m3 == MontySub(b[0], b[3])
        b1m4 == MontySub(b[1], b[4])
        b4m2 == MontySub(b[4], b[2])
        every(x) == [i \in 0..3 |-> x]
        dot == Vec4!DotProductOf([j \in 1..5 |-> every(a[j - 1])],
                   <<Vector(4, <<b[0], b[1], b[2], b[3]>>),
                     Vector(4, <<b[4], b[0], b1m4, b[2]>>),
                     Vector(4, <<b[3], b[4], b0m3, b1m4>>),
                     Vector(4, <<b[2], b[3], b4m2, b0m3>>),
                     Vector(4, <<b1m4, b[2], MontySub(b[3], b1m4), b4m2>>)>>)
    IN  Five(LAMBDA i : IF i < 4 THEN dot[i]
                          ELSE DotProduct(<<a[0], a[1], a[2], a[3], a[4]>>, <<b[4], b[3], b[2], b1m4, b0m3>>))

(* The packed extension: five vectors; here the second word of each is ours. *)
Spread(a) == Five(LAMBDA i : [j \in 0..3 |-> IF j = 1 THEN a[i] ELSE (a[(i + j) % 5])])
Gathered(v) == Five(LAMBDA i : v[i][1])
PackedMul(a, b) == Gathered(QuinticMul(Spread(a), Spread(b), Vec4!Sub, Vec4!DotProductOf))

(* A function of its factors, as wide as the words of any machine. *)
Words5 == [Coeffs -> 0..2^WordBits - 1]

Mul[m \in Machines, a \in Words5, b \in Words5] ==
    CASE m = "scalar" -> ScalarMul(a, b)
      [] m = "avx2" -> Avx2Mul(a, b)
      [] m = "avx512" -> Avx512Mul(a, b)
      [] m = "neon" -> NeonMul(a, b)
      [] m = "packed" -> PackedMul(a, b)

(* packed_mod_add, packed_mod_sub: four words in a vector, the last alone. *)
Plus(m, a, b) == Five(LAMBDA i : IF m = "scalar" \/ i = 4 THEN MontyAdd(a[i], b[i]) ELSE Vec8!ModAdd(a[i], b[i]))
Minus5(m, a, b) == Five(LAMBDA i : IF m = "scalar" \/ i = 4 THEN MontySub(a[i], b[i]) ELSE Vec8!ModSub(a[i], b[i]))

(* base_mul_packed: four words in a vector and the last alone, or all five in one. *)
BaseMul[m \in Machines, a \in Words5, k \in 0..2^WordBits - 1] ==
    LET four == Vector(8, <<a[0], a[1], a[2], a[3]>>)
        avx2 == Vec8!Mul(four, [i \in 0..7 |-> k])
        neon == Vec4!Mul(Vector(4, <<a[0], a[1], a[2], a[3]>>), [i \in 0..3 |-> k])
        avx512 == Vec16!MulByOne(Vector(16, <<a[0], a[1], a[2], a[3], a[4]>>), k)
    IN  Five(LAMBDA i :
            CASE m = "avx512" -> avx512[i]
              [] m = "avx2" /\ i < 4 -> avx2[i]
              [] m = "neon" /\ i < 4 -> neon[i]
              [] OTHER -> MontyMul(a[i], k))

QuinticSquare(a) ==
    LET dbl(i) == MontyAdd(a[i], a[i])
        sq(i) == MontyMul(a[i], a[i])
        dot2(x, y, u, v) == DotProduct(<<x, y>>, <<u, v>>)
        a14 == MontyMul(dbl(1), a[4])
        a23 == MontyMul(dbl(2), a[3])
        a24 == MontyMul(dbl(2), a[4])
        a34 == MontyMul(dbl(3), a[4])
        plus(x, y) == MontyAdd(x, y)
        minus(x, y) == MontySub(x, y)
    IN  Five(LAMBDA i :
            CASE i = 0 -> minus(plus(dot2(a[0], dbl(1), a[0], a[4]), a23), sq(4))
              [] i = 1 -> plus(plus(MontyMul(dbl(0), a[1]), sq(3)), a24)
              [] i = 2 -> plus(plus(minus(minus(plus(sq(1), MontyMul(dbl(0), a[2])), a14), a23), a34), sq(4))
              [] i = 3 -> plus(minus(minus(dot2(dbl(0), dbl(1), a[3], a[2]), sq(3)), a24), sq(4))
              [] i = 4 -> minus(plus(dot2(dbl(0), dbl(1), a[4], a[3]), sq(2)), a34))

(* FROBENIUS_MATRIX: row i is X^(i P). *)
FrobeniusMatrix == [i \in 1..4 |-> CoefficientWords(PowerOfX(i * P))]

Frobenius[a \in Words5] ==
    Five(LAMBDA j :
        FoldLeft(MontyAdd, IF j = 0 THEN a[0] ELSE 0, [i \in 1..4 |-> MontyMul(a[i], FrobeniusMatrix[i][j])]))

(* prod_conj, from a^q and a^(q^2) together. *)
Conjugates[m \in Machines, two \in Words5] == Mul[m, two, Frobenius[Frobenius[two]]]

(* What is left: the norm is the first word of a times the conjugates c. *)
OverNorm[m \in Machines, a \in Words5, c \in Words5] ==
    LET norm == DotProduct(<<a[0], a[1], a[2], a[3], a[4]>>, <<c[0], c[4], c[3], c[2], MontySub(c[1], c[4])>>)
    IN  BaseMul[m, c, InverseWord(norm)]

(* A faulty QuinticInverse: one conjugate is missing. *)
QuinticInverseOfFour(m, a) == OverNorm[m, a, Frobenius[Mul[m, a, Frobenius[a]]]]

QuinticInverse(m, a) == OverNorm[m, a, Conjugates[m, Frobenius[Mul[m, a, Frobenius[a]]]]]

-----------------------------------------------------------------------------
QuinticInit ==
    /\ element \in Samples
    /\ quintic = [m \in Machines |-> CoefficientWords(element)]
    /\ done = FALSE

Yields(x, Op(_, _)) ==
    /\ ~done /\ done' = TRUE
    /\ element' = x
    /\ quintic' = [m \in Machines |-> Op(m, quintic[m])]

Multiply(y) == Yields(Times(element, y), LAMBDA m, a : Mul[m, a, CoefficientWords(y)])
AddElement(y) == Yields(Five(LAMBDA i : (element[i] + y[i]) % P), LAMBDA m, a : Plus(m, a, CoefficientWords(y)))
SubElement(y) == Yields(Five(LAMBDA i : (element[i] - y[i]) % P), LAMBDA m, a : Minus5(m, a, CoefficientWords(y)))
Scale(k) == Yields(Five(LAMBDA i : (element[i] * k) % P), LAMBDA m, a : BaseMul[m, a, ToMonty(k)])
Square == Yields(Times(element, element), LAMBDA m, a : QuinticSquare(a))

(* An element times its inverse. *)
DivideByItself ==
    /\ element # Five(LAMBDA i : 0)
    /\ Yields(One, LAMBDA m, a : Mul[m, a, QuinticInverse(m, a)])

QuinticNext ==
    \/ \E y \in Factors : Multiply(y) \/ AddElement(y) \/ SubElement(y)
    \/ \E k \in Elements : Scale(k)
    \/ Square \/ DivideByItself

QuinticSpec == QuinticInit /\ [][QuinticNext]_quinticVars

-----------------------------------------------------------------------------
(* Every machine's layout of a product, a square or an inverse gives the   *)
(* element of F[X] / (X^5 + X^2 - 1), in its canonical words.              *)
QuinticIsTheExtension == \A m \in Machines : quintic[m] = CoefficientWords(element)
=============================================================================
