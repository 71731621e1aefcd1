---------------------------- MODULE MCArithmetic ----------------------------
(***************************************************************************)
(* The arithmetic that everything else is built on, as one machine: a      *)
(* packed register (PackedField), an element of the quintic extension      *)
(* (Quintic) or a permutation (Poseidon1) is computed in every form the    *)
(* code has of it, while the other two stand still; over small primes, 53  *)
(* in words of seven bits, over which X^5 + X^2 - 1 is irreducible, and    *)
(* 113 with its 16th roots of unity.                                       *)
(***************************************************************************)
EXTENDS PackedField, Quintic, Poseidon1

arithmeticVars == <<packedVars, quinticVars, poseidonVars>>

RegisterAtRest == value = Register(0) /\ words = [b \in Backends |-> WordsOf(value)] /\ operations = MaxOperations
ElementAtRest == element = One /\ quintic = [m \in Machines |-> CoefficientWords(element)] /\ done = TRUE
PermutationAtRest == round = Rounds /\ written = State(LAMBDA i : 0) /\ generic = written /\ simd = written

ArithmeticInit ==
    \/ PackedInit /\ ElementAtRest /\ PermutationAtRest
    \/ QuinticInit /\ RegisterAtRest /\ PermutationAtRest
    \/ PoseidonInit /\ RegisterAtRest /\ ElementAtRest

ArithmeticNext ==
    \/ PackedNext /\ UNCHANGED <<quinticVars, poseidonVars>>
    \/ QuinticNext /\ UNCHANGED <<packedVars, poseidonVars>>
    \/ PoseidonNext /\ UNCHANGED <<packedVars, quinticVars>>

ArithmeticSpec == ArithmeticInit /\ [][ArithmeticNext]_arithmeticVars

-----------------------------------------------------------------------------
(* The instances. *)

(* Up to two blocks of four, every remainder, and the sixteen blocks that AVX2 sums at once. *)
MCDotLengths == 0..9 \union {13, 64}

(* 2^e below, at and above the word. *)
MCExponents == {0, 1, 6, 7, 8, 13, 14, 15, 20}

(* Around zero, P / 2, P and the word. *)
MCIntegers == {-1000, -P, -27, -26, -1, 0, 26, 52, P, 54, 127, 128, 1000, 16384, 100000}

Monomial(i, c) == [j \in Coeffs |-> IF j = i THEN c ELSE 0]
Dense(a, b) == [j \in Coeffs |-> (a + b * j * j) % P]
MCSamples ==
    {Monomial(i, c) : i \in Coeffs, c \in {1, P - 1}} \union {Dense(a, b) : a \in {0, 1, P - 1, 26}, b \in {0, 1, 7, 52}}

(* The first column of the code, and constants that all differ. *)
MCMdsCol == [i \in StateLanes |-> <<1, 3, 13, 22, 67, 2, 15, 63, 101, 1, 2, 17, 11, 1, 51, 1>>[i + 1]]
MCRoundConstants ==
    [r \in 0..2 * HalfFullRounds + PartialRounds - 1 |->
        [i \in StateLanes |-> (r * r * 31 + i * i * 7 + 5 * i * r + 3) % Modulus]]

(* A basis, so that a linear layer that differs shows, and states without zeros. *)
MCStates ==
    {[j \in StateLanes |-> IF i = j THEN c ELSE 0] : i \in StateLanes, c \in {1, Modulus - 1}}
        \union {[j \in StateLanes |-> (a + j * j * j) % Modulus] : a \in 0..3}
=============================================================================
