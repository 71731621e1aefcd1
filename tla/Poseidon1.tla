----------------------------- MODULE Poseidon1 -----------------------------
(***************************************************************************)
(* Poseidon over sixteen elements (koala-bear/src/                         *)
(* poseidon1_koalabear_16.rs).  A round adds its constants, cubes (every   *)
(* element in a full round, the first in a partial one) and multiplies by  *)
(* a circulant matrix.  The code never does just that: permute_generic     *)
(* multiplies by a Karatsuba convolution, permute_simd by a transform, and *)
(* both run the partial rounds in another basis, with one sparse matrix    *)
(* and one constant a round.                                               *)
(***************************************************************************)
EXTENDS Integers, SequencesExt

CONSTANTS
    Modulus,          \* the prime; it has 16th roots of unity, and cubes are unique
    MdsCol,           \* MDS_CIRC_COL
    HalfFullRounds,   \* POSEIDON1_HALF_FULL_ROUNDS
    PartialRounds,    \* POSEIDON1_PARTIAL_ROUNDS
    RoundConstants,   \* POSEIDON1_RC
    States            \* what is permuted

ASSUME PoseidonAssumption ==
    /\ HalfFullRounds \in Nat \ {0} /\ PartialRounds \in Nat \ {0}
    /\ Modulus \in Nat /\ Modulus % 16 = 1
    /\ RoundConstants \in [0..2 * HalfFullRounds + PartialRounds - 1 -> [0..15 -> 0..Modulus - 1]]

StateLanes == 0..15

(* [i \in 0..n - 1 |-> F(i)], every value computed once. *)
Array(n, F(_)) == [i \in 0..n - 1 |-> F(i)] @@ <<>>
State(F(_)) == Array(16, F)

Reciprocal == Array(Modulus, LAMBDA x : IF x = 0 THEN 0 ELSE CHOOSE y \in 1..Modulus - 1 : (x * y) % Modulus = 1)
HalfMod(x) == (x * Reciprocal[2]) % Modulus
Cube(x) == (((x * x) % Modulus) * x) % Modulus

Dot(n, x, y) ==
    LET sum[k \in 0..n] == IF k = 0 THEN 0 ELSE sum[k - 1] + x[k - 1] * y[k - 1]
    IN  sum[n] % Modulus

AddStates(x, y) == State(LAMBDA i : (x[i] + y[i]) % Modulus)

-----------------------------------------------------------------------------
(* The matrix as it is written: C[i][j] = MDS_CIRC_COL[(16 + i - j) % 16]. *)
Circulant == State(LAMBDA i : State(LAMBDA j : MdsCol[(16 + i - j) % 16] % Modulus))
MatrixVec(m, v) == State(LAMBDA i : Dot(16, m[i], v))

(* mds_circ_16: products of polynomials modulo X^n - 1 and X^n + 1. *)
Part(v, n, from, step) == Array(n, LAMBDA i : v[from + step * i])

NegacyclicConv4(lhs, rhs) ==
    Array(4, LAMBDA i : Dot(4, lhs, Array(4, LAMBDA j : IF j <= i THEN rhs[i - j] ELSE -rhs[4 + i - j])))

Conv4(lhs, rhs) ==
    LET up == Array(2, LAMBDA i : lhs[i] + lhs[i + 2])
        um == Array(2, LAMBDA i : lhs[i] - lhs[i + 2])
        vp == Array(2, LAMBDA i : rhs[i] + rhs[i + 2])
        vm == Array(2, LAMBDA i : rhs[i] - rhs[i + 2])
        low == <<Dot(2, um, 0 :> vm[0] @@ 1 :> -vm[1]), Dot(2, um, 0 :> vm[1] @@ 1 :> vm[0])>>
        high == <<Dot(2, up, vp), Dot(2, up, 0 :> vp[1] @@ 1 :> vp[0])>>
        half(i) == HalfMod(low[i + 1] + high[i + 1])
    IN  Array(4, LAMBDA i : IF i < 2 THEN half(i) ELSE (high[i - 1] - half(i - 2)) % Modulus)

(* conv_n_recursive: modulo X^h + 1 and X^h - 1, and put together again. *)
ConvByHalves(h, lhs, rhs, Inner(_, _), InnerNeg(_, _)) ==
    LET left == InnerNeg(Array(h, LAMBDA i : lhs[i] - lhs[i + h]), Array(h, LAMBDA i : rhs[i] - rhs[i + h]))
        right == Inner(Array(h, LAMBDA i : lhs[i] + lhs[i + h]), Array(h, LAMBDA i : rhs[i] + rhs[i + h]))
        low == Array(h, LAMBDA i : HalfMod(left[i] + right[i]))
    IN  Array(2 * h, LAMBDA i : IF i < h THEN low[i] ELSE (right[i - h] - low[i - h]) % Modulus)

(* negacyclic_conv_n_recursive: even and odd coefficients, and their sum. *)
NegacyclicByParity(h, lhs, rhs, InnerNeg(_, _)) ==
    LET le == Part(lhs, h, 0, 2)
        lo == Part(lhs, h, 1, 2)
        re == Part(rhs, h, 0, 2)
        ro == Part(rhs, h, 1, 2)
        even == InnerNeg(le, re)
        odd == InnerNeg(lo, ro)
        both == InnerNeg(Array(h, LAMBDA i : le[i] + lo[i]), Array(h, LAMBDA i : re[i] + ro[i]))
        coefficient(i) ==
            IF i % 2 = 1 THEN both[i \div 2] - even[i \div 2] - odd[i \div 2]
            ELSE IF i = 0 THEN even[0] - odd[h - 1] ELSE even[i \div 2] + odd[i \div 2 - 1]
    IN  Array(2 * h, LAMBDA i : coefficient(i) % Modulus)

NegacyclicConv8(lhs, rhs) == NegacyclicByParity(4, lhs, rhs, NegacyclicConv4)
Conv8(lhs, rhs) == ConvByHalves(4, lhs, rhs, Conv4, NegacyclicConv4)

MdsCirc16(state) == ConvByHalves(8, state, MdsCol, Conv8, NegacyclicConv8)

(* mds_fft_16: a transform, a product by the eigenvalues, the transform back. *)
Twiddle ==
    LET omega == CHOOSE w \in 1..Modulus - 1 :
                    LET w2 == (w * w) % Modulus
                        w4 == (w2 * w2) % Modulus
                    IN  (w4 * w4) % Modulus = Modulus - 1
        power[k \in 0..7] == IF k = 0 THEN 1 ELSE (power[k - 1] * omega) % Modulus
    IN  power @@ <<>>

(* One stage of dif_ifft_16_mut: bt and neg_dif on the pairs half apart. *)
DifStage(f, half) ==
    LET stride == 8 \div half
        low(i) == i % (2 * half) < half
        k(i) == i % half
    IN  State(LAMBDA i :
            IF low(i) THEN (f[i] + f[i + half]) % Modulus
            ELSE IF k(i) = 0 THEN (f[i - half] - f[i]) % Modulus
            ELSE ((f[i] - f[i - half]) * Twiddle[8 - k(i) * stride]) % Modulus)

DitStage(f, half) ==
    LET stride == 8 \div half
        low(i) == i % (2 * half) < half
        turned(i) == f[i] * Twiddle[(i % half) * stride]
    IN  State(LAMBDA i :
            IF low(i) THEN (f[i] + turned(i + half)) % Modulus ELSE (f[i - half] - turned(i)) % Modulus)

DifIfft16(f) == FoldLeft(DifStage, f, <<8, 4, 2, 1>>)
DitFft16(f) == FoldLeft(DitStage, f, <<1, 2, 4, 8>>)

LambdaOver16 ==
    LET spectrum == DifIfft16(State(LAMBDA i : MdsCol[i] % Modulus))
    IN  State(LAMBDA i : (spectrum[i] * Reciprocal[16 % Modulus]) % Modulus)

MdsFft16(state) ==
    LET f == DifIfft16(state)
    IN  DitFft16(State(LAMBDA i : (f[i] * LambdaOver16[i]) % Modulus))

-----------------------------------------------------------------------------
(* The constants of the partial rounds: precomputed(). *)
Transpose(m) == State(LAMBDA i : State(LAMBDA j : m[j][i]))
MatrixMul(a, b) ==
    LET columns == Transpose(b)
    IN  State(LAMBDA i : State(LAMBDA j : Dot(16, a[i], columns[j])))

(* matrix_inverse_16, submatrix_inverse_15: Gauss-Jordan, first usable pivot. *)
MatrixInverse(n, m) ==
    LET augmented == Array(n, LAMBDA i : Array(2 * n, LAMBDA j :
                         IF j < n THEN m[i][j] ELSE IF i = j - n THEN 1 ELSE 0))
        Eliminate(a, col) ==
            LET pivot == CHOOSE r \in col..n - 1 : a[r][col] # 0 /\ \A q \in col..r - 1 : a[q][col] = 0
                row(i) == IF i = col THEN a[pivot] ELSE IF i = pivot THEN a[col] ELSE a[i]
                scale == Reciprocal[a[pivot][col]]
                unit == Array(2 * n, LAMBDA j : (a[pivot][j] * scale) % Modulus)
            IN  Array(n, LAMBDA i :
                    IF i = col THEN unit
                    ELSE IF row(i)[col] = 0 THEN row(i)
                    ELSE Array(2 * n, LAMBDA j : (row(i)[j] - row(i)[col] * unit[j]) % Modulus))
        after[k \in 0..n] == IF k = 0 THEN augmented ELSE Eliminate(after[k - 1], k - 1)
        solved == after[n]
    IN  Array(n, LAMBDA i : Array(n, LAMBDA j : solved[i][n + j]))

(* compute_equivalent_matrices: one factor of the matrix for every partial round. *)
Factor(product) ==
    LET hat == MatrixInverse(15, Array(15, LAMBDA i : Array(15, LAMBDA j : product[i + 1][j + 1])))
        w == Array(15, LAMBDA i : product[i + 1][0])
    IN  [v |-> State(LAMBDA j : IF j < 15 THEN product[0][j + 1] ELSE 0),
         wHat |-> State(LAMBDA i : IF i < 15 THEN Dot(15, hat[i], w) ELSE 0),
         matrix |-> State(LAMBDA i : State(LAMBDA j :
                        IF i = 0 \/ j = 0 THEN (IF i = j THEN 1 ELSE 0) ELSE product[i][j]))]

SparseFactors ==
    LET transposed == Transpose(Circulant)
        f[k \in 0..PartialRounds] ==
            IF k = 0 THEN <<>>
            ELSE LET earlier == f[k - 1]
                     product == IF k = 1 THEN transposed ELSE MatrixMul(transposed, earlier[k - 1].matrix)
                 IN  Append(earlier, Factor(product))
    IN  f[PartialRounds]

SparseMI == Transpose(SparseFactors[PartialRounds].matrix)

(* They are found from the last round to the first. *)
SparseV == Array(PartialRounds, LAMBDA r : SparseFactors[PartialRounds - r].v)

(* A faulty SparseFirstRow: in the order in which they were found. *)
SparseFirstRowForward ==
    Array(PartialRounds, LAMBDA r : State(LAMBDA i :
        IF i = 0 THEN Circulant[0][0] ELSE SparseFactors[r + 1].wHat[i - 1]))

SparseFirstRow ==
    Array(PartialRounds, LAMBDA r : State(LAMBDA i :
        IF i = 0 THEN Circulant[0][0] ELSE SparseFactors[PartialRounds - r].wHat[i - 1]))

(* equivalent_round_constants: back through the inverse matrix, one word kept a round. *)
EquivalentConstants ==
    LET inverse == MatrixInverse(16, Circulant)
        partial(r) == RoundConstants[HalfFullRounds + r]
        back[r \in 0..PartialRounds - 1] ==
            IF r = PartialRounds - 1 THEN [full |-> partial(r), kept |-> <<>>]
            ELSE LET later == back[r + 1]
                     moved == MatrixVec(inverse, later.full)
                 IN  [full |-> State(LAMBDA j : IF j = 0 THEN partial(r)[0] ELSE (partial(r)[j] + moved[j]) % Modulus),
                      kept |-> <<moved[0]>> \o later.kept]
    IN  back[0]

SparseFirstConstants == EquivalentConstants.full
SparseConstants == EquivalentConstants.kept

FusedMiMds == MatrixMul(SparseMI, Circulant)
FusedBias == MatrixVec(SparseMI, SparseFirstConstants)

-----------------------------------------------------------------------------
CubeLanes(state, constants) == State(LAMBDA i : Cube((state[i] + constants[i]) % Modulus))

(* full_round, and the round of permute_simd. *)
FullRound(state, constants) == MdsCirc16(CubeLanes(state, constants))
SimdFullRound(state, constants) == MdsFft16(CubeLanes(state, constants))

(* The last initial round of permute_simd: the matrix and the change of basis at once. *)
SimdLastInitialRound(state, constants) == AddStates(MatrixVec(FusedMiMds, CubeLanes(state, constants)), FusedBias)

(* permute_generic: into the basis of the partial rounds. *)
EnterPartial(state) == MatrixVec(SparseMI, AddStates(state, SparseFirstConstants))

(* A partial round in that basis; the last has no constant to add. *)
SparseRound(state, r) ==
    LET s0 == (Cube(state[0]) + (IF r < PartialRounds - 1 THEN SparseConstants[r + 1] ELSE 0)) % Modulus
        dot == Dot(16, [state EXCEPT ![0] = s0], SparseFirstRow[r])
    IN  State(LAMBDA i : IF i = 0 THEN dot ELSE (state[i] + s0 * SparseV[r][i - 1]) % Modulus)

(* What the rounds are of the permutation as the paper writes it. *)
WrittenFullRound(state, constants) == MatrixVec(Circulant, CubeLanes(state, constants))
WrittenPartialRound(state, constants) ==
    LET sum == AddStates(state, constants)
    IN  MatrixVec(Circulant, [sum EXCEPT ![0] = Cube(@)])

-----------------------------------------------------------------------------
VARIABLES
    round,      \* the next round
    written,    \* the state by the definition,
    generic,    \* of permute_generic,
    simd        \* of permute_simd

poseidonVars == <<round, written, generic, simd>>

FirstTerminal == HalfFullRounds + PartialRounds
Rounds == FirstTerminal + HalfFullRounds

PoseidonInit ==
    /\ round = 0
    /\ written \in States /\ generic = written /\ simd = written

InitialFullRound ==
    /\ round < HalfFullRounds
    /\ round' = round + 1
    /\ written' = WrittenFullRound(written, RoundConstants[round])
    /\ LET state == FullRound(generic, RoundConstants[round])
       IN  generic' = IF round' = HalfFullRounds THEN EnterPartial(state) ELSE state
    /\ simd' = IF round' = HalfFullRounds THEN SimdLastInitialRound(simd, RoundConstants[round])
               ELSE SimdFullRound(simd, RoundConstants[round])

PartialRound ==
    /\ round \in HalfFullRounds..FirstTerminal - 1
    /\ round' = round + 1
    /\ written' = WrittenPartialRound(written, RoundConstants[round])
    /\ generic' = SparseRound(generic, round - HalfFullRounds)
    /\ simd' = SparseRound(simd, round - HalfFullRounds)

TerminalFullRound ==
    /\ round \in FirstTerminal..Rounds - 1
    /\ round' = round + 1
    /\ written' = WrittenFullRound(written, RoundConstants[round])
    /\ generic' = FullRound(generic, RoundConstants[round])
    /\ simd' = SimdFullRound(simd, RoundConstants[round])

PoseidonNext == InitialFullRound \/ PartialRound \/ TerminalFullRound

-----------------------------------------------------------------------------
(* The three forms of the permutation agree whenever they are in the same  *)
(* basis; in the other one, the word that the next round cubes is the one  *)
(* it would cube after adding its constant.                                *)
FormsAgree ==
    /\ simd = generic
    /\ IF round \in HalfFullRounds..FirstTerminal - 1
       THEN generic[0] = (written[0] + RoundConstants[round][0]) % Modulus
       ELSE generic = written
=============================================================================
