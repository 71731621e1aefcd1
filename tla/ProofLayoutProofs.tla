-------------------------- MODULE ProofLayoutProofs --------------------------
(***************************************************************************)
(* For every run, and not only those at the boundaries.  What the prover   *)
(* pads, limits and asserts is what the verifier asks of the dimensions,   *)
(* but for the two maxima the prover never looks at.  And what each loop   *)
(* of either side has placed is what the dimensions say: tables come by    *)
(* decreasing height, so a table begins at a multiple of its length, and   *)
(* the high bits of an offset are enough to find it.                       *)
(***************************************************************************)
EXTENDS ProofLayout, NumberFacts, FunctionTheorems, FiniteSetTheorems, WellFoundedInduction, TLAPS

Dimensions ==
    /\ run \in Runs
    /\ heights \in [Tables -> Nat]
    /\ logMemory \in Nat

Late == Stages \ {"executed"}
Sized == Late \ {"traced", "tooBigTable"}
Stacked == Sized \ {"sized", "memoryTooSmall", "executionNotLargest"}
Committed == Stacked \ {"stacking", "panicked"}

(* What each step of the prover adds to what is known of the dimensions. *)
DimensionsInv ==
    /\ Dimensions
    /\ stage \in Stages
    /\ stage \in Late => \A t \in Tables : heights[t] >= MinLogRows
    /\ stage \in Sized =>
          /\ \A t \in Tables : heights[t] <= MaxLogRows[t]
          /\ logMemory >= MinLogMemory /\ logMemory >= run.logBytecode
    /\ stage \in Stacked => MemoryLargeEnough /\ ExecutionLargest
    /\ stage \in Committed => StackedNVars + run.logInvRate - FoldingFactor <= TwoAdicity
    /\ OnlyOversizedProofsAreRefused

(* The count of a part of 0..30. *)
LEMMA Log2CeilIsNat == \A n : Log2Ceil(n) \in Nat
<1> TAKE n
<1> DEFINE below == {k \in 0..30 : 2^k < n}
<1>1. IsFiniteSet(0..30)
  <2>1. 0 \in Int /\ 30 \in Int
    OBVIOUS
  <2> QED
    BY <2>1, FS_Interval, Zenon
<1>2. IsFiniteSet(below)
  BY <1>1, FS_Subset
<1> QED
  BY <1>2, FS_CardinalityType DEF Log2Ceil

(* ALL_TABLES as a set. *)
LEMMA TablesAre == Tables = {"execution", "extensionOp", "poseidon16"}
BY DEF Tables, AllTables

(* The order of sort_tables_by_height, on indices. *)
LEMMA BeforeIs ==
    ASSUME Dimensions
    PROVE  /\ Before("execution", "extensionOp") <=> heights["execution"] >= heights["extensionOp"]
           /\ Before("execution", "poseidon16") <=> heights["execution"] >= heights["poseidon16"]
           /\ Before("extensionOp", "poseidon16") <=> heights["extensionOp"] >= heights["poseidon16"]
           /\ Before("extensionOp", "execution") <=> heights["extensionOp"] > heights["execution"]
           /\ Before("poseidon16", "execution") <=> heights["poseidon16"] > heights["execution"]
           /\ Before("poseidon16", "extensionOp") <=> heights["poseidon16"] > heights["extensionOp"]
           /\ \A t \in Tables : ~Before(t, t)
BY TablesAre DEF Dimensions, Before, AllTables

(* Six cases: some order of the three tables is the sorted one. *)
LEMMA SortedExists ==
    ASSUME Dimensions
    PROVE  \E s \in [1..3 -> Tables] : \A i, j \in 1..3 : i < j => Before(s[i], s[j])
<1> DEFINE Sorts(a, b, c) == Before(a, b) /\ Before(a, c) /\ Before(b, c)
<1>1. ASSUME NEW a \in Tables, NEW b \in Tables, NEW c \in Tables, Sorts(a, b, c)
      PROVE  \E s \in [1..3 -> Tables] : \A i, j \in 1..3 : i < j => Before(s[i], s[j])
  <2> DEFINE s == [i \in 1..3 |-> IF i = 1 THEN a ELSE IF i = 2 THEN b ELSE c]
  <2>1. s \in [1..3 -> Tables]
    OBVIOUS
  <2>2. ASSUME NEW i \in 1..3, NEW j \in 1..3, i < j PROVE Before(s[i], s[j])
    <3>1. (i = 1 /\ j = 2) \/ (i = 1 /\ j = 3) \/ (i = 2 /\ j = 3)
      BY <2>2
    <3>2. s[1] = a /\ s[2] = b /\ s[3] = c
      OBVIOUS
    <3> QED
      BY <1>1, <3>1, <3>2
  <2> QED
    BY <2>1, <2>2
<1>2. \E a, b, c \in Tables : Sorts(a, b, c)
  <2>1. {"execution", "extensionOp", "poseidon16"} \subseteq Tables
    BY TablesAre
  <2>2. heights["execution"] \in Nat /\ heights["extensionOp"] \in Nat /\ heights["poseidon16"] \in Nat
    BY <2>1 DEF Dimensions
  <2>3. \/ Sorts("execution", "extensionOp", "poseidon16")
        \/ Sorts("execution", "poseidon16", "extensionOp")
        \/ Sorts("extensionOp", "execution", "poseidon16")
        \/ Sorts("extensionOp", "poseidon16", "execution")
        \/ Sorts("poseidon16", "execution", "extensionOp")
        \/ Sorts("poseidon16", "extensionOp", "execution")
    BY <2>2, BeforeIs
  <2> QED
    BY <2>1, <2>3
<1> QED
  BY <1>1, <1>2

(* The first of the sorted tables is one of the highest. *)
LEMMA HighestIs ==
    ASSUME Dimensions
    PROVE  /\ SortedTables \in [1..3 -> Tables]
           /\ Highest \in Nat
           /\ \A t \in Tables : heights[t] <= Highest
<1>1. /\ SortedTables \in [1..3 -> Tables]
      /\ \A i, j \in 1..3 : i < j => Before(SortedTables[i], SortedTables[j])
  BY SortedExists DEF SortedTables
<1>2. /\ Before(SortedTables[1], SortedTables[2])
      /\ Before(SortedTables[1], SortedTables[3])
      /\ Before(SortedTables[2], SortedTables[3])
  BY <1>1
<1>3. SortedTables[1] \in Tables /\ SortedTables[2] \in Tables /\ SortedTables[3] \in Tables
  BY <1>1
<1>4. \A t, u \in Tables : Before(t, u) => heights[u] <= heights[t] /\ t # u
  BY BeforeIs DEF Before, Dimensions
<1>5. \A t \in Tables : t \in {SortedTables[1], SortedTables[2], SortedTables[3]}
  BY <1>2, <1>3, <1>4, TablesAre
<1> QED
  BY <1>1, <1>2, <1>3, <1>4, <1>5 DEF Highest, Dimensions

(* Nothing is known of the dimensions before the padding. *)
LEMMA InitDimensions == LayoutInit => DimensionsInv
BY DEF LayoutInit, DimensionsInv, Dimensions, Late, Sized, Stacked, Committed, Stages, Rejected,
       OnlyOversizedProofsAreRefused

(* The sizes depend on the dimensions alone. *)
LEMMA SameHeights ==
    ASSUME UNCHANGED dims
    PROVE  Highest' = Highest /\ StackedNVars' = StackedNVars
BY DEF dims, Highest, StackedNVars, SumOfTables, SortedTables, Before

(* Most steps change neither the dimensions nor what the stage asks of them. *)
LEMMA SameDimensions ==
    ASSUME DimensionsInv, UNCHANGED dims,
           stage' \in Stages, stage' # "refused",
           stage' \in Late => stage \in Late,
           stage' \in Sized => stage \in Sized,
           stage' \in Stacked => stage \in Stacked,
           stage' \in Committed => stage \in Committed
    PROVE  DimensionsInv'
<1>1. Highest' = Highest /\ StackedNVars' = StackedNVars
  BY SameHeights
<1> QED
  BY <1>1 DEF DimensionsInv, Dimensions, dims, MemoryLargeEnough, ExecutionLargest,
              OnlyOversizedProofsAreRefused

(* Each step adds what the later stages rely on, and keeps the rest. *)
LEMMA NextDimensions == DimensionsInv /\ [LayoutNext]_layoutVars => DimensionsInv'
<1> SUFFICES ASSUME DimensionsInv, [LayoutNext]_layoutVars PROVE DimensionsInv'
  OBVIOUS
<1> USE DEF Late, Sized, Stacked, Committed, Stages, Rejected
<1>1. CASE GetExecutionTrace
  <2>1. \A n : PaddedLog(n) \in Nat /\ PaddedLog(n) >= MinLogRows
    BY Log2CeilIsNat DEF PaddedLog, Larger, MinLogRows
  <2>2. Dimensions' /\ \A t \in Tables : heights'[t] >= MinLogRows
    BY <1>1, <2>1, Log2CeilIsNat DEF GetExecutionTrace, DimensionsInv, Dimensions, Larger, MinLogRows
  <2> QED
    BY <1>1, <2>2 DEF GetExecutionTrace, DimensionsInv, OnlyOversizedProofsAreRefused
<1>2. CASE SendDimensions
  <2>1. run.logBytecode \in Nat
    BY RunsAssumption DEF DimensionsInv, Dimensions, MinLogBytecode
  <2>2. logMemory' \in Nat /\ logMemory' >= MinLogMemory /\ logMemory' >= run.logBytecode
    BY <1>2, <2>1 DEF SendDimensions, DimensionsInv, Dimensions, Larger, LeastLogMemory, MinLogMemory
  <2>3. MaxLogRows \in [Tables -> Nat]
    BY TablesAre DEF MaxLogRows
  <2>4. stage' = "sized" => \A t \in Tables : heights[t] <= MaxLogRows[t]
    BY <1>2, <2>3 DEF SendDimensions, DimensionsInv, Dimensions
  <2> QED
    BY <1>2, <2>2, <2>4 DEF SendDimensions, DimensionsInv, Dimensions, OnlyOversizedProofsAreRefused
<1>3. CASE RefuseHeights
  BY <1>3, SameDimensions DEF RefuseHeights
<1>4. CASE StackMemory
  <2>1. UNCHANGED dims /\ stage = "sized" /\ stage' = "stacking" /\ MemoryLargeEnough /\ ExecutionLargest
    BY <1>4 DEF StackMemory
  <2>2. Highest' = Highest
    BY <2>1, SameHeights
  <2> QED
    BY <2>1, <2>2 DEF DimensionsInv, Dimensions, dims, MemoryLargeEnough, ExecutionLargest,
                      OnlyOversizedProofsAreRefused
<1>5. CASE Commit
  <2>1. CASE stage' = "panicked"
    BY <1>5, <2>1, SameDimensions DEF Commit
  <2>2. CASE stage' # "panicked"
    <3>1. UNCHANGED dims /\ stage = "stacking" /\ stage' = "committed" /\ FitsWhir
      BY <1>5, <2>2 DEF Commit
    <3>2. Highest' = Highest /\ StackedNVars' = StackedNVars
      BY <3>1, SameHeights
    <3> QED
      BY <3>1, <3>2 DEF DimensionsInv, Dimensions, dims, MemoryLargeEnough, ExecutionLargest, FitsWhir,
                        OnlyOversizedProofsAreRefused
  <2> QED
    BY <2>1, <2>2
<1>6. CASE StackTable \/ FillMemory \/ FillTable \/ FinishFractions
  BY <1>6, SameDimensions DEF StackTable, FillMemory, FillTable, FinishFractions, DimensionsInv
<1>7. CASE CheckDimensions
  <2>1. CASE DimensionsValid
    BY <1>7, <2>1, SameDimensions DEF CheckDimensions
  <2>2. CASE ~DimensionsValid
    <3> USE DEF DimensionsInv
    <3>0. stage = "proved" /\ stage' = "refused" /\ UNCHANGED dims
      BY <1>7, <2>2 DEF CheckDimensions
    <3>1. /\ run.logBytecode \in Nat /\ run.logBytecode >= MinLogBytecode
          /\ run.logInvRate \in MinLogInvRate..MaxLogInvRate
      BY RunsAssumption DEF Dimensions, MinLogBytecode
    <3>2. \A t \in Tables : heights[t] <= Highest /\ heights[t] \in Nat /\ MaxLogRows[t] \in Nat
      BY HighestIs, TablesAre DEF Dimensions, MaxLogRows
    <3>3. heights["execution"] \in Nat /\ "execution" \in Tables /\ Highest \in Nat
      BY HighestIs, TablesAre DEF Dimensions
    <3>4. \A t \in Tables : heights[t] <= heights["execution"] /\ heights[t] <= logMemory
      BY <3>0, <3>2, <3>3 DEF MemoryLargeEnough, ExecutionLargest, Dimensions
    <3>5. \A t \in Tables : heights[t] \in MinLogRows..MaxLogRows[t]
      BY <3>0, <3>2 DEF MinLogRows
    <3>6. StackedNVars \in Nat
      BY Log2CeilIsNat DEF StackedNVars
    <3>7. StackedNVars <= TwoAdicity + FoldingFactor - run.logInvRate
      BY <3>0, <3>1, <3>6 DEF TwoAdicity, FoldingFactor, MinLogInvRate, MaxLogInvRate
    <3>8. logMemory > MaxLogMemory \/ run.logBytecode > MaxLogBytecode
      BY <2>2, <3>0, <3>1, <3>4, <3>5, <3>7 DEF DimensionsValid, Dimensions, MinLogBytecode,
         MaxLogBytecode, MinLogMemory, MaxLogMemory
    <3>9. Highest' = Highest /\ StackedNVars' = StackedNVars
      BY <3>0, SameHeights
    <3> QED
      BY <3>0, <3>8, <3>9 DEF Dimensions, dims, MemoryLargeEnough, ExecutionLargest,
                              OnlyOversizedProofsAreRefused
  <2> QED
    BY <2>1, <2>2
<1>8. CASE RetrieveMemory \/ RetrieveTable \/ RetrieveOnes \/ StateMemory \/ StateTable \/ Accept
  BY <1>8, SameDimensions DEF RetrieveMemory, RetrieveTable, RetrieveOnes, StateMemory, StateTable, Accept,
                              DimensionsInv
<1>9. CASE UNCHANGED layoutVars
  <2>1. UNCHANGED <<dims, stage>>
    BY <1>9 DEF layoutVars, dims
  <2>2. Highest' = Highest /\ StackedNVars' = StackedNVars
    BY <2>1, SameHeights DEF dims
  <2> QED
    BY <2>1, <2>2 DEF DimensionsInv, Dimensions, dims, MemoryLargeEnough, ExecutionLargest,
                      OnlyOversizedProofsAreRefused
<1> QED
  BY <1>1, <1>2, <1>3, <1>4, <1>5, <1>6, <1>7, <1>8, <1>9 DEF LayoutNext, Prove, Verify

(* Whatever the run, the bytecode and the rate, the verifier refuses the       *)
(* dimensions of no proof the prover returns, unless the memory or the         *)
(* bytecode is over the maximum that only the verifier knows.                  *)
THEOREM RefusalsAreOversized == LayoutSpec => []OnlyOversizedProofsAreRefused
<1>1. DimensionsInv => OnlyOversizedProofsAreRefused
  BY DEF DimensionsInv
<1> QED
  BY <1>1, InitDimensions, NextDimensions, PTL DEF LayoutSpec

-----------------------------------------------------------------------------
(* Powers of two.                                                             *)

(* n is a multiple of d. *)
Divides(d, n) == \E q \in Nat : n = q * d

(* A power of two divides those above it, which are not smaller. *)
LEMMA PowersDivide ==
    ASSUME NEW m \in Nat, NEW n \in Nat, m <= n
    PROVE  Divides(2^m, 2^n) /\ 2^m <= 2^n
<1>1. n - m \in Nat /\ n = (n - m) + m
  OBVIOUS
<1>2. 2^n = 2^(n - m) * 2^m
  BY <1>1, PowerOfSum
<1>3. 2^(n - m) \in Nat \ {0} /\ 2^m \in Nat \ {0} /\ 2^n \in Nat \ {0}
  BY <1>1, PowerIsPositive
<1>4. ASSUME NEW q \in Nat \ {0}, NEW d \in Nat PROVE q * d >= d
  <2>1. q - 1 \in Nat /\ q * d = (q - 1) * d + d /\ (q - 1) * d \in Nat
    OBVIOUS
  <2> QED BY <2>1
<1> QED
  BY <1>2, <1>3, <1>4 DEF Divides

(* What divides two numbers divides their sum. *)
LEMMA DividesSum ==
    ASSUME NEW d \in Nat, NEW a, NEW b, Divides(d, a), Divides(d, b)
    PROVE  Divides(d, a + b)
<1>1. PICK p \in Nat : a = p * d
  BY DEF Divides
<1>2. PICK q \in Nat : b = q * d
  BY DEF Divides
<1>3. p + q \in Nat /\ a + b = (p + q) * d
  BY <1>1, <1>2
<1> QED
  BY <1>3 DEF Divides

(* What divides a number divides its multiples. *)
LEMMA DividesMultiple ==
    ASSUME NEW d \in Nat, NEW a, NEW c \in Nat, Divides(d, a)
    PROVE  Divides(d, c * a)
<1>1. PICK p \in Nat : a = p * d
  BY DEF Divides
<1>2. c * p \in Nat /\ c * a = (c * p) * d
  BY <1>1
<1> QED
  BY <1>2 DEF Divides

(* A multiple is its quotient times the divisor, and leaves no remainder. *)
LEMMA MultipleIs ==
    ASSUME NEW d \in Nat \ {0}, NEW n, Divides(d, n)
    PROVE  (n \div d) * d = n /\ n % d = 0 /\ n \in Nat
<1>1. PICK q \in Nat : n = q * d
  BY DEF Divides
<1>2. n \in Nat
  BY <1>1
<1> DEFINE p == n \div d
           r == n % d
<1>3. p \in Int /\ r \in 0..d - 1 /\ n = d * p + r
  BY <1>2
<1> HIDE DEF p, r
<1>4. r = (q - p) * d
  <2>1. q * d = d * q /\ (q - p) * d = d * q - d * p
    BY <1>3
  <2> QED BY <1>1, <1>3, <2>1
<1>5. q - p <= 0
  <2> SUFFICES ASSUME q - p >= 1 PROVE FALSE
    BY <1>3
  <2>1. (q - p) * d = (q - p - 1) * d + d /\ q - p - 1 \in Nat
    BY <1>3
  <2>2. (q - p - 1) * d >= 0
    BY <2>1
  <2> QED BY <1>3, <1>4, <2>1, <2>2
<1>6. q - p >= 0
  <2> SUFFICES ASSUME q - p <= -1 PROVE FALSE
    BY <1>3
  <2>1. (p - q) * d = (p - q - 1) * d + d /\ p - q - 1 \in Nat /\ (q - p) * d = -((p - q) * d)
    BY <1>3
  <2>2. (p - q - 1) * d >= 0
    BY <2>1
  <2> QED BY <1>3, <1>4, <2>1, <2>2
<1>7. q = p
  BY <1>3, <1>5, <1>6
<1>8. r = 0
  BY <1>3, <1>4, <1>7
<1> QED
  BY <1>1, <1>2, <1>7, <1>8 DEF p, r

-----------------------------------------------------------------------------
(* The places, for every run.                                                 *)

(* What a loop over the sorted tables has still to do after k of them. *)
Suffix(k) == [i \in 1..3 - k |-> SortedTables[i + k]]

(* The cells of the i-th of them, and where those that follow k of them begin. *)
Share(columns, i) == columns[SortedTables[i]] * 2^heights[SortedTables[i]]

Place(base, columns, k) ==
    base + (IF k >= 1 THEN Share(columns, 1) ELSE 0)
         + (IF k >= 2 THEN Share(columns, 2) ELSE 0)
         + (IF k >= 3 THEN Share(columns, 3) ELSE 0)

(* The two stacks: where the tables begin, and the columns of each. *)
FirstColumn == 2 * 2^logMemory + 2^PaddedBytecode
FirstFraction == 2^logMemory + 2^PaddedBytecode
LogupColumns == [t \in Tables |-> NLookups[t] + (IF t = "execution" THEN 2 ELSE 1)]

ColumnsOf(i) ==
    Section(<<SortedTables[i]>>, Place(FirstColumn, NColumns, i - 1), heights[SortedTables[i]], NColumns[SortedTables[i]])

ColumnsUpTo(k) ==
    {Section(<<"memory">>, 0, logMemory, 1),
     Section(<<"memoryAcc">>, 2^logMemory, logMemory, 1),
     Section(<<"bytecodeAcc">>, 2 * 2^logMemory, run.logBytecode, 1)}
    \cup {ColumnsOf(i) : i \in 1..k}

FractionsOf(i) == TableFractions(SortedTables[i], Place(FirstFraction, LogupColumns, i - 1))

FractionsUpTo(k) ==
    {Section(<<"memory">>, 0, logMemory, 1), Section(<<"bytecode">>, 2^logMemory, run.logBytecode, 1)}
    \cup BytecodePadding(2^logMemory)
    \cup UNION {FractionsOf(i) : i \in 1..k}

Ones == Section(<<"ones">>, ActiveLen, 0, 2^Log2Ceil(ActiveLen) - ActiveLen)

(* A loop stands after k tables, at the offset where the next begins. *)
At(k, base, columns) == todo = Suffix(k) /\ offset = Place(base, columns, k)

PcKnown(k) ==
    \A i \in 1..k : SortedTables[i] = "execution" =>
        pcCells = PcCells(Place(FirstColumn, NColumns, i - 1), heights["execution"])

Filled == {"proved", "checked", "refused", "retrieving", "retrieved", "stating", "accepted"}
Retrieved == {"retrieved", "stating", "accepted"}

(* The invariant: what each loop has built is what the dimensions say. *)
PlacesInv ==
    /\ stage \in Late => heights = [t \in Tables |-> PaddedLog(run.rows[t])]
    /\ stage \notin Stacked => stacked = {}
    /\ stage = "stacking" => \E k \in 0..3 : At(k, FirstColumn, NColumns) /\ stacked = ColumnsUpTo(k)
    /\ stage \in Stacked \ {"stacking"} => stacked = ColumnsUpTo(3)
    /\ stage \in Committed => Log2Ceil(Place(FirstColumn, NColumns, 3)) = StackedNVars
    /\ stage = "filling" => \E k \in 0..3 : At(k, FirstFraction, LogupColumns) /\ fractions = FractionsUpTo(k)
    /\ stage \in Filled =>
          /\ fractions = FractionsUpTo(3) \cup {Ones}
          /\ ActiveLen = Place(FirstFraction, LogupColumns, 3)
    /\ stage \notin Retrieved \cup {"retrieving"} => fractionClaims = {}
    /\ stage = "retrieving" =>
          \E k \in 0..3 : At(k, FirstFraction, LogupColumns) /\ fractionClaims = FractionsUpTo(k)
    /\ stage \in Retrieved => fractionClaims = FractionsUpTo(3) \cup {Ones}
    /\ stage \notin {"stating", "accepted"} => claims = {}
    /\ stage = "stating" =>
          \E k \in 0..3 : At(k, FirstColumn, NColumns) /\ claims = ColumnsUpTo(k) /\ PcKnown(k)
    /\ stage = "accepted" => claims = ColumnsUpTo(3) /\ PcKnown(3)

LayoutInv == DimensionsInv /\ PlacesInv

(* The state in which the places are computed: the assertions have passed. *)
Shape ==
    /\ Dimensions
    /\ run.logBytecode \in Nat /\ logMemory >= run.logBytecode
    /\ MemoryLargeEnough /\ ExecutionLargest

(* The sorted tables: each once, none higher than the one before it. *)
LEMMA SortedAre ==
    ASSUME Dimensions
    PROVE  /\ SortedTables \in [1..3 -> Tables]
           /\ \A i \in 1..3 : SortedTables[i] \in Tables /\ heights[SortedTables[i]] \in Nat
           /\ \A i, j \in 1..3 : i < j =>
                 SortedTables[i] # SortedTables[j] /\ heights[SortedTables[j]] <= heights[SortedTables[i]]
           /\ \A t \in Tables : \E i \in 1..3 : t = SortedTables[i]
<1>1. /\ SortedTables \in [1..3 -> Tables]
      /\ \A i, j \in 1..3 : i < j => Before(SortedTables[i], SortedTables[j])
  BY SortedExists DEF SortedTables
<1>2. /\ Before(SortedTables[1], SortedTables[2])
      /\ Before(SortedTables[1], SortedTables[3])
      /\ Before(SortedTables[2], SortedTables[3])
  BY <1>1
<1>3. SortedTables[1] \in Tables /\ SortedTables[2] \in Tables /\ SortedTables[3] \in Tables
  BY <1>1
<1>4. \A t, u \in Tables : Before(t, u) => heights[u] <= heights[t] /\ t # u
  BY BeforeIs DEF Before, Dimensions
<1>5. \A t \in Tables : t \in {SortedTables[1], SortedTables[2], SortedTables[3]}
  BY <1>2, <1>3, <1>4, TablesAre
<1>6. \A i, j \in 1..3 : i < j =>
          SortedTables[i] # SortedTables[j] /\ heights[SortedTables[j]] <= heights[SortedTables[i]]
  BY <1>1, <1>4
<1>7. \A i \in 1..3 : SortedTables[i] \in Tables /\ heights[SortedTables[i]] \in Nat
  BY <1>1 DEF Dimensions
<1> QED
  BY <1>1, <1>5, <1>6, <1>7

(* The loops take the tables in the sorted order, from the first to the third. *)
LEMMA SuffixIs ==
    ASSUME Dimensions
    PROVE  /\ Suffix(0) = SortedTables /\ Suffix(3) = <<>>
           /\ \A k \in 0..3 : Suffix(k) \in Seq(Tables) /\ Len(Suffix(k)) = 3 - k
           /\ \A k \in 0..2 : /\ Suffix(k) # <<>>
                             /\ Head(Suffix(k)) = SortedTables[k + 1]
                             /\ Tail(Suffix(k)) = Suffix(k + 1)
<1>1. SortedTables \in [1..3 -> Tables]
  BY SortedAre
<1>2. Suffix(0) = SortedTables
  BY <1>1 DEF Suffix
<1>3. ASSUME NEW k \in 0..3 PROVE Suffix(k) \in Seq(Tables) /\ Len(Suffix(k)) = 3 - k
  <2>1. 3 - k \in Nat /\ \A i \in 1..3 - k : i + k \in 1..3
    OBVIOUS
  <2>2. Suffix(k) \in [1..3 - k -> Tables]
    BY <1>1, <2>1 DEF Suffix
  <2>3. \A n \in Nat : \A f \in [1..n -> Tables] : f \in Seq(Tables) /\ Len(f) = n
    OBVIOUS
  <2> QED
    BY <2>1, <2>2, <2>3
<1>4. Suffix(3) = <<>>
  BY <1>3
<1>5. ASSUME NEW k \in 0..2
      PROVE  /\ Suffix(k) # <<>>
             /\ Head(Suffix(k)) = SortedTables[k + 1]
             /\ Tail(Suffix(k)) = Suffix(k + 1)
  <2>1. k \in 0..3 /\ k + 1 \in 0..3 /\ 3 - k >= 1
    OBVIOUS
  <2>2. Suffix(k) \in Seq(Tables) /\ Len(Suffix(k)) = 3 - k /\ Suffix(k + 1) \in Seq(Tables) /\ Len(Suffix(k + 1)) = 2 - k
    <3>1. Suffix(k + 1) \in Seq(Tables) /\ Len(Suffix(k + 1)) = 3 - (k + 1)
      BY <1>3, <2>1
    <3>2. Suffix(k) \in Seq(Tables) /\ Len(Suffix(k)) = 3 - k
      BY <1>3, <2>1
    <3>3. 3 - (k + 1) = 2 - k
      OBVIOUS
    <3> QED BY <3>1, <3>2, <3>3
  <2>3. Suffix(k) # <<>>
    BY <2>1, <2>2
  <2>4. Head(Suffix(k)) = SortedTables[k + 1]
    <3>1. Suffix(k)[1] = SortedTables[k + 1]
      BY <2>1 DEF Suffix
    <3> QED BY <2>2, <2>3, <3>1
  <2>5. Tail(Suffix(k)) \in Seq(Tables) /\ Len(Tail(Suffix(k))) = 2 - k
    BY <2>1, <2>2, <2>3
  <2>6. \A i \in 1..2 - k : Tail(Suffix(k))[i] = Suffix(k)[i + 1] /\ Suffix(k)[i + 1] = Suffix(k + 1)[i]
    <3> TAKE i \in 1..2 - k
    <3>1. i + 1 \in 1..3 - k /\ i \in 1..3 - (k + 1) /\ i + 1 + k = i + (k + 1)
      OBVIOUS
    <3>2. Suffix(k)[i + 1] = SortedTables[i + 1 + k] /\ Suffix(k + 1)[i] = SortedTables[i + (k + 1)]
      BY <3>1 DEF Suffix
    <3>3. Tail(Suffix(k))[i] = Suffix(k)[i + 1]
      BY <2>2, <2>3, <3>1
    <3> QED BY <3>1, <3>2, <3>3
  <2>7. Tail(Suffix(k)) = Suffix(k + 1)
    BY <2>2, <2>5, <2>6
  <2> QED BY <2>3, <2>4, <2>7
<1> QED
  BY <1>2, <1>3, <1>4, <1>5

(* The memory is the longest section, then the padded bytecode, then the tables. *)
LEMMA ShapeIs ==
    ASSUME Shape
    PROVE  /\ Highest \in Nat /\ Highest = heights[SortedTables[1]]
           /\ heights["execution"] = Highest
           /\ \A t \in Tables : heights[t] \in Nat /\ heights[t] <= Highest
           /\ logMemory \in Nat /\ PaddedBytecode \in Nat
           /\ Highest <= PaddedBytecode /\ PaddedBytecode <= logMemory
           /\ run.logBytecode <= PaddedBytecode
           /\ 2^PaddedBytecode = Larger(2^Highest, 2^run.logBytecode)
           /\ 2^PaddedBytecode = 2^Larger(run.logBytecode, Highest)
<1>1. /\ Highest \in Nat /\ Highest = heights[SortedTables[1]]
      /\ \A t \in Tables : heights[t] \in Nat /\ heights[t] <= Highest
  BY HighestIs DEF Shape, Dimensions, Highest
<1>2. "execution" \in Tables
  BY TablesAre
<1>3. heights["execution"] = Highest /\ Highest <= logMemory /\ logMemory \in Nat
  BY <1>1, <1>2 DEF Shape, Dimensions, MemoryLargeEnough, ExecutionLargest
<1>4. /\ PaddedBytecode \in Nat /\ Highest <= PaddedBytecode /\ PaddedBytecode <= logMemory
      /\ run.logBytecode <= PaddedBytecode
      /\ PaddedBytecode = run.logBytecode \/ PaddedBytecode = Highest
      /\ run.logBytecode \in Nat
  BY <1>1, <1>3 DEF Shape, PaddedBytecode, Larger
<1>5. 2^PaddedBytecode = Larger(2^Highest, 2^run.logBytecode)
  <2>1. 2^Highest <= 2^PaddedBytecode /\ 2^run.logBytecode <= 2^PaddedBytecode
    BY <1>1, <1>4, PowersDivide
  <2>2. 2^Highest \in Nat /\ 2^run.logBytecode \in Nat
    BY <1>1, <1>4, PowerIsPositive
  <2> QED
    BY <1>4, <2>1, <2>2 DEF Larger
<1> QED
  BY <1>1, <1>3, <1>4, <1>5 DEF PaddedBytecode

(* The offsets of a loop, table after table. *)
LEMMA PlaceIs ==
    ASSUME Dimensions, NEW base \in Nat, NEW columns \in [Tables -> Nat]
    PROVE  /\ \A i \in 1..3 : Share(columns, i) \in Nat
           /\ \A k \in 0..3 : Place(base, columns, k) \in Nat
           /\ Place(base, columns, 0) = base
           /\ \A k \in 0..2 : Place(base, columns, k + 1) = Place(base, columns, k) + Share(columns, k + 1)
<1>1. ASSUME NEW i \in 1..3 PROVE Share(columns, i) \in Nat
  <2>1. SortedTables[i] \in Tables /\ heights[SortedTables[i]] \in Nat
    BY SortedAre
  <2>2. columns[SortedTables[i]] \in Nat /\ 2^heights[SortedTables[i]] \in Nat
    BY <2>1, PowerIsPositive
  <2>3. \A a, b \in Nat : a * b \in Nat
    OBVIOUS
  <2> QED
    BY <2>2, <2>3 DEF Share
<1>2. Share(columns, 1) \in Nat /\ Share(columns, 2) \in Nat /\ Share(columns, 3) \in Nat
  BY <1>1
<1>3. /\ Place(base, columns, 0) = base
      /\ Place(base, columns, 1) = base + Share(columns, 1)
      /\ Place(base, columns, 2) = base + Share(columns, 1) + Share(columns, 2)
      /\ Place(base, columns, 3) = base + Share(columns, 1) + Share(columns, 2) + Share(columns, 3)
  BY <1>2 DEF Place
<1>4. \A k \in 0..3 : Place(base, columns, k) \in Nat
  <2> TAKE k \in 0..3
  <2>1. k = 0 \/ k = 1 \/ k = 2 \/ k = 3
    OBVIOUS
  <2> QED BY <1>2, <1>3, <2>1
<1>5. \A k \in 0..2 : Place(base, columns, k + 1) = Place(base, columns, k) + Share(columns, k + 1)
  <2> TAKE k \in 0..2
  <2>1. CASE k = 0
    BY <1>3, <2>1
  <2>2. CASE k = 1
    BY <1>3, <2>2
  <2>3. CASE k = 2
    BY <1>3, <2>3
  <2> QED BY <2>1, <2>2, <2>3
<1> QED
  BY <1>1, <1>3, <1>4, <1>5

(* Each table begins at a multiple of the length of its columns: whatever lies   *)
(* before it is a multiple of a higher table's.                                *)
LEMMA PlaceAligned ==
    ASSUME Dimensions, NEW base \in Nat, NEW columns \in [Tables -> Nat], Divides(2^Highest, base),
           NEW i \in 1..3
    PROVE  /\ Place(base, columns, i - 1) \in Nat
           /\ Divides(2^heights[SortedTables[i]], Place(base, columns, i - 1))
<1> DEFINE d == 2^heights[SortedTables[i]]
           P(k) == Place(base, columns, k)
<1>1. /\ \A j \in 1..3 : SortedTables[j] \in Tables /\ heights[SortedTables[j]] \in Nat
      /\ \A j \in 1..3 : j < i => heights[SortedTables[i]] <= heights[SortedTables[j]]
      /\ heights[SortedTables[i]] <= Highest /\ Highest \in Nat
  BY SortedAre, HighestIs
<1>2. d \in Nat
  BY <1>1, PowerIsPositive
<1>3. Divides(d, base)
  <2>1. PICK q \in Nat : base = q * 2^Highest
    BY DEF Divides
  <2>2. Divides(d, 2^Highest)
    BY <1>1, PowersDivide
  <2> HIDE DEF d
  <2> QED BY <1>2, <2>1, <2>2, DividesMultiple
<1>4. ASSUME NEW j \in 1..3, j < i PROVE Divides(d, Share(columns, j))
  <2>1. Divides(d, 2^heights[SortedTables[j]])
    BY <1>1, <1>4, PowersDivide
  <2>2. columns[SortedTables[j]] \in Nat
    BY <1>1
  <2> HIDE DEF d
  <2> QED BY <1>2, <2>1, <2>2, DividesMultiple DEF Share
<1> HIDE DEF d
<1>5. P(0) = base /\ P(1) = P(0) + Share(columns, 1) /\ P(2) = P(1) + Share(columns, 2)
  <2>1. P(0 + 1) = P(0) + Share(columns, 0 + 1) /\ P(1 + 1) = P(1) + Share(columns, 1 + 1) /\ P(0) = base
    BY PlaceIs
  <2> QED BY <2>1
<1>6. \A k \in 0..3 : P(k) \in Nat
  BY PlaceIs
<1> HIDE DEF P
<1>7. CASE i = 1
  BY <1>3, <1>5, <1>6, <1>7 DEF d, P
<1>8. CASE i = 2
  <2>1. Divides(d, P(1))
    BY <1>2, <1>3, <1>4, <1>5, <1>8, DividesSum
  <2> QED BY <1>6, <1>8, <2>1 DEF d, P
<1>9. CASE i = 3
  <2>1. Divides(d, P(1))
    BY <1>2, <1>3, <1>4, <1>5, <1>9, DividesSum
  <2>2. Divides(d, P(2))
    BY <1>2, <1>4, <1>5, <1>9, <2>1, DividesSum
  <2> QED BY <1>6, <1>9, <2>2 DEF d, P
<1> QED
  BY <1>7, <1>8, <1>9

(* A selector of the high bits finds what begins at a multiple of its length. *)
LEMMA SelectedIs ==
    ASSUME NEW h \in Nat, NEW first, Divides(2^h, first)
    PROVE  Selected(first, h) = first
BY PowerIsPositive, MultipleIs DEF Selected

(* The table's columns are enough for its lookups, its bus and its pc. *)
LEMMA ColumnCounts ==
    /\ NColumns \in [Tables -> Nat] /\ NLookups \in [Tables -> Nat] /\ LogupColumns \in [Tables -> Nat]
    /\ \A t \in Tables : /\ NLookups[t] \in Nat \ {0} /\ NColumns[t] \in Nat
                         /\ LogupColumns[t] = NLookups[t] + (IF t = "execution" THEN 2 ELSE 1)
                         /\ LogupColumns[t] <= NColumns[t]
<1>1. NColumns \in [Tables -> Nat] /\ NLookups \in [Tables -> Nat]
  BY TablesAre DEF NColumns, NLookups
<1>2. \A t \in Tables : LogupColumns[t] = NLookups[t] + (IF t = "execution" THEN 2 ELSE 1)
  BY DEF LogupColumns
<1>3. LogupColumns \in [Tables -> Nat]
  BY <1>1 DEF LogupColumns
<1>4. \A t \in Tables : NLookups[t] \in Nat \ {0} /\ NColumns[t] \in Nat /\ LogupColumns[t] <= NColumns[t]
  BY <1>2, TablesAre DEF NColumns, NLookups
<1> QED
  BY <1>1, <1>2, <1>3, <1>4

(* Both stacks put the tables after sections at least as long as they are. *)
LEMMA BasesAligned ==
    ASSUME Shape
    PROVE  /\ FirstColumn \in Nat /\ Divides(2^Highest, FirstColumn)
           /\ FirstFraction \in Nat /\ Divides(2^Highest, FirstFraction)
           /\ Selected(2^logMemory, run.logBytecode) = 2^logMemory
           /\ Selected(2^logMemory, PaddedBytecode) = 2^logMemory
           /\ Selected(2 * 2^logMemory, run.logBytecode) = 2 * 2^logMemory
<1>1. /\ Highest \in Nat /\ logMemory \in Nat /\ PaddedBytecode \in Nat /\ run.logBytecode \in Nat
      /\ Highest <= PaddedBytecode /\ PaddedBytecode <= logMemory /\ run.logBytecode <= logMemory
      /\ Highest <= logMemory
  BY ShapeIs DEF Shape
<1>2. 2^Highest \in Nat /\ 2^logMemory \in Nat /\ 2^PaddedBytecode \in Nat /\ 2^run.logBytecode \in Nat
  BY <1>1, PowerIsPositive
<1>3. /\ Divides(2^Highest, 2^logMemory) /\ Divides(2^Highest, 2^PaddedBytecode)
      /\ Divides(2^run.logBytecode, 2^logMemory) /\ Divides(2^PaddedBytecode, 2^logMemory)
  BY <1>1, PowersDivide
<1>4. 2 \in Nat
  OBVIOUS
<1>5. Divides(2^Highest, 2 * 2^logMemory) /\ Divides(2^run.logBytecode, 2 * 2^logMemory)
  BY <1>2, <1>3, <1>4, DividesMultiple
<1>6. Divides(2^Highest, FirstColumn) /\ Divides(2^Highest, FirstFraction)
  BY <1>2, <1>3, <1>5, DividesSum DEF FirstColumn, FirstFraction
<1>7. FirstColumn \in Nat /\ FirstFraction \in Nat
  BY <1>2 DEF FirstColumn, FirstFraction
<1> QED
  BY <1>1, <1>3, <1>5, <1>6, <1>7, SelectedIs

(* pref_at finds a table's sections where prove_generic_logup put them. *)
LEMMA TableClaimsAre ==
    ASSUME Shape, NEW i \in 1..3
    PROVE  TableClaims(SortedTables[i], Place(FirstFraction, LogupColumns, i - 1)) = FractionsOf(i)
<1> DEFINE t == SortedTables[i]
           h == heights[t]
           first == Place(FirstFraction, LogupColumns, i - 1)
           bus == IF t = "execution" THEN first + 2^h ELSE first
<1>1. first \in Nat /\ Divides(2^h, first) /\ h \in Nat
  BY BasesAligned, PlaceAligned, ColumnCounts, SortedAre DEF Shape
<1> HIDE DEF first, h
<1>2. 2^h \in Nat /\ Divides(2^h, 2^h)
  BY <1>1, PowerIsPositive, PowersDivide
<1>3. Divides(2^h, first + 2^h)
  BY <1>1, <1>2, DividesSum
<1>4. Divides(2^h, bus)
  BY <1>1, <1>3
<1> HIDE DEF bus
<1>5. Divides(2^h, bus + 2^h)
  BY <1>2, <1>4, DividesSum
<1>6. Selected(first, h) = first /\ Selected(bus, h) = bus /\ Selected(bus + 2^h, h) = bus + 2^h
  BY <1>1, <1>4, <1>5, SelectedIs
<1>7. TableClaims(t, first) = TableFractions(t, first)
  BY <1>6, Zenon DEF TableClaims, TableFractions, bus, h
<1> QED
  BY <1>7 DEF FractionsOf, first

(* A table's sections follow one another and fill its share. *)
LEMMA TableEnds ==
    ASSUME Shape, NEW i \in 1..3
    PROVE  LastEnd(FractionsOf(i)) = Place(FirstFraction, LogupColumns, i)
<1> DEFINE t == SortedTables[i]
           h == heights[t]
           first == Place(FirstFraction, LogupColumns, i - 1)
           bus == IF t = "execution" THEN first + 2^h ELSE first
           end == Place(FirstFraction, LogupColumns, i)
<1>1. first \in Nat /\ h \in Nat /\ t \in Tables /\ 2^h \in Nat
  BY BasesAligned, PlaceAligned, ColumnCounts, SortedAre, PowerIsPositive DEF Shape
<1>2. end = first + LogupColumns[t] * 2^h
  <2>1. i - 1 \in 0..2 /\ (i - 1) + 1 = i
    OBVIOUS
  <2>2. Place(FirstFraction, LogupColumns, (i - 1) + 1) = first + Share(LogupColumns, (i - 1) + 1)
    BY <2>1, BasesAligned, ColumnCounts, PlaceIs DEF Shape
  <2> QED
    BY <2>1, <2>2 DEF Share
<1>3. /\ NLookups[t] \in Nat
      /\ LogupColumns[t] = NLookups[t] + (IF t = "execution" THEN 2 ELSE 1)
  BY <1>1, ColumnCounts
<1> HIDE DEF first, end, t, h
<1>4. /\ LogupColumns[t] * 2^h = NLookups[t] * 2^h + (IF t = "execution" THEN 2 * 2^h ELSE 2^h)
      /\ NLookups[t] * 2^h \in Nat
  BY <1>1, <1>3
<1>5. bus \in Nat /\ end = bus + 2^h + NLookups[t] * 2^h /\ end \in Nat /\ first + 2^h <= end /\ bus + 2^h <= end
  BY <1>1, <1>2, <1>4
<1>6. /\ End(Section(<<t, "bus">>, bus, h, 1)) = bus + 2^h
      /\ End(Section(<<t, "pc">>, first, h, 1)) = first + 2^h
      /\ End(Section(<<t, "lookups">>, bus + 2^h, h, NLookups[t])) = end
  BY <1>1, <1>5 DEF End, Section
<1>7. FractionsOf(i) = {Section(<<t, "bus">>, bus, h, 1), Section(<<t, "lookups">>, bus + 2^h, h, NLookups[t])}
                       \cup (IF t = "execution" THEN {Section(<<t, "pc">>, first, h, 1)} ELSE {})
  BY Zenon DEF FractionsOf, TableFractions, t, h, first
<1>8. /\ end \in {End(s) : s \in FractionsOf(i)}
      /\ \A e \in {End(s) : s \in FractionsOf(i)} : e \in Nat /\ e <= end
  BY <1>1, <1>5, <1>6, <1>7
<1>9. LastEnd(FractionsOf(i)) = end
  <2> DEFINE Ends == {End(s) : s \in FractionsOf(i)}
  <2> HIDE DEF Ends
  <2>1. \A m \in Ends : (\A e \in Ends : m >= e) <=> m = end
    BY <1>8 DEF Ends
  <2>2. Max(Ends) = end
    BY <1>8, <2>1 DEF Max, Ends
  <2> QED BY <2>2 DEF LastEnd, Ends
<1> QED
  BY <1>9 DEF end

(* Where a loop stands: which table comes next, or that none does. *)
LEMMA LoopIs ==
    ASSUME Shape, NEW k \in 0..3, todo = Suffix(k)
    PROVE  /\ todo # <<>> => k \in 0..2 /\ Head(todo) = SortedTables[k + 1] /\ Tail(todo) = Suffix(k + 1)
           /\ todo = <<>> => k = 3
<1>1. k \in 0..2 \/ k = 3
  OBVIOUS
<1>2. Dimensions
  BY DEF Shape
<1>3. k = 3 => todo = <<>>
  BY <1>2, SuffixIs
<1>4. k \in 0..2 => todo # <<>> /\ Head(todo) = SortedTables[k + 1] /\ Tail(todo) = Suffix(k + 1)
  BY <1>2, SuffixIs
<1> QED
  BY <1>1, <1>3, <1>4

(* One table more. *)
LEMMA OneMore ==
    ASSUME Shape, NEW k \in 0..2
    PROVE  /\ k + 1 \in 1..3 /\ k + 1 \in 0..3
           /\ ColumnsUpTo(k + 1) = ColumnsUpTo(k) \cup {ColumnsOf(k + 1)}
           /\ FractionsUpTo(k + 1) = FractionsUpTo(k) \cup FractionsOf(k + 1)
           /\ Place(FirstColumn, NColumns, k) \in Nat
           /\ End(ColumnsOf(k + 1)) = Place(FirstColumn, NColumns, k + 1)
           /\ ColumnsOf(k + 1) = Section(<<SortedTables[k + 1]>>, Place(FirstColumn, NColumns, k),
                                         heights[SortedTables[k + 1]], NColumns[SortedTables[k + 1]])
           /\ Selected(Place(FirstColumn, NColumns, k), heights[SortedTables[k + 1]]) = Place(FirstColumn, NColumns, k)
           /\ Place(FirstColumn, NColumns, k + 1) =
                 Place(FirstColumn, NColumns, k) + NColumns[SortedTables[k + 1]] * 2^heights[SortedTables[k + 1]]
           /\ Place(FirstFraction, LogupColumns, k + 1) =
                 Place(FirstFraction, LogupColumns, k) + LogupColumns[SortedTables[k + 1]] * 2^heights[SortedTables[k + 1]]
           /\ FractionsOf(k + 1) = TableFractions(SortedTables[k + 1], Place(FirstFraction, LogupColumns, k))
           /\ LastEnd(FractionsOf(k + 1)) = Place(FirstFraction, LogupColumns, k + 1)
           /\ TableClaims(SortedTables[k + 1], Place(FirstFraction, LogupColumns, k)) = FractionsOf(k + 1)
<1>1. k + 1 \in 1..3 /\ k + 1 \in 0..3 /\ (k + 1) - 1 = k /\ k \in 0..3 /\ 1..k + 1 = 1..k \cup {k + 1}
  OBVIOUS
<1>2. ColumnsUpTo(k + 1) = ColumnsUpTo(k) \cup {ColumnsOf(k + 1)}
  <2>1. {ColumnsOf(i) : i \in 1..k + 1} = {ColumnsOf(i) : i \in 1..k} \cup {ColumnsOf(k + 1)}
    BY <1>1
  <2> HIDE DEF ColumnsOf
  <2> QED BY <2>1 DEF ColumnsUpTo
<1>3. FractionsUpTo(k + 1) = FractionsUpTo(k) \cup FractionsOf(k + 1)
  <2>1. UNION {FractionsOf(i) : i \in 1..k + 1} = (UNION {FractionsOf(i) : i \in 1..k}) \cup FractionsOf(k + 1)
    BY <1>1
  <2> QED BY <2>1 DEF FractionsUpTo
<1>4. /\ Place(FirstColumn, NColumns, k + 1) = Place(FirstColumn, NColumns, k) + Share(NColumns, k + 1)
      /\ Place(FirstFraction, LogupColumns, k + 1) = Place(FirstFraction, LogupColumns, k) + Share(LogupColumns, k + 1)
      /\ Place(FirstColumn, NColumns, k) \in Nat
  <2>1. /\ Dimensions /\ FirstColumn \in Nat /\ FirstFraction \in Nat
        /\ NColumns \in [Tables -> Nat] /\ LogupColumns \in [Tables -> Nat]
    BY BasesAligned, ColumnCounts DEF Shape
  <2>2. k \in 0..2 /\ k \in 0..3
    BY <1>1
  <2> QED
    BY ONLY <2>1, <2>2, PlaceIs
<1>5. ColumnsOf(k + 1) = Section(<<SortedTables[k + 1]>>, Place(FirstColumn, NColumns, k),
                                 heights[SortedTables[k + 1]], NColumns[SortedTables[k + 1]])
  BY <1>1 DEF ColumnsOf
<1>6. End(ColumnsOf(k + 1)) = Place(FirstColumn, NColumns, k + 1)
  BY <1>4, <1>5 DEF End, Section, Share
<1>7. Divides(2^heights[SortedTables[k + 1]], Place(FirstColumn, NColumns, (k + 1) - 1)) /\ heights[SortedTables[k + 1]] \in Nat
  BY <1>1, BasesAligned, PlaceAligned, ColumnCounts, SortedAre DEF Shape
<1>8. Selected(Place(FirstColumn, NColumns, k), heights[SortedTables[k + 1]]) = Place(FirstColumn, NColumns, k)
  BY <1>1, <1>7, SelectedIs
<1>9. FractionsOf(k + 1) = TableFractions(SortedTables[k + 1], Place(FirstFraction, LogupColumns, k))
  BY <1>1 DEF FractionsOf
<1>10. LastEnd(FractionsOf(k + 1)) = Place(FirstFraction, LogupColumns, k + 1)
  BY <1>1, TableEnds
<1>11. TableClaims(SortedTables[k + 1], Place(FirstFraction, LogupColumns, k)) = FractionsOf(k + 1)
  BY <1>1, TableClaimsAre
<1> QED
  BY <1>1, <1>2, <1>3, <1>4, <1>5, <1>6, <1>8, <1>9, <1>10, <1>11 DEF Share

(* Before the first table. *)
LEMMA NoneYet ==
    ASSUME Shape
    PROVE  /\ SortedTables = Suffix(0) /\ 0 \in 0..3
           /\ Place(FirstColumn, NColumns, 0) = FirstColumn
           /\ Place(FirstFraction, LogupColumns, 0) = FirstFraction
           /\ ColumnsUpTo(0) = {Section(<<"memory">>, 0, logMemory, 1),
                                Section(<<"memoryAcc">>, 2^logMemory, logMemory, 1),
                                Section(<<"bytecodeAcc">>, 2 * 2^logMemory, run.logBytecode, 1)}
           /\ FractionsUpTo(0) = {Section(<<"memory">>, 0, logMemory, 1),
                                  Section(<<"bytecode">>, 2^logMemory, run.logBytecode, 1)}
                                 \cup BytecodePadding(2^logMemory)
<1>1. 1..0 = {}
  OBVIOUS
<1>2. {ColumnsOf(i) : i \in 1..0} = {} /\ UNION {FractionsOf(i) : i \in 1..0} = {}
  BY <1>1
<1>3. /\ Place(FirstColumn, NColumns, 0) = FirstColumn
      /\ Place(FirstFraction, LogupColumns, 0) = FirstFraction
  BY BasesAligned, ColumnCounts, PlaceIs DEF Shape
<1> QED
  BY <1>2, <1>3, SuffixIs DEF ColumnsUpTo, FractionsUpTo, Shape

(* The places depend on the dimensions alone. *)
LEMMA SamePlaces ==
    ASSUME UNCHANGED dims
    PROVE  /\ SortedTables' = SortedTables /\ heights' = heights /\ run' = run /\ logMemory' = logMemory
           /\ StackedNVars' = StackedNVars /\ ActiveLen' = ActiveLen /\ Ones' = Ones
           /\ \A k : Suffix(k)' = Suffix(k)
           /\ \A k : Place(FirstColumn, NColumns, k)' = Place(FirstColumn, NColumns, k)
           /\ \A k : Place(FirstFraction, LogupColumns, k)' = Place(FirstFraction, LogupColumns, k)
           /\ \A k : ColumnsUpTo(k)' = ColumnsUpTo(k) /\ FractionsUpTo(k)' = FractionsUpTo(k)
<1>1. heights' = heights /\ run' = run /\ logMemory' = logMemory
  BY DEF dims
<1>2. SortedTables' = SortedTables /\ Highest' = Highest /\ StackedNVars' = StackedNVars
  BY SameHeights DEF dims, SortedTables, Before
<1>3. ActiveLen' = ActiveLen /\ PaddedBytecode' = PaddedBytecode
  BY <1>1, <1>2 DEF ActiveLen, PaddedBytecode, SumOfTables
<1>4. FirstColumn' = FirstColumn /\ FirstFraction' = FirstFraction /\ Ones' = Ones
  BY <1>1, <1>3 DEF FirstColumn, FirstFraction, Ones
<1>5. \A k : Suffix(k)' = Suffix(k)
  BY <1>2 DEF Suffix
<1>6. /\ \A k : Place(FirstColumn, NColumns, k)' = Place(FirstColumn, NColumns, k)
      /\ \A k : Place(FirstFraction, LogupColumns, k)' = Place(FirstFraction, LogupColumns, k)
  BY <1>1, <1>2, <1>4 DEF Place, Share, LogupColumns
<1>7. \A k : ColumnsOf(k)' = ColumnsOf(k) /\ FractionsOf(k)' = FractionsOf(k)
  BY <1>1, <1>2, <1>6 DEF ColumnsOf, FractionsOf, TableFractions
<1>8. BytecodePadding(2^logMemory)' = BytecodePadding(2^logMemory)
  BY <1>1, <1>2 DEF BytecodePadding
<1>9. \A k : ColumnsUpTo(k)' = ColumnsUpTo(k) /\ FractionsUpTo(k)' = FractionsUpTo(k)
  BY <1>1, <1>7, <1>8 DEF ColumnsUpTo, FractionsUpTo
<1> QED
  BY <1>1, <1>2, <1>3, <1>4, <1>5, <1>6, <1>9

(* What the invariant says of the dimensions once the assertions have passed. *)
LEMMA ShapeHolds ==
    ASSUME DimensionsInv,
           \/ stage \in Stacked
           \/ stage = "sized" /\ MemoryLargeEnough /\ ExecutionLargest
    PROVE  Shape
<1>1. Dimensions /\ run.logBytecode \in Nat
  BY RunsAssumption DEF DimensionsInv, Dimensions, MinLogBytecode
<1>2. stage \in Sized
  BY DEF Stacked, Sized, Late, Stages
<1> QED
  BY <1>1, <1>2 DEF DimensionsInv, Shape

(* The pc cells are those of the same tables while nothing moves. *)
LEMMA SamePc ==
    ASSUME UNCHANGED dims, pcCells' = pcCells, NEW k
    PROVE  PcKnown(k)' <=> PcKnown(k)
BY SamePlaces DEF PcKnown

(* Nothing is placed at first. *)
LEMMA InitPlaces == LayoutInit => PlacesInv
BY DEF LayoutInit, PlacesInv, Late, Sized, Stacked, Committed, Filled, Retrieved, Stages, Rejected

(* The steps of the prover. *)
LEMMA ProvePlaces ==
    ASSUME DimensionsInv, PlacesInv, Prove
    PROVE  PlacesInv'
<1> USE DEF Late, Sized, Stacked, Committed, Filled, Retrieved, Stages, Rejected
<1>1. CASE GetExecutionTrace
  <2>1. /\ stage = "executed" /\ stage' = "traced" /\ run' = run
        /\ heights' = [t \in Tables |-> PaddedLog(run.rows[t])]
        /\ stacked' = stacked /\ fractionClaims' = fractionClaims /\ claims' = claims
    BY <1>1 DEF GetExecutionTrace, proverPlaces, verifierPlaces
  <2> QED
    BY <2>1 DEF PlacesInv
<1>2. CASE SendDimensions
  <2>1. /\ stage = "traced" /\ stage' \in {"sized", "tooBigTable"} /\ run' = run /\ heights' = heights
        /\ stacked' = stacked /\ fractionClaims' = fractionClaims /\ claims' = claims
    BY <1>2 DEF SendDimensions, proverPlaces, verifierPlaces
  <2> QED
    BY <2>1 DEF PlacesInv
<1>3. CASE RefuseHeights
  <2>1. /\ stage = "sized" /\ stage' \in {"memoryTooSmall", "executionNotLargest"}
        /\ run' = run /\ heights' = heights
        /\ stacked' = stacked /\ fractionClaims' = fractionClaims /\ claims' = claims
    BY <1>3 DEF RefuseHeights, dims, proverPlaces, verifierPlaces
  <2> QED
    BY <2>1 DEF PlacesInv
<1>4. CASE StackMemory
  <2>1. /\ stage = "sized" /\ stage' = "stacking" /\ UNCHANGED dims /\ todo' = SortedTables
        /\ MemoryLargeEnough /\ ExecutionLargest
        /\ fractionClaims' = fractionClaims /\ claims' = claims
        /\ offset' = 2 * 2^logMemory + Larger(2^Highest, 2^run.logBytecode)
        /\ stacked' = {Section(<<"memory">>, 0, logMemory, 1),
                       Section(<<"memoryAcc">>, 2^logMemory, logMemory, 1),
                       Section(<<"bytecodeAcc">>, 2 * 2^logMemory, run.logBytecode, 1)}
    BY <1>4 DEF StackMemory, verifierPlaces
  <2>2. Shape
    BY <2>1, ShapeHolds
  <2>3. todo' = Suffix(0) /\ offset' = Place(FirstColumn, NColumns, 0) /\ stacked' = ColumnsUpTo(0) /\ 0 \in 0..3
    BY <2>1, <2>2, NoneYet, ShapeIs DEF FirstColumn
  <2>4. At(0, FirstColumn, NColumns)' /\ stacked' = ColumnsUpTo(0)'
    BY <2>1, <2>3, SamePlaces DEF At
  <2> QED
    BY <2>1, <2>3, <2>4, SamePlaces DEF PlacesInv
<1>5. CASE StackTable
  <2>1. /\ stage = "stacking" /\ stage' = "stacking" /\ UNCHANGED dims /\ todo # <<>> /\ todo' = Tail(todo)
        /\ fractionClaims' = fractionClaims /\ claims' = claims
    BY <1>5 DEF StackTable, verifierPlaces
  <2>2. Shape
    BY <2>1, ShapeHolds
  <2>3. PICK k \in 0..3 : todo = Suffix(k) /\ offset = Place(FirstColumn, NColumns, k) /\ stacked = ColumnsUpTo(k)
    BY <2>1 DEF PlacesInv, At
  <2>4. k \in 0..2 /\ Head(todo) = SortedTables[k + 1] /\ todo' = Suffix(k + 1)
    BY <2>1, <2>2, <2>3, LoopIs
  <2>5. /\ ColumnsOf(k + 1) = Section(<<Head(todo)>>, offset, heights[Head(todo)], NColumns[Head(todo)])
        /\ ColumnsUpTo(k + 1) = stacked \cup {ColumnsOf(k + 1)}
        /\ End(ColumnsOf(k + 1)) = Place(FirstColumn, NColumns, k + 1)
        /\ k + 1 \in 0..3
    BY <2>2, <2>3, <2>4, OneMore
  <2>6. stacked' = ColumnsUpTo(k + 1) /\ offset' = Place(FirstColumn, NColumns, k + 1)
    BY <1>5, <2>5 DEF StackTable
  <2>7. At(k + 1, FirstColumn, NColumns)' /\ stacked' = ColumnsUpTo(k + 1)'
    BY <2>1, <2>4, <2>6, SamePlaces DEF At
  <2> QED
    BY <2>1, <2>5, <2>7, SamePlaces DEF PlacesInv
<1>6. CASE Commit
  <2>1. /\ stage = "stacking" /\ stage' \in {"committed", "panicked"} /\ UNCHANGED dims /\ todo = <<>>
        /\ stage' = "committed" => Log2Ceil(offset) = StackedNVars
        /\ stacked' = stacked /\ fractionClaims' = fractionClaims /\ claims' = claims
    BY <1>6 DEF Commit, proverPlaces, verifierPlaces
  <2>2. Shape
    BY <2>1, ShapeHolds
  <2>3. PICK k \in 0..3 : todo = Suffix(k) /\ offset = Place(FirstColumn, NColumns, k) /\ stacked = ColumnsUpTo(k)
    BY <2>1 DEF PlacesInv, At
  <2>4. k = 3
    BY <2>1, <2>2, <2>3, LoopIs
  <2>5. stacked' = ColumnsUpTo(3)' /\ (stage' = "committed" => Log2Ceil(Place(FirstColumn, NColumns, 3))' = StackedNVars')
    BY <2>1, <2>3, <2>4, SamePlaces DEF Log2Ceil
  <2> QED
    BY <2>1, <2>5, SamePlaces DEF PlacesInv
<1>7. CASE FillMemory
  <2>1. /\ stage = "committed" /\ stage' = "filling" /\ UNCHANGED dims /\ todo' = SortedTables
        /\ stacked' = stacked /\ fractionClaims' = fractionClaims /\ claims' = claims
        /\ offset' = 2^logMemory + Larger(2^Highest, 2^run.logBytecode)
        /\ fractions' = {Section(<<"memory">>, 0, logMemory, 1),
                         Section(<<"bytecode">>, 2^logMemory, run.logBytecode, 1)}
                        \cup BytecodePadding(2^logMemory)
    BY <1>7 DEF FillMemory, verifierPlaces
  <2>2. Shape
    BY <2>1, ShapeHolds
  <2>3. todo' = Suffix(0) /\ offset' = Place(FirstFraction, LogupColumns, 0) /\ fractions' = FractionsUpTo(0) /\ 0 \in 0..3
    BY <2>1, <2>2, NoneYet, ShapeIs DEF FirstFraction
  <2>4. At(0, FirstFraction, LogupColumns)' /\ fractions' = FractionsUpTo(0)'
    BY <2>1, <2>3, SamePlaces DEF At
  <2>5. stacked' = ColumnsUpTo(3)' /\ Log2Ceil(Place(FirstColumn, NColumns, 3))' = StackedNVars'
    BY <2>1, SamePlaces DEF PlacesInv, Log2Ceil
  <2> QED
    BY <2>1, <2>3, <2>4, <2>5, SamePlaces DEF PlacesInv
<1>8. CASE FillTable
  <2>1. /\ stage = "filling" /\ stage' = "filling" /\ UNCHANGED dims /\ todo # <<>> /\ todo' = Tail(todo)
        /\ stacked' = stacked /\ fractionClaims' = fractionClaims /\ claims' = claims
    BY <1>8 DEF FillTable, verifierPlaces
  <2>2. Shape
    BY <2>1, ShapeHolds
  <2>3. PICK k \in 0..3 : /\ todo = Suffix(k) /\ offset = Place(FirstFraction, LogupColumns, k)
                          /\ fractions = FractionsUpTo(k)
    BY <2>1 DEF PlacesInv, At
  <2>4. k \in 0..2 /\ Head(todo) = SortedTables[k + 1] /\ todo' = Suffix(k + 1)
    BY <2>1, <2>2, <2>3, LoopIs
  <2>5. /\ FractionsOf(k + 1) = TableFractions(Head(todo), offset)
        /\ FractionsUpTo(k + 1) = fractions \cup FractionsOf(k + 1)
        /\ LastEnd(FractionsOf(k + 1)) = Place(FirstFraction, LogupColumns, k + 1)
        /\ k + 1 \in 0..3
    BY <2>2, <2>3, <2>4, OneMore
  <2>6. fractions' = FractionsUpTo(k + 1) /\ offset' = Place(FirstFraction, LogupColumns, k + 1)
    BY <1>8, <2>5 DEF FillTable
  <2>7. At(k + 1, FirstFraction, LogupColumns)' /\ fractions' = FractionsUpTo(k + 1)'
    BY <2>1, <2>4, <2>6, SamePlaces DEF At
  <2>8. stacked' = ColumnsUpTo(3)' /\ Log2Ceil(Place(FirstColumn, NColumns, 3))' = StackedNVars'
    BY <2>1, SamePlaces DEF PlacesInv, Log2Ceil
  <2> QED
    BY <2>1, <2>5, <2>7, <2>8, SamePlaces DEF PlacesInv
<1>9. CASE FinishFractions
  <2>1. /\ stage = "filling" /\ stage' \in {"proved", "panicked"} /\ UNCHANGED dims /\ todo = <<>>
        /\ stage' = "proved" => offset = ActiveLen
        /\ fractions' = fractions \cup {Ones}
        /\ stacked' = stacked /\ fractionClaims' = fractionClaims /\ claims' = claims
    BY <1>9 DEF FinishFractions, Ones, verifierPlaces
  <2>2. Shape
    BY <2>1, ShapeHolds
  <2>3. PICK k \in 0..3 : /\ todo = Suffix(k) /\ offset = Place(FirstFraction, LogupColumns, k)
                          /\ fractions = FractionsUpTo(k)
    BY <2>1 DEF PlacesInv, At
  <2>4. k = 3
    BY <2>1, <2>2, <2>3, LoopIs
  <2>5. /\ fractions' = FractionsUpTo(3)' \cup {Ones'}
        /\ stage' = "proved" => ActiveLen' = Place(FirstFraction, LogupColumns, 3)'
    BY <2>1, <2>3, <2>4, SamePlaces
  <2>6. stacked' = ColumnsUpTo(3)' /\ Log2Ceil(Place(FirstColumn, NColumns, 3))' = StackedNVars'
    BY <2>1, SamePlaces DEF PlacesInv, Log2Ceil
  <2> QED
    BY <2>1, <2>5, <2>6, SamePlaces DEF PlacesInv
<1> QED
  BY <1>1, <1>2, <1>3, <1>4, <1>5, <1>6, <1>7, <1>8, <1>9 DEF Prove

(* The verifier and the prover extend the bytecode's section to the same length. *)
LEMMA PaddingClaimIs ==
    ASSUME Shape
    PROVE  (IF run.logBytecode < PaddedBytecode
            THEN {Section(<<"bytecodePadding">>, 2^logMemory + 2^run.logBytecode, 0, 2^PaddedBytecode - 2^run.logBytecode)}
            ELSE {}) = BytecodePadding(2^logMemory)
<1>1. run.logBytecode \in Nat /\ Highest \in Nat
  BY ShapeIs DEF Shape
<1>2. CASE run.logBytecode < Highest
  BY <1>1, <1>2 DEF PaddedBytecode, Larger, BytecodePadding
<1>3. CASE ~(run.logBytecode < Highest)
  BY <1>1, <1>3 DEF PaddedBytecode, Larger, BytecodePadding
<1> QED
  BY <1>2, <1>3

(* What the verifier's steps leave alone. *)
LEMMA ProverKept ==
    ASSUME PlacesInv, stage \in Filled, stage' \in Filled, UNCHANGED <<dims, proverPlaces>>
    PROVE  /\ stacked' = ColumnsUpTo(3)' /\ Log2Ceil(Place(FirstColumn, NColumns, 3))' = StackedNVars'
           /\ fractions' = FractionsUpTo(3)' \cup {Ones'}
           /\ ActiveLen' = Place(FirstFraction, LogupColumns, 3)'
           /\ heights' = [t \in Tables |-> PaddedLog(run'.rows[t])]
<1> USE DEF Late, Sized, Stacked, Committed, Filled, Stages, Rejected
<1>1. stacked' = stacked /\ fractions' = fractions
  BY DEF proverPlaces
<1>2. stacked' = ColumnsUpTo(3)' /\ Log2Ceil(Place(FirstColumn, NColumns, 3))' = StackedNVars'
  BY <1>1, SamePlaces DEF PlacesInv, Log2Ceil
<1>3. fractions' = FractionsUpTo(3)' \cup {Ones'} /\ ActiveLen' = Place(FirstFraction, LogupColumns, 3)'
  BY <1>1, SamePlaces DEF PlacesInv
<1>4. heights' = [t \in Tables |-> PaddedLog(run'.rows[t])]
  BY SamePlaces DEF PlacesInv
<1> QED
  BY <1>2, <1>3, <1>4

(* The steps of the verifier. *)
LEMMA VerifyPlaces ==
    ASSUME DimensionsInv, PlacesInv, Verify
    PROVE  PlacesInv'
<1> USE DEF Late, Sized, Stacked, Committed, Filled, Retrieved, Stages, Rejected
<1>1. CASE CheckDimensions
  <2>1. /\ stage = "proved" /\ stage' \in {"checked", "refused"} /\ UNCHANGED dims
        /\ UNCHANGED proverPlaces /\ fractionClaims' = fractionClaims /\ claims' = claims
    BY <1>1 DEF CheckDimensions, verifierPlaces
  <2> QED
    BY <2>1, ProverKept DEF PlacesInv
<1>2. CASE RetrieveMemory
  <2>1. /\ stage = "checked" /\ stage' = "retrieving" /\ UNCHANGED dims /\ todo' = SortedTables
        /\ UNCHANGED proverPlaces /\ claims' = claims
        /\ offset' = 2^logMemory + 2^PaddedBytecode
    BY <1>2 DEF RetrieveMemory
  <2>2. Shape
    BY <2>1, ShapeHolds
  <2>3. fractionClaims' = FractionsUpTo(0)
    <3>1. /\ Selected(2^logMemory, run.logBytecode) = 2^logMemory
          /\ Selected(2^logMemory, PaddedBytecode) = 2^logMemory
      BY <2>2, BasesAligned
    <3>2. fractionClaims' =
              {Section(<<"memory">>, 0, logMemory, 1), Section(<<"bytecode">>, 2^logMemory, run.logBytecode, 1)}
              \cup BytecodePadding(2^logMemory)
      BY <1>2, <2>2, <3>1, PaddingClaimIs DEF RetrieveMemory
    <3> QED
      BY <2>2, <3>2, NoneYet
  <2>4. todo' = Suffix(0) /\ offset' = Place(FirstFraction, LogupColumns, 0) /\ 0 \in 0..3
    BY <2>1, <2>2, NoneYet DEF FirstFraction
  <2>5. At(0, FirstFraction, LogupColumns)' /\ fractionClaims' = FractionsUpTo(0)'
    BY <2>1, <2>3, <2>4, SamePlaces DEF At
  <2> QED
    BY <2>1, <2>4, <2>5, ProverKept DEF PlacesInv
<1>3. CASE RetrieveTable
  <2>1. /\ stage = "retrieving" /\ stage' = "retrieving" /\ UNCHANGED dims /\ todo # <<>> /\ todo' = Tail(todo)
        /\ UNCHANGED proverPlaces /\ claims' = claims
    BY <1>3 DEF RetrieveTable
  <2>2. Shape
    BY <2>1, ShapeHolds
  <2>3. PICK k \in 0..3 : /\ todo = Suffix(k) /\ offset = Place(FirstFraction, LogupColumns, k)
                          /\ fractionClaims = FractionsUpTo(k)
    BY <2>1 DEF PlacesInv, At
  <2>4. k \in 0..2 /\ Head(todo) = SortedTables[k + 1] /\ todo' = Suffix(k + 1)
    BY <2>1, <2>2, <2>3, LoopIs
  <2>5. /\ TableClaims(Head(todo), offset) = FractionsOf(k + 1)
        /\ FractionsUpTo(k + 1) = fractionClaims \cup FractionsOf(k + 1)
        /\ Place(FirstFraction, LogupColumns, k + 1) = offset + LogupColumns[Head(todo)] * 2^heights[Head(todo)]
        /\ k + 1 \in 0..3 /\ k + 1 \in 1..3
    BY <2>2, <2>3, <2>4, OneMore
  <2>6. LogupColumns[Head(todo)] = NLookups[Head(todo)] + (IF Head(todo) = "execution" THEN 2 ELSE 1)
    BY <2>2, <2>4, <2>5, SortedAre, ColumnCounts DEF Shape
  <2>7. fractionClaims' = FractionsUpTo(k + 1) /\ offset' = Place(FirstFraction, LogupColumns, k + 1)
    BY <1>3, <2>5, <2>6, Zenon DEF RetrieveTable
  <2>8. At(k + 1, FirstFraction, LogupColumns)' /\ fractionClaims' = FractionsUpTo(k + 1)'
    BY <2>1, <2>4, <2>7, SamePlaces DEF At
  <2> QED
    BY <2>1, <2>5, <2>8, ProverKept DEF PlacesInv
<1>4. CASE RetrieveOnes
  <2>1. /\ stage = "retrieving" /\ stage' = "retrieved" /\ UNCHANGED dims /\ todo = <<>>
        /\ fractionClaims' = fractionClaims \cup {Section(<<"ones">>, offset, 0, 2^Log2Ceil(ActiveLen) - offset)}
        /\ UNCHANGED proverPlaces /\ claims' = claims
    BY <1>4 DEF RetrieveOnes
  <2>2. Shape
    BY <2>1, ShapeHolds
  <2>3. PICK k \in 0..3 : /\ todo = Suffix(k) /\ offset = Place(FirstFraction, LogupColumns, k)
                          /\ fractionClaims = FractionsUpTo(k)
    BY <2>1 DEF PlacesInv, At
  <2>4. k = 3
    BY <2>1, <2>2, <2>3, LoopIs
  <2>5. offset = ActiveLen
    BY <2>1, <2>3, <2>4 DEF PlacesInv
  <2>6. fractionClaims' = FractionsUpTo(3)' \cup {Ones'}
    BY <2>1, <2>3, <2>4, <2>5, SamePlaces DEF Ones
  <2> QED
    BY <2>1, <2>6, ProverKept DEF PlacesInv
<1>5. CASE StateMemory
  <2>1. /\ stage = "retrieved" /\ stage' = "stating" /\ UNCHANGED dims /\ todo' = SortedTables
        /\ UNCHANGED proverPlaces /\ fractionClaims' = fractionClaims
        /\ offset' = 2 * 2^logMemory + 2^Larger(run.logBytecode, Highest)
        /\ claims' = {Section(<<"memory">>, 0, logMemory, 1),
                      Section(<<"memoryAcc">>, 2^logMemory, logMemory, 1),
                      Section(<<"bytecodeAcc">>, Selected(2 * 2^logMemory, run.logBytecode), run.logBytecode, 1)}
    BY <1>5 DEF StateMemory
  <2>2. Shape
    BY <2>1, ShapeHolds
  <2>3. claims' = ColumnsUpTo(0)
    BY <2>1, <2>2, NoneYet, BasesAligned
  <2>4. todo' = Suffix(0) /\ offset' = Place(FirstColumn, NColumns, 0) /\ 0 \in 0..3
    BY <2>1, <2>2, NoneYet, ShapeIs DEF FirstColumn
  <2>5. At(0, FirstColumn, NColumns)' /\ claims' = ColumnsUpTo(0)'
    BY <2>1, <2>3, <2>4, SamePlaces DEF At
  <2>6. PcKnown(0)'
    BY DEF PcKnown
  <2>7. fractionClaims' = FractionsUpTo(3)' \cup {Ones'}
    BY <2>1, SamePlaces DEF PlacesInv
  <2> QED
    BY <2>1, <2>4, <2>5, <2>6, <2>7, ProverKept DEF PlacesInv
<1>6. CASE StateTable
  <2>1. /\ stage = "stating" /\ stage' = "stating" /\ UNCHANGED dims /\ todo # <<>> /\ todo' = Tail(todo)
        /\ UNCHANGED proverPlaces /\ fractionClaims' = fractionClaims
        /\ pcCells' = IF Head(todo) = "execution" THEN PcCells(offset, heights[Head(todo)]) ELSE pcCells
        /\ claims' = claims \cup {Section(<<Head(todo)>>, Selected(offset, heights[Head(todo)]),
                                          heights[Head(todo)], NColumns[Head(todo)])}
        /\ offset' = offset + NColumns[Head(todo)] * 2^heights[Head(todo)]
    BY <1>6, Zenon DEF StateTable
  <2>2. Shape
    BY <2>1, ShapeHolds
  <2>3. PICK k \in 0..3 : /\ todo = Suffix(k) /\ offset = Place(FirstColumn, NColumns, k)
                          /\ claims = ColumnsUpTo(k) /\ PcKnown(k)
    BY <2>1 DEF PlacesInv, At
  <2>4. k \in 0..2 /\ Head(todo) = SortedTables[k + 1] /\ todo' = Suffix(k + 1)
    BY <2>1, <2>2, <2>3, LoopIs
  <2>5. /\ ColumnsOf(k + 1) = Section(<<Head(todo)>>, Selected(offset, heights[Head(todo)]),
                                      heights[Head(todo)], NColumns[Head(todo)])
        /\ ColumnsUpTo(k + 1) = claims \cup {ColumnsOf(k + 1)}
        /\ Place(FirstColumn, NColumns, k + 1) = offset + NColumns[Head(todo)] * 2^heights[Head(todo)]
        /\ k + 1 \in 0..3 /\ k + 1 \in 1..3
    BY <2>2, <2>3, <2>4, OneMore
  <2>6. claims' = ColumnsUpTo(k + 1) /\ offset' = Place(FirstColumn, NColumns, k + 1)
    BY <2>1, <2>5
  <2>7. At(k + 1, FirstColumn, NColumns)' /\ claims' = ColumnsUpTo(k + 1)'
    BY <2>1, <2>4, <2>6, SamePlaces DEF At
  <2>8. PcKnown(k + 1)'
    <3>1. ASSUME NEW i \in 1..k + 1, SortedTables[i] = "execution"
          PROVE  pcCells' = PcCells(Place(FirstColumn, NColumns, i - 1), heights["execution"])
      <4>1. CASE i = k + 1
        <5>1. i - 1 = k
          BY <2>4, <4>1
        <5> QED
          BY <2>1, <2>3, <2>4, <3>1, <4>1, <5>1
      <4>2. CASE i # k + 1
        <5>1. i \in 1..k /\ i \in 1..3 /\ k + 1 \in 1..3 /\ i < k + 1
          BY <2>4, <4>2
        <5>2. SortedTables[k + 1] # "execution"
          BY <2>2, <3>1, <5>1, SortedAre DEF Shape
        <5> QED
          BY <2>1, <2>3, <2>4, <3>1, <5>1, <5>2 DEF PcKnown
      <4> QED
        BY <4>1, <4>2
    <3> QED
      BY <2>1, <3>1, SamePlaces DEF PcKnown
  <2>9. fractionClaims' = FractionsUpTo(3)' \cup {Ones'}
    BY <2>1, SamePlaces DEF PlacesInv
  <2> QED
    BY <2>1, <2>5, <2>7, <2>8, <2>9, ProverKept DEF PlacesInv
<1>7. CASE Accept
  <2>1. /\ stage = "stating" /\ stage' = "accepted" /\ UNCHANGED dims /\ todo = <<>>
        /\ UNCHANGED proverPlaces /\ fractionClaims' = fractionClaims /\ claims' = claims /\ pcCells' = pcCells
    BY <1>7 DEF Accept, verifierPlaces
  <2>2. Shape
    BY <2>1, ShapeHolds
  <2>3. PICK k \in 0..3 : /\ todo = Suffix(k) /\ claims = ColumnsUpTo(k) /\ PcKnown(k)
    BY <2>1 DEF PlacesInv, At
  <2>4. k = 3
    BY <2>1, <2>2, <2>3, LoopIs
  <2>5. claims' = ColumnsUpTo(3)' /\ PcKnown(3)'
    BY <2>1, <2>3, <2>4, SamePlaces, SamePc
  <2>6. fractionClaims' = FractionsUpTo(3)' \cup {Ones'}
    BY <2>1, SamePlaces DEF PlacesInv
  <2> QED
    BY <2>1, <2>5, <2>6, ProverKept DEF PlacesInv
<1> QED
  BY <1>1, <1>2, <1>3, <1>4, <1>5, <1>6, <1>7 DEF Verify

(* Every step builds on what the loop had placed. *)
LEMMA NextPlaces == DimensionsInv /\ PlacesInv /\ [LayoutNext]_layoutVars => PlacesInv'
<1> SUFFICES ASSUME DimensionsInv, PlacesInv, [LayoutNext]_layoutVars PROVE PlacesInv'
  OBVIOUS
<1>1. CASE LayoutNext
  BY <1>1, ProvePlaces, VerifyPlaces DEF LayoutNext
<1>2. CASE UNCHANGED layoutVars
  <2>1. /\ UNCHANGED dims /\ stage' = stage /\ todo' = todo /\ offset' = offset /\ stacked' = stacked
        /\ fractions' = fractions /\ fractionClaims' = fractionClaims /\ claims' = claims /\ pcCells' = pcCells
    BY <1>2 DEF layoutVars, dims, proverPlaces, verifierPlaces
  <2>2. /\ heights' = heights /\ run' = run
        /\ \A k : At(k, FirstColumn, NColumns)' <=> At(k, FirstColumn, NColumns)
        /\ \A k : At(k, FirstFraction, LogupColumns)' <=> At(k, FirstFraction, LogupColumns)
        /\ \A k : ColumnsUpTo(k)' = ColumnsUpTo(k) /\ FractionsUpTo(k)' = FractionsUpTo(k)
        /\ \A k : PcKnown(k)' <=> PcKnown(k)
    BY <2>1, SamePlaces, SamePc DEF At
  <2>3. /\ Ones' = Ones
        /\ (ActiveLen = Place(FirstFraction, LogupColumns, 3))' <=> ActiveLen = Place(FirstFraction, LogupColumns, 3)
        /\ (Log2Ceil(Place(FirstColumn, NColumns, 3)) = StackedNVars)'
              <=> Log2Ceil(Place(FirstColumn, NColumns, 3)) = StackedNVars
    BY <2>1, SamePlaces DEF Log2Ceil
  <2>4. (stage' \in Late => heights' = [t \in Tables |-> PaddedLog(run'.rows[t])])
    BY <2>1, <2>2 DEF PlacesInv
  <2> QED
    BY <2>1, <2>2, <2>3, <2>4 DEF PlacesInv
<1> QED
  BY <1>1, <1>2

(* Whatever the run, each loop builds what the dimensions say. *)
THEOREM LayoutFollowsDimensions == LayoutSpec => []LayoutInv
<1>1. LayoutInit => LayoutInv
  BY InitDimensions, InitPlaces DEF LayoutInv
<1>2. LayoutInv /\ [LayoutNext]_layoutVars => LayoutInv'
  BY NextDimensions, NextPlaces DEF LayoutInv
<1> QED
  BY <1>1, <1>2, PTL DEF LayoutSpec

(* What a loop has placed is part of what it will have placed. *)
LEMMA UpToGrows ==
    ASSUME NEW k \in 0..3
    PROVE  ColumnsUpTo(k) \subseteq ColumnsUpTo(3) /\ FractionsUpTo(k) \subseteq FractionsUpTo(3)
<1>1. 1..k \subseteq 1..3
  OBVIOUS
<1> QED
  BY <1>1 DEF ColumnsUpTo, FractionsUpTo

(* The verifier, who has the dimensions only, looks for every column and every  *)
(* fraction where the prover put it, whatever the run: the high bits of each    *)
(* offset are all a selector needs, because whatever precedes a section is a    *)
(* multiple of the section's length.                                            *)
THEOREM VerifierRecomputesThePlaces == LayoutSpec => []VerifierFindsEveryColumn
<1>1. LayoutInv => VerifierFindsEveryColumn
  <2> SUFFICES ASSUME LayoutInv PROVE VerifierFindsEveryColumn
    OBVIOUS
  <2> USE DEF Late, Sized, Stacked, Committed, Filled, Retrieved, Stages, Rejected
  <2>1. claims \subseteq stacked
    <3>1. CASE stage = "stating"
      <4>1. PICK k \in 0..3 : claims = ColumnsUpTo(k)
        BY <3>1 DEF LayoutInv, PlacesInv
      <4> QED
        BY <3>1, <4>1, UpToGrows DEF LayoutInv, PlacesInv
    <3>2. CASE stage = "accepted"
      BY <3>2 DEF LayoutInv, PlacesInv
    <3> QED
      BY <3>1, <3>2 DEF LayoutInv, PlacesInv
  <2>2. fractionClaims \subseteq fractions
    <3>1. CASE stage = "retrieving"
      <4>1. PICK k \in 0..3 : fractionClaims = FractionsUpTo(k)
        BY <3>1 DEF LayoutInv, PlacesInv
      <4>2. fractions = FractionsUpTo(3) \cup {Ones}
        BY <3>1 DEF LayoutInv, PlacesInv
      <4> QED
        BY <4>1, <4>2, UpToGrows
    <3>2. CASE stage \in Retrieved
      BY <3>2 DEF LayoutInv, PlacesInv
    <3> QED
      BY <3>1, <3>2 DEF LayoutInv, PlacesInv
  <2>3. stage = "accepted" => claims = stacked /\ fractionClaims = fractions
    BY DEF LayoutInv, PlacesInv
  <2> QED
    BY <2>1, <2>2, <2>3 DEF VerifierFindsEveryColumn
<1> QED
  BY <1>1, LayoutFollowsDimensions, PTL

(* log2_ceil rounds up, as far as it is followed. *)
LEMMA Log2CeilCovers ==
    ASSUME NEW n \in Nat, Log2Ceil(n) <= 30
    PROVE  n <= 2^Log2Ceil(n)
<1> DEFINE below == {k \in 0..30 : 2^k < n}
           c == Log2Ceil(n)
<1>1. c \in Nat /\ c <= 30 /\ c = Cardinality(below)
  BY Log2CeilIsNat DEF Log2Ceil
<1>2. IsFiniteSet(below)
  <2>1. 0 \in Int /\ 30 \in Int
    OBVIOUS
  <2>2. IsFiniteSet(0..30)
    BY <2>1, FS_Interval, Zenon
  <2> QED
    BY <2>2, FS_Subset
<1> HIDE DEF c
<1>3. 2^c \in Nat
  BY <1>1, PowerIsPositive
<1> SUFFICES ASSUME 2^c < n PROVE FALSE
  BY <1>3 DEF c
<1>4. ASSUME NEW k \in 0..c PROVE k \in below
  <2>1. k \in Nat /\ k <= c /\ k \in 0..30
    BY <1>1
  <2>2. 2^k <= 2^c /\ 2^k \in Nat
    BY <1>1, <2>1, PowersDivide, PowerIsPositive
  <2> QED
    BY <1>3, <2>1, <2>2
<1>5. Cardinality(0..c) = c + 1
  <2>1. 0 \in Int /\ c \in Int
    BY <1>1
  <2>2. Cardinality(0..c) = IF 0 > c THEN 0 ELSE c - 0 + 1
    BY <2>1, FS_Interval
  <2> QED
    BY <1>1, <2>2
<1>6. 0..c \subseteq below
  BY <1>4
<1>7. Cardinality(0..c) <= Cardinality(below)
  BY <1>2, <1>6, FS_Subset
<1> QED
  BY <1>1, <1>5, <1>7

(* The table of the steps ends with a row of padding, whatever the run's length. *)
LEMMA PaddingRow ==
    ASSUME NEW rows \in Nat, PaddedLog(rows) <= 30
    PROVE  PaddedLog(rows) \in Nat /\ rows < 2^PaddedLog(rows)
<1>1. rows + 1 \in Nat /\ Log2Ceil(rows + 1) \in Nat
  BY Log2CeilIsNat
<1>2. PaddedLog(rows) \in Nat /\ Log2Ceil(rows + 1) <= PaddedLog(rows)
  BY <1>1 DEF PaddedLog, Larger, MinLogRows
<1>3. rows + 1 <= 2^Log2Ceil(rows + 1)
  BY <1>1, <1>2, Log2CeilCovers
<1>4. /\ 2^Log2Ceil(rows + 1) <= 2^PaddedLog(rows)
      /\ 2^Log2Ceil(rows + 1) \in Nat /\ 2^PaddedLog(rows) \in Nat
  BY <1>1, <1>2, PowersDivide, PowerIsPositive
<1> QED
  BY <1>2, <1>3, <1>4

(* The first and the last cell the verifier's statements fix are those of the   *)
(* pc column of the proof, and the last is a cell of padding, for every run:    *)
(* the column begins where the offset stands when the execution table comes,    *)
(* wherever the sort puts it, and it is longer than the run.                    *)
THEOREM PcBoundariesAreFixed == LayoutSpec => []PcIsFixedAtBothEnds
<1>1. LayoutInv => PcIsFixedAtBothEnds
  <2> SUFFICES ASSUME LayoutInv, stage = "accepted"
               PROVE  \E s \in stacked :
                         /\ s.part = <<"execution">>
                         /\ pcCells = <<s.first + ColPc * 2^s.log, s.first + (ColPc + 1) * 2^s.log - 1>>
                         /\ run.rows["execution"] < 2^s.log
    BY DEF PcIsFixedAtBothEnds
  <2> USE DEF Late, Sized, Stacked, Committed, Filled, Retrieved, Stages, Rejected
  <2>1. /\ stacked = ColumnsUpTo(3) /\ PcKnown(3) /\ heights = [t \in Tables |-> PaddedLog(run.rows[t])]
        /\ Dimensions /\ \A t \in Tables : heights[t] <= MaxLogRows[t]
    BY DEF LayoutInv, PlacesInv, DimensionsInv
  <2>2. "execution" \in Tables
    BY TablesAre
  <2>3. PICK i \in 1..3 : "execution" = SortedTables[i]
    BY <2>1, <2>2, SortedAre
  <2>4. pcCells = PcCells(Place(FirstColumn, NColumns, i - 1), heights["execution"])
    BY <2>1, <2>3 DEF PcKnown
  <2> DEFINE s == ColumnsOf(i)
  <2>5. s \in stacked
    BY <2>1, <2>3 DEF ColumnsUpTo
  <2>6. /\ s.part = <<"execution">> /\ s.first = Place(FirstColumn, NColumns, i - 1)
        /\ s.log = heights["execution"]
    BY <2>3 DEF ColumnsOf, Section
  <2>7. run.rows["execution"] < 2^heights["execution"]
    <3>1. run.rows["execution"] \in Nat
      BY <2>1, <2>2, RunsAssumption DEF Dimensions
    <3>2. heights["execution"] = PaddedLog(run.rows["execution"]) /\ heights["execution"] <= 24
          /\ heights["execution"] \in Nat
      BY <2>1, <2>2 DEF MaxLogRows, Dimensions
    <3> QED
      BY <3>1, <3>2, PaddingRow
  <2> HIDE DEF s
  <2>8. pcCells = <<s.first + ColPc * 2^s.log, s.first + (ColPc + 1) * 2^s.log - 1>>
    BY <2>4, <2>6 DEF PcCells
  <2> QED
    BY <2>5, <2>6, <2>7, <2>8
<1> QED
  BY <1>1, LayoutFollowsDimensions, PTL

-----------------------------------------------------------------------------
(* Both stacks are filled, without overlap, at multiples of the lengths.       *)

(* The fields of a section, and where it ends. *)
LEMMA SectionIs ==
    ASSUME NEW part, NEW first \in Nat, NEW log \in Nat, NEW count \in Nat
    PROVE  LET s == Section(part, first, log, count)
           IN  /\ s.part = part /\ s.first = first /\ s.log = log /\ s.count = count
               /\ End(s) = first + count * 2^log /\ End(s) \in Nat /\ first <= End(s)
<1>1. 2^log \in Nat
  BY PowerIsPositive
<1>2. count * 2^log \in Nat
  BY <1>1
<1> QED
  BY <1>2 DEF Section, End

(* A section that begins at a multiple of its length and lies within bounds. *)
Within(s, low, high) ==
    /\ s.first \in Nat /\ End(s) \in Nat /\ low <= s.first /\ End(s) <= high
    /\ s.first % 2^s.log = 0

(* The columns' bounds and alignment, section by section. *)
LEMMA ColumnsWithin ==
    ASSUME Shape
    PROVE  /\ Within(Section(<<"memory">>, 0, logMemory, 1), 0, 2^logMemory)
           /\ Within(Section(<<"memoryAcc">>, 2^logMemory, logMemory, 1), 2^logMemory, 2 * 2^logMemory)
           /\ Within(Section(<<"bytecodeAcc">>, 2 * 2^logMemory, run.logBytecode, 1), 2 * 2^logMemory, FirstColumn)
           /\ \A i \in 1..3 : Within(ColumnsOf(i), Place(FirstColumn, NColumns, i - 1), Place(FirstColumn, NColumns, i))
<1>1. /\ logMemory \in Nat /\ run.logBytecode \in Nat /\ PaddedBytecode \in Nat
      /\ run.logBytecode <= PaddedBytecode /\ run.logBytecode <= logMemory
  BY ShapeIs DEF Shape
<1>2. /\ 2^logMemory \in Nat \ {0} /\ 2^run.logBytecode \in Nat \ {0} /\ 2^PaddedBytecode \in Nat
      /\ 2^run.logBytecode <= 2^PaddedBytecode
  BY <1>1, PowerIsPositive, PowersDivide
<1>3. /\ Divides(2^logMemory, 2^logMemory) /\ Divides(2^run.logBytecode, 2^logMemory) /\ 2 \in Nat
  BY <1>1, PowersDivide
<1>4. Divides(2^run.logBytecode, 2 * 2^logMemory)
  BY <1>2, <1>3, DividesMultiple
<1>5. /\ 2^logMemory % 2^logMemory = 0 /\ (2 * 2^logMemory) % 2^run.logBytecode = 0 /\ 0 % 2^logMemory = 0
  <2>1. Divides(2^logMemory, 0)
    <3>1. 0 = 0 * 2^logMemory /\ 0 \in Nat
      BY <1>2
    <3> QED
      BY <3>1 DEF Divides
  <2> QED
    BY <1>2, <1>3, <1>4, <2>1, MultipleIs
<1>6. Within(Section(<<"memory">>, 0, logMemory, 1), 0, 2^logMemory)
  BY <1>1, <1>2, <1>5 DEF Within, Section, End
<1>7. Within(Section(<<"memoryAcc">>, 2^logMemory, logMemory, 1), 2^logMemory, 2 * 2^logMemory)
  BY <1>1, <1>2, <1>5 DEF Within, Section, End
<1>8. Within(Section(<<"bytecodeAcc">>, 2 * 2^logMemory, run.logBytecode, 1), 2 * 2^logMemory, FirstColumn)
  BY <1>1, <1>2, <1>5 DEF Within, Section, End, FirstColumn
<1>9. ASSUME NEW i \in 1..3
      PROVE  Within(ColumnsOf(i), Place(FirstColumn, NColumns, i - 1), Place(FirstColumn, NColumns, i))
  <2>1. i - 1 \in 0..2 /\ (i - 1) + 1 = i /\ i \in 0..3
    OBVIOUS
  <2>2. /\ End(ColumnsOf((i - 1) + 1)) = Place(FirstColumn, NColumns, (i - 1) + 1)
        /\ Place(FirstColumn, NColumns, i - 1) \in Nat
    BY <2>1, OneMore
  <2>3. Place(FirstColumn, NColumns, i) \in Nat
    BY <2>1, BasesAligned, ColumnCounts, PlaceIs DEF Shape
  <2>4. /\ heights[SortedTables[i]] \in Nat
        /\ Divides(2^heights[SortedTables[i]], Place(FirstColumn, NColumns, i - 1))
    BY BasesAligned, PlaceAligned, ColumnCounts, SortedAre DEF Shape
  <2>5. Place(FirstColumn, NColumns, i - 1) % 2^heights[SortedTables[i]] = 0
    BY <2>4, PowerIsPositive, MultipleIs
  <2>6. ColumnsOf(i).first = Place(FirstColumn, NColumns, i - 1) /\ ColumnsOf(i).log = heights[SortedTables[i]]
    BY DEF ColumnsOf, Section
  <2> QED
    BY <2>1, <2>2, <2>3, <2>5, <2>6 DEF Within
<1> QED
  BY <1>6, <1>7, <1>8, <1>9

(* Places in order: the end of a table's is not after the beginning of a later one's. *)
LEMMA PlacesGrow ==
    ASSUME Dimensions, NEW base \in Nat, NEW columns \in [Tables -> Nat]
    PROVE  /\ \A k \in 0..3 : Place(base, columns, k) \in Nat /\ base <= Place(base, columns, k)
           /\ \A k, l \in 0..3 : k <= l => Place(base, columns, k) <= Place(base, columns, l)
<1> DEFINE P(k) == Place(base, columns, k)
<1>1. /\ P(0) = base
      /\ P(0 + 1) = P(0) + Share(columns, 0 + 1) /\ P(1 + 1) = P(1) + Share(columns, 1 + 1)
      /\ P(2 + 1) = P(2) + Share(columns, 2 + 1)
  BY PlaceIs
<1>2. /\ Share(columns, 1) \in Nat /\ Share(columns, 2) \in Nat /\ Share(columns, 3) \in Nat
      /\ \A k \in 0..3 : P(k) \in Nat
  BY PlaceIs
<1> HIDE DEF P
<1>3. P(0) = base /\ P(0) <= P(1) /\ P(1) <= P(2) /\ P(2) <= P(3)
  BY <1>1, <1>2
<1>4. ASSUME NEW k \in 0..3, NEW l \in 0..3, k <= l PROVE P(k) <= P(l)
  <2>1. P(0) \in Nat /\ P(1) \in Nat /\ P(2) \in Nat /\ P(3) \in Nat
    BY <1>2
  <2>2. (k = 0 \/ k = 1 \/ k = 2 \/ k = 3) /\ (l = 0 \/ l = 1 \/ l = 2 \/ l = 3)
    OBVIOUS
  <2> QED
    BY <1>3, <1>4, <2>1, <2>2
<1>5. \A k \in 0..3 : P(k) \in Nat /\ base <= P(k)
  <2> TAKE k \in 0..3
  <2>1. P(0) <= P(k)
    BY <1>4
  <2> QED
    BY <1>2, <1>3, <2>1
<1> QED
  BY <1>4, <1>5 DEF P

(* The columns together: in order, none over another. *)
LEMMA ColumnsFit ==
    ASSUME Shape
    PROVE  /\ \A s \in ColumnsUpTo(3) : Within(s, 0, Place(FirstColumn, NColumns, 3))
           /\ Disjoint(ColumnsUpTo(3))
<1> DEFINE P(k) == Place(FirstColumn, NColumns, k)
           m == Section(<<"memory">>, 0, logMemory, 1)
           a == Section(<<"memoryAcc">>, 2^logMemory, logMemory, 1)
           b == Section(<<"bytecodeAcc">>, 2 * 2^logMemory, run.logBytecode, 1)
<1>1. /\ \A k \in 0..3 : P(k) \in Nat /\ FirstColumn <= P(k)
      /\ \A k, l \in 0..3 : k <= l => P(k) <= P(l)
      /\ FirstColumn \in Nat
  BY PlacesGrow, BasesAligned, ColumnCounts DEF Shape
<1>2. 2^logMemory \in Nat /\ 2^PaddedBytecode \in Nat
  BY ShapeIs, PowerIsPositive
<1>3. FirstColumn = 2 * 2^logMemory + 2^PaddedBytecode
  BY DEF FirstColumn
<1>4. /\ Within(m, 0, 2^logMemory) /\ Within(a, 2^logMemory, 2 * 2^logMemory)
      /\ Within(b, 2 * 2^logMemory, FirstColumn)
      /\ \A i \in 1..3 : Within(ColumnsOf(i), P(i - 1), P(i))
  BY ColumnsWithin
<1>5. ColumnsUpTo(3) = {m, a, b} \cup {ColumnsOf(i) : i \in 1..3}
  BY DEF ColumnsUpTo
<1> HIDE DEF m, a, b, P
<1>6. \A i \in 1..3 : i \in 0..3 /\ i - 1 \in 0..3 /\ i <= 3
  OBVIOUS
<1>7. \A s \in {m, a, b} : Within(s, 0, FirstColumn)
  BY <1>1, <1>2, <1>3, <1>4 DEF Within
<1>8. \A i \in 1..3 : Within(ColumnsOf(i), FirstColumn, P(3)) /\ Within(ColumnsOf(i), 0, P(3))
  <2> TAKE i \in 1..3
  <2>1. P(i) <= P(3) /\ FirstColumn <= P(i - 1) /\ P(i - 1) \in Nat /\ P(i) \in Nat /\ P(3) \in Nat
    BY <1>1, <1>6
  <2> QED
    BY <1>1, <1>4, <2>1 DEF Within
<1>9. \A s \in ColumnsUpTo(3) : Within(s, 0, P(3))
  <2>1. FirstColumn <= P(3) /\ P(3) \in Nat
    BY <1>1
  <2>2. \A s \in {m, a, b} : Within(s, 0, P(3))
    BY <1>1, <1>7, <2>1 DEF Within
  <2> QED
    BY <1>5, <1>8, <2>2
<1>10. \A s, u \in {m, a, b} : s # u => End(s) <= u.first \/ End(u) <= s.first
  BY <1>2, <1>4 DEF Within
<1>11. \A s \in {m, a, b} : \A i \in 1..3 : End(s) <= ColumnsOf(i).first
  BY <1>1, <1>7, <1>8 DEF Within
<1>12. ASSUME NEW i \in 1..3, NEW j \in 1..3, i < j PROVE End(ColumnsOf(i)) <= ColumnsOf(j).first
  <2>1. i \in 0..3 /\ j - 1 \in 0..3 /\ i <= j - 1
    BY <1>12
  <2>2. P(i) <= P(j - 1) /\ P(i) \in Nat /\ P(j - 1) \in Nat
    BY <1>1, <2>1
  <2> QED
    BY <1>4, <2>2 DEF Within
<1>13. \A i, j \in 1..3 : i # j => End(ColumnsOf(i)) <= ColumnsOf(j).first \/ End(ColumnsOf(j)) <= ColumnsOf(i).first
  <2> SUFFICES ASSUME NEW i \in 1..3, NEW j \in 1..3, i # j
               PROVE  End(ColumnsOf(i)) <= ColumnsOf(j).first \/ End(ColumnsOf(j)) <= ColumnsOf(i).first
    OBVIOUS
  <2>1. i < j \/ j < i
    OBVIOUS
  <2> QED
    BY <1>12, <2>1
<1>14. Disjoint(ColumnsUpTo(3))
  BY <1>5, <1>10, <1>11, <1>13 DEF Disjoint
<1> QED
  BY <1>9, <1>14 DEF P

(* Every column has a place of its own in the committed polynomial, at a        *)
(* multiple of its length, inside the 2^n cells both sides compute beforehand,  *)
(* whatever the run: WHIR's bound keeps n below 2^31's exponent.                *)
THEOREM ColumnsFitTheCommitment == LayoutSpec => []StackedColumnsFit
<1>1. LayoutInv => StackedColumnsFit
  <2> SUFFICES ASSUME LayoutInv PROVE StackedColumnsFit
    OBVIOUS
  <2> USE DEF Late, Sized, Stacked, Committed, Stages, Rejected
  <2>1. CASE stage \notin Stacked
    BY <2>1 DEF LayoutInv, PlacesInv, StackedColumnsFit, Aligned, Disjoint
  <2>2. CASE stage \in Stacked
    <3>1. Shape
      BY <2>2, ShapeHolds DEF LayoutInv
    <3>2. stacked \subseteq ColumnsUpTo(3)
      <4>1. CASE stage = "stacking"
        <5>1. PICK k \in 0..3 : stacked = ColumnsUpTo(k)
          BY <4>1 DEF LayoutInv, PlacesInv
        <5> QED
          BY <5>1, UpToGrows
      <4>2. CASE stage # "stacking"
        BY <2>2, <4>2 DEF LayoutInv, PlacesInv
      <4> QED
        BY <4>1, <4>2
    <3>3. \A s \in stacked : Within(s, 0, Place(FirstColumn, NColumns, 3))
      BY <3>1, <3>2, ColumnsFit
    <3>4. Disjoint(stacked)
      BY <3>1, <3>2, ColumnsFit DEF Disjoint
    <3>5. Aligned(stacked)
      BY <3>3 DEF Aligned, Within
    <3>6. ASSUME stage = "committed", NEW s \in stacked PROVE End(s) <= 2^StackedNVars
      <4>1. /\ Log2Ceil(Place(FirstColumn, NColumns, 3)) = StackedNVars
            /\ StackedNVars + run.logInvRate - FoldingFactor <= TwoAdicity
            /\ run.logInvRate \in 1..4
        BY <3>6, RunsAssumption DEF LayoutInv, PlacesInv, DimensionsInv, Dimensions, MinLogInvRate, MaxLogInvRate
      <4>2. StackedNVars \in Nat
        BY Log2CeilIsNat DEF StackedNVars
      <4>3. StackedNVars <= 30
        BY <4>1, <4>2 DEF FoldingFactor, TwoAdicity
      <4>4. 3 \in 0..3
        OBVIOUS
      <4>5. Place(FirstColumn, NColumns, 3) \in Nat
        BY <3>1, <4>4, PlaceIs, BasesAligned, ColumnCounts DEF Shape
      <4>6. Place(FirstColumn, NColumns, 3) <= 2^StackedNVars /\ 2^StackedNVars \in Nat
        BY <4>1, <4>2, <4>3, <4>5, Log2CeilCovers, PowerIsPositive
      <4> QED
        BY <3>3, <4>5, <4>6 DEF Within
    <3> QED
      BY <3>4, <3>5, <3>6 DEF StackedColumnsFit
  <2> QED
    BY <2>1, <2>2
<1> QED
  BY <1>1, LayoutFollowsDimensions, PTL

(* The least height, which is that of the chunks the fractions are filled by. *)
LEMMA PivotIs ==
    ASSUME Shape
    PROVE  /\ Pivot \in Nat /\ Pivot <= run.logBytecode /\ Pivot <= logMemory
           /\ \A t \in Tables : Pivot <= heights[t]
           /\ Pivot <= Highest /\ Pivot <= PaddedBytecode
<1> DEFINE S == {EndiannessPivot, run.logBytecode} \cup {heights[t] : t \in Tables}
<1>1. S \subseteq Nat /\ EndiannessPivot \in S /\ run.logBytecode \in S /\ \A t \in Tables : heights[t] \in S
  BY ShapeIs DEF Shape, EndiannessPivot
<1> HIDE DEF S
<1>2. PICK m \in S : \A x \in S : ~(<<x, m>> \in OpToRel(<, Nat))
  BY <1>1, NatLessThanWellFounded, WFMin
<1>3. \A x \in S : ~(x < m)
  BY <1>1, <1>2 DEF OpToRel
<1>4. Pivot \in S /\ \A x \in S : Pivot <= x
  <2>1. \E n \in S : \A x \in S : n <= x
    BY <1>1, <1>3
  <2> QED
    BY <2>1 DEF Pivot, Min, S
<1>5. Pivot \in Nat /\ Pivot <= run.logBytecode /\ \A t \in Tables : Pivot <= heights[t]
  BY <1>1, <1>4
<1>6. Pivot <= Highest
  BY <1>5, ShapeIs, TablesAre
<1> QED
  BY <1>5, <1>6, ShapeIs DEF Shape

(* A section of whole chunks. *)
Chunked(s) == Divides(2^Pivot, s.first) /\ Divides(2^Pivot, End(s))

(* Divisibility as the property states it. *)
LEMMA ChunkedIs ==
    ASSUME Shape, NEW s, Chunked(s)
    PROVE  s.first % 2^Pivot = 0 /\ End(s) % 2^Pivot = 0
BY PivotIs, PowerIsPositive, MultipleIs DEF Chunked

(* The sections before the tables', in their order. *)
LEMMA FirstSections ==
    ASSUME Shape
    PROVE  LET m == Section(<<"memory">>, 0, logMemory, 1)
               b == Section(<<"bytecode">>, 2^logMemory, run.logBytecode, 1)
               p == Section(<<"bytecodePadding">>, 2^logMemory + 2^run.logBytecode, 0, 2^Highest - 2^run.logBytecode)
           IN  /\ m.first = 0 /\ End(m) = 2^logMemory
               /\ b.first = 2^logMemory /\ End(b) = 2^logMemory + 2^run.logBytecode
               /\ p.first = End(b)
               /\ End(b) \in Nat /\ End(b) <= FirstFraction /\ FirstFraction \in Nat /\ 2^logMemory <= End(b)
               /\ Chunked(m) /\ Chunked(b)
               /\ run.logBytecode < Highest =>
                     BytecodePadding(2^logMemory) = {p} /\ End(p) = FirstFraction /\ Chunked(p)
               /\ ~(run.logBytecode < Highest) => BytecodePadding(2^logMemory) = {} /\ End(b) = FirstFraction
<1> DEFINE m == Section(<<"memory">>, 0, logMemory, 1)
           b == Section(<<"bytecode">>, 2^logMemory, run.logBytecode, 1)
           p == Section(<<"bytecodePadding">>, 2^logMemory + 2^run.logBytecode, 0, 2^Highest - 2^run.logBytecode)
           d == 2^Pivot
<1>1. /\ logMemory \in Nat /\ run.logBytecode \in Nat /\ PaddedBytecode \in Nat /\ Highest \in Nat
      /\ run.logBytecode <= PaddedBytecode /\ Pivot \in Nat
      /\ Pivot <= logMemory /\ Pivot <= run.logBytecode /\ Pivot <= PaddedBytecode
  BY ShapeIs, PivotIs DEF Shape
<1>2. /\ 2^logMemory \in Nat /\ 2^run.logBytecode \in Nat /\ 2^PaddedBytecode \in Nat /\ 2^Highest \in Nat
      /\ 2^run.logBytecode <= 2^PaddedBytecode /\ d \in Nat
  BY <1>1, PowerIsPositive, PowersDivide
<1>3. Divides(d, 2^logMemory) /\ Divides(d, 2^run.logBytecode) /\ Divides(d, 2^PaddedBytecode) /\ Divides(d, 0)
  <2>1. 0 = 0 * d /\ 0 \in Nat
    BY <1>2
  <2> QED
    BY <1>1, <2>1, PowersDivide DEF Divides
<1> HIDE DEF d
<1>4. Divides(d, 2^logMemory + 2^run.logBytecode) /\ Divides(d, 2^logMemory + 2^PaddedBytecode)
  BY <1>2, <1>3, DividesSum
<1>5. /\ m.first = 0 /\ End(m) = 2^logMemory
      /\ b.first = 2^logMemory /\ End(b) = 2^logMemory + 2^run.logBytecode
  BY <1>1, <1>2 DEF Section, End
<1>6. p.first = 2^logMemory + 2^run.logBytecode /\ End(p) = 2^logMemory + 2^Highest
  BY <1>1, <1>2 DEF Section, End
<1>7. FirstFraction = 2^logMemory + 2^PaddedBytecode
  BY DEF FirstFraction
<1>8. /\ run.logBytecode < Highest => PaddedBytecode = Highest /\ BytecodePadding(2^logMemory) = {p}
      /\ ~(run.logBytecode < Highest) => PaddedBytecode = run.logBytecode /\ BytecodePadding(2^logMemory) = {}
  BY <1>1 DEF PaddedBytecode, Larger, BytecodePadding
<1> HIDE DEF m, b, p
<1>9. Chunked(m) /\ Chunked(b) /\ (run.logBytecode < Highest => Chunked(p))
  BY <1>3, <1>4, <1>5, <1>6, <1>8 DEF Chunked, d
<1>10. /\ run.logBytecode < Highest => End(p) = FirstFraction
       /\ ~(run.logBytecode < Highest) => End(b) = FirstFraction
  BY <1>5, <1>6, <1>7, <1>8
<1>11. End(b) \in Nat /\ End(b) <= FirstFraction /\ FirstFraction \in Nat /\ p.first = End(b) /\ 2^logMemory <= End(b)
  BY <1>2, <1>5, <1>6, <1>7
<1> QED
  BY <1>5, <1>8, <1>9, <1>10, <1>11 DEF m, b, p

(* The sections of one table, one after the other from its place to the next's. *)
LEMMA TableSections ==
    ASSUME Shape, NEW i \in 1..3
    PROVE  LET low == Place(FirstFraction, LogupColumns, i - 1)
               high == Place(FirstFraction, LogupColumns, i)
           IN  /\ Disjoint(FractionsOf(i))
               /\ \A s \in FractionsOf(i) :
                     /\ s.first \in Nat /\ End(s) \in Nat /\ low <= s.first /\ End(s) <= high
                     /\ s.first <= End(s) /\ Chunked(s)
                     /\ End(s) = high \/ \E u \in FractionsOf(i) : u.first = End(s)
               /\ \E s \in FractionsOf(i) : s.first = low
<1> DEFINE t == SortedTables[i]
           h == heights[t]
           low == Place(FirstFraction, LogupColumns, i - 1)
           high == Place(FirstFraction, LogupColumns, i)
           bus == IF t = "execution" THEN low + 2^h ELSE low
           B == Section(<<t, "bus">>, bus, h, 1)
           L == Section(<<t, "lookups">>, bus + 2^h, h, NLookups[t])
           C == Section(<<t, "pc">>, low, h, 1)
           d == 2^Pivot
<1>1. low \in Nat /\ h \in Nat /\ t \in Tables /\ 2^h \in Nat /\ Divides(2^h, low)
  BY BasesAligned, PlaceAligned, ColumnCounts, SortedAre, PowerIsPositive DEF Shape
<1>2. high = low + LogupColumns[t] * 2^h
  <2>1. i - 1 \in 0..2 /\ (i - 1) + 1 = i
    OBVIOUS
  <2>2. Place(FirstFraction, LogupColumns, (i - 1) + 1) = low + Share(LogupColumns, (i - 1) + 1)
    BY <2>1, BasesAligned, ColumnCounts, PlaceIs DEF Shape
  <2> QED
    BY <2>1, <2>2 DEF Share
<1>3. NLookups[t] \in Nat /\ LogupColumns[t] = NLookups[t] + (IF t = "execution" THEN 2 ELSE 1)
  BY <1>1, ColumnCounts
<1>4. d \in Nat /\ Divides(d, 2^h)
  <2>1. Pivot \in Nat /\ Pivot <= h
    BY <1>1, PivotIs
  <2> QED
    BY <1>1, <2>1, PowersDivide, PowerIsPositive
<1>5. FractionsOf(i) = {B, L} \cup (IF t = "execution" THEN {C} ELSE {})
  BY Zenon DEF FractionsOf, TableFractions
<1> HIDE DEF d, low, high, t, h
<1>6. Divides(d, low)
  <2>1. PICK q \in Nat : low = q * 2^h
    BY <1>1 DEF Divides
  <2> QED
    BY <1>1, <1>4, <2>1, DividesMultiple
<1>7. Divides(d, low + 2^h) /\ Divides(d, NLookups[t] * 2^h)
  BY <1>1, <1>3, <1>4, <1>6, DividesSum, DividesMultiple
<1>8. Divides(d, bus)
  BY <1>6, <1>7
<1>9. /\ LogupColumns[t] * 2^h = NLookups[t] * 2^h + (IF t = "execution" THEN 2 * 2^h ELSE 2^h)
      /\ NLookups[t] * 2^h \in Nat
  BY <1>1, <1>3
<1>10. /\ bus \in Nat /\ high = bus + 2^h + NLookups[t] * 2^h /\ high \in Nat
       /\ low <= bus /\ (t = "execution" => bus = low + 2^h) /\ (t # "execution" => bus = low)
  BY <1>1, <1>2, <1>9
<1> HIDE DEF bus
<1>11. /\ B.first = bus /\ End(B) = bus + 2^h
       /\ L.first = bus + 2^h /\ End(L) = high
       /\ C.first = low /\ End(C) = low + 2^h
  BY <1>1, <1>10 DEF End, Section
<1> HIDE DEF B, L, C
<1>12. Divides(d, bus + 2^h)
  BY <1>4, <1>8, DividesSum
<1>13. Divides(d, high)
  BY <1>4, <1>7, <1>10, <1>12, DividesSum
<1>14. Chunked(B) /\ Chunked(L) /\ Chunked(C)
  BY <1>6, <1>7, <1>8, <1>11, <1>12, <1>13 DEF Chunked, d
<1>15. Disjoint(FractionsOf(i))
  <2>1. End(B) <= L.first /\ (t = "execution" => End(C) <= B.first /\ End(C) <= L.first)
    BY <1>1, <1>10, <1>11
  <2> QED
    BY <1>5, <2>1 DEF Disjoint
<1>16. \A s \in {B, L} : /\ s.first \in Nat /\ End(s) \in Nat /\ low <= s.first /\ End(s) <= high
                         /\ s.first <= End(s)
  BY <1>1, <1>9, <1>10, <1>11
<1>17. t = "execution" => /\ C.first \in Nat /\ End(C) \in Nat /\ low <= C.first /\ End(C) <= high
                          /\ C.first <= End(C) /\ End(C) = B.first
  BY <1>1, <1>9, <1>10, <1>11
<1>18. \A s \in FractionsOf(i) : /\ s.first \in Nat /\ End(s) \in Nat /\ low <= s.first /\ End(s) <= high
                                 /\ s.first <= End(s) /\ Chunked(s)
  BY <1>5, <1>14, <1>16, <1>17
<1>19. End(L) = high /\ End(B) = L.first /\ (t = "execution" => End(C) = B.first)
  BY <1>11, <1>17
<1>20. \A s \in FractionsOf(i) : End(s) = high \/ \E u \in FractionsOf(i) : u.first = End(s)
  BY <1>5, <1>19
<1>21. \E s \in FractionsOf(i) : s.first = low
  BY <1>5, <1>10, <1>11
<1> QED
  BY <1>15, <1>18, <1>20, <1>21 DEF low, high

(* The sections that precede those of the tables. *)
BeforeTables ==
    {Section(<<"memory">>, 0, logMemory, 1), Section(<<"bytecode">>, 2^logMemory, run.logBytecode, 1)}
    \cup BytecodePadding(2^logMemory)

(* They follow one another up to the first table. *)
LEMMA HeadSections ==
    ASSUME Shape
    PROVE  /\ Disjoint(BeforeTables)
           /\ \A s \in BeforeTables : /\ End(s) \in Nat /\ End(s) <= FirstFraction /\ Chunked(s)
                                      /\ End(s) = FirstFraction \/ \E u \in BeforeTables : u.first = End(s)
<1> DEFINE m == Section(<<"memory">>, 0, logMemory, 1)
           b == Section(<<"bytecode">>, 2^logMemory, run.logBytecode, 1)
           p == Section(<<"bytecodePadding">>, 2^logMemory + 2^run.logBytecode, 0, 2^Highest - 2^run.logBytecode)
<1>1. /\ m.first = 0 /\ End(m) = 2^logMemory
      /\ b.first = 2^logMemory /\ End(b) = 2^logMemory + 2^run.logBytecode
      /\ p.first = End(b)
      /\ End(b) \in Nat /\ End(b) <= FirstFraction /\ FirstFraction \in Nat /\ 2^logMemory <= End(b)
      /\ Chunked(m) /\ Chunked(b)
      /\ run.logBytecode < Highest =>
            BytecodePadding(2^logMemory) = {p} /\ End(p) = FirstFraction /\ Chunked(p)
      /\ ~(run.logBytecode < Highest) => BytecodePadding(2^logMemory) = {} /\ End(b) = FirstFraction
  BY FirstSections
<1>2. BeforeTables = {m, b} \cup BytecodePadding(2^logMemory)
  BY DEF BeforeTables
<1>3. 2^logMemory \in Nat
  BY ShapeIs, PowerIsPositive
<1> HIDE DEF m, b, p
<1>4. End(m) \in Nat /\ End(m) <= FirstFraction /\ End(m) = b.first /\ End(m) <= p.first
  BY <1>1, <1>3
<1>5. CASE run.logBytecode < Highest
  <2>1. BeforeTables = {m, b, p}
    BY <1>1, <1>2, <1>5
  <2>2. Disjoint(BeforeTables)
    BY <1>1, <1>4, <2>1 DEF Disjoint
  <2>3. \A s \in BeforeTables : /\ End(s) \in Nat /\ End(s) <= FirstFraction /\ Chunked(s)
                                /\ End(s) = FirstFraction \/ \E u \in BeforeTables : u.first = End(s)
    BY <1>1, <1>4, <1>5, <2>1
  <2> QED
    BY <2>2, <2>3
<1>6. CASE ~(run.logBytecode < Highest)
  <2>1. BeforeTables = {m, b}
    BY <1>1, <1>2, <1>6
  <2>2. Disjoint(BeforeTables)
    BY <1>1, <1>4, <2>1 DEF Disjoint
  <2>3. \A s \in BeforeTables : /\ End(s) \in Nat /\ End(s) <= FirstFraction /\ Chunked(s)
                                /\ End(s) = FirstFraction \/ \E u \in BeforeTables : u.first = End(s)
    BY <1>1, <1>4, <1>6, <2>1
  <2> QED
    BY <2>2, <2>3
<1> QED
  BY <1>5, <1>6

(* The fractions together: in order, without a gap, up to the last table's end. *)
LEMMA FractionsFit ==
    ASSUME Shape
    PROVE  LET end == Place(FirstFraction, LogupColumns, 3)
           IN  /\ Disjoint(FractionsUpTo(3)) /\ end \in Nat
               /\ \A s \in FractionsUpTo(3) : /\ End(s) \in Nat /\ End(s) <= end /\ Chunked(s)
                                              /\ End(s) = end \/ \E u \in FractionsUpTo(3) : u.first = End(s)
<1> DEFINE P(k) == Place(FirstFraction, LogupColumns, k)
           F(i) == FractionsOf(i)
           All == FractionsUpTo(3)
<1>1. /\ \A k \in 0..3 : P(k) \in Nat /\ FirstFraction <= P(k)
      /\ \A k, l \in 0..3 : k <= l => P(k) <= P(l)
      /\ FirstFraction \in Nat /\ P(0) = FirstFraction
  BY PlacesGrow, BasesAligned, ColumnCounts, NoneYet DEF Shape
<1>2. All = BeforeTables \cup UNION {F(i) : i \in 1..3}
  BY DEF FractionsUpTo, BeforeTables
<1>3. /\ Disjoint(BeforeTables)
      /\ \A s \in BeforeTables : /\ End(s) \in Nat /\ End(s) <= FirstFraction /\ Chunked(s)
                                 /\ End(s) = FirstFraction \/ \E u \in BeforeTables : u.first = End(s)
  BY HeadSections
<1>4. ASSUME NEW i \in 1..3
      PROVE  /\ Disjoint(F(i))
             /\ \A s \in F(i) : /\ s.first \in Nat /\ End(s) \in Nat /\ P(i - 1) <= s.first /\ End(s) <= P(i)
                                /\ s.first <= End(s) /\ Chunked(s)
                                /\ End(s) = P(i) \/ \E u \in F(i) : u.first = End(s)
             /\ \E s \in F(i) : s.first = P(i - 1)
  BY TableSections
<1> HIDE DEF P, F, All
<1>5. /\ P(0) \in Nat /\ P(1) \in Nat /\ P(2) \in Nat /\ P(3) \in Nat
      /\ FirstFraction <= P(3)
  BY <1>1
<1>6. ASSUME NEW i \in 1..3, NEW s \in F(i)
      PROVE  /\ s.first \in Nat /\ End(s) \in Nat /\ FirstFraction <= s.first /\ End(s) <= P(3) /\ Chunked(s)
  <2>1. i - 1 \in 0..3 /\ i \in 0..3 /\ 3 \in 0..3 /\ i <= 3
    OBVIOUS
  <2>2. FirstFraction <= P(i - 1) /\ P(i) <= P(3) /\ P(i - 1) \in Nat /\ P(i) \in Nat
    BY <1>1, <2>1
  <2> QED
    BY <1>1, <1>4, <1>5, <1>6, <2>2
<1>7. \A s \in BeforeTables : End(s) \in Nat /\ End(s) <= P(3) /\ Chunked(s)
  BY <1>1, <1>3, <1>5
<1>8. \A s \in All : End(s) \in Nat /\ End(s) <= P(3) /\ Chunked(s)
  BY <1>2, <1>6, <1>7
<1>9. ASSUME NEW i \in 1..3, NEW j \in 1..3, i < j, NEW s \in F(i), NEW u \in F(j) PROVE End(s) <= u.first
  <2>1. i \in 0..3 /\ j - 1 \in 0..3 /\ i <= j - 1
    BY <1>9
  <2>2. P(i) <= P(j - 1) /\ P(i) \in Nat /\ P(j - 1) \in Nat
    BY <1>1, <2>1
  <2>3. End(s) \in Nat /\ End(s) <= P(i)
    BY <1>4, <1>9
  <2>4. u.first \in Nat /\ P(j - 1) <= u.first
    BY <1>4, <1>9
  <2> QED
    BY <2>2, <2>3, <2>4
<1>10. ASSUME NEW s \in All, NEW u \in All, s # u PROVE End(s) <= u.first \/ End(u) <= s.first
  <2>1. CASE s \in BeforeTables /\ u \in BeforeTables
    BY <1>3, <1>10, <2>1 DEF Disjoint
  <2>2. ASSUME NEW v \in BeforeTables, NEW i \in 1..3, NEW w \in F(i) PROVE End(v) <= w.first
    <3>1. w.first \in Nat /\ FirstFraction <= w.first
      BY <1>6, <2>2
    <3>2. End(v) \in Nat /\ End(v) <= FirstFraction
      BY <1>3, <2>2
    <3> QED
      BY <1>1, <3>1, <3>2
  <2>3. CASE s \in BeforeTables /\ u \notin BeforeTables
    BY <1>2, <2>2, <2>3
  <2>4. CASE s \notin BeforeTables /\ u \in BeforeTables
    BY <1>2, <2>2, <2>4
  <2>5. CASE s \notin BeforeTables /\ u \notin BeforeTables
    <3>1. PICK i \in 1..3 : s \in F(i)
      BY <1>2, <2>5
    <3>2. PICK j \in 1..3 : u \in F(j)
      BY <1>2, <2>5
    <3>3. CASE i = j
      <4>1. Disjoint(F(i))
        BY <1>4
      <4> QED
        BY <1>10, <3>1, <3>2, <3>3, <4>1 DEF Disjoint
    <3>4. CASE i # j
      <4>1. i < j \/ j < i
        BY <3>4
      <4> QED
        BY <1>9, <3>1, <3>2, <4>1
    <3> QED
      BY <3>3, <3>4
  <2> QED
    BY <2>1, <2>3, <2>4, <2>5
<1>11. ASSUME NEW i \in 1..3 PROVE \E u \in All : u.first = P(i - 1)
  <2>1. PICK u \in F(i) : u.first = P(i - 1)
    BY <1>4
  <2>2. u \in All
    BY <1>2
  <2> QED
    BY <2>1, <2>2
<1>12. ASSUME NEW s \in All PROVE End(s) = P(3) \/ \E u \in All : u.first = End(s)
  <2>1. CASE s \in BeforeTables
    <3>1. CASE End(s) = FirstFraction
      <4>1. 1 \in 1..3 /\ 1 - 1 = 0
        OBVIOUS
      <4>2. \E u \in All : u.first = P(0)
        BY <1>11, <4>1
      <4> QED
        BY <1>1, <3>1, <4>2
    <3>2. CASE \E u \in BeforeTables : u.first = End(s)
      BY <1>2, <3>2
    <3> QED
      BY <1>3, <2>1, <3>1, <3>2
  <2>2. CASE s \notin BeforeTables
    <3>1. PICK i \in 1..3 : s \in F(i)
      BY <1>2, <2>2
    <3>2. CASE \E u \in F(i) : u.first = End(s)
      BY <1>2, <3>2
    <3>3. CASE End(s) = P(i) /\ i # 3
      <4>1. i + 1 \in 1..3 /\ (i + 1) - 1 = i
        BY <3>3
      <4>2. \E u \in All : u.first = P(i)
        BY <1>11, <4>1
      <4> QED
        BY <3>3, <4>2
    <3>4. CASE End(s) = P(i) /\ i = 3
      BY <3>4
    <3> QED
      BY <1>4, <3>1, <3>2, <3>3, <3>4
  <2> QED
    BY <2>1, <2>2
<1>13. Disjoint(All)
  BY <1>10 DEF Disjoint
<1> QED
  BY <1>5, <1>8, <1>12, <1>13 DEF P, All

(* When the sum is computed each numerator and denominator has been written     *)
(* once: the sections follow one another to the end of the vector, whatever the *)
(* run, and none leaves a part of a chunk of 2^pivot.                           *)
THEOREM FractionsAreAllWritten == LayoutSpec => []FractionsFilled
<1>1. LayoutInv => FractionsFilled
  <2> SUFFICES ASSUME LayoutInv, stage = "proved" PROVE FractionsFilled
    BY DEF FractionsFilled
  <2> USE DEF Late, Sized, Stacked, Committed, Filled, Stages, Rejected
  <2>1. Shape
    BY ShapeHolds DEF LayoutInv
  <2>2. fractions = FractionsUpTo(3) \cup {Ones} /\ ActiveLen = Place(FirstFraction, LogupColumns, 3)
    BY DEF LayoutInv, PlacesInv
  <2>3. /\ Disjoint(FractionsUpTo(3)) /\ ActiveLen \in Nat
        /\ \A s \in FractionsUpTo(3) :
              /\ End(s) \in Nat /\ End(s) <= ActiveLen /\ Chunked(s)
              /\ End(s) = ActiveLen \/ \E u \in FractionsUpTo(3) : u.first = End(s)
    BY <2>1, <2>2, FractionsFit
  <2> DEFINE n == 2^Log2Ceil(ActiveLen)
  <2>4. Log2Ceil(ActiveLen) \in Nat
    BY Log2CeilIsNat
  <2>5. n \in Nat
    BY <2>4, PowerIsPositive
  <2> HIDE DEF n
  <2>6. Ones.part = <<"ones">> /\ Ones.first = ActiveLen /\ End(Ones) = n
    <3>1. Ones = Section(<<"ones">>, ActiveLen, 0, n - ActiveLen)
      BY DEF Ones, n
    <3>2. 2^0 = 1
      OBVIOUS
    <3> QED
      BY <2>3, <2>5, <3>1, <3>2 DEF Section, End
  <2>7. Disjoint(fractions)
    BY <2>2, <2>3, <2>6 DEF Disjoint
  <2>8. ASSUME NEW s \in fractions
        PROVE  /\ s.part # <<"ones">> => s.first % 2^Pivot = 0 /\ End(s) % 2^Pivot = 0
               /\ End(s) = n \/ \E u \in fractions : u.first = End(s)
    <3>1. CASE s \in FractionsUpTo(3)
      <4>1. s.first % 2^Pivot = 0 /\ End(s) % 2^Pivot = 0
        BY <2>1, <2>3, <3>1, ChunkedIs
      <4>2. \E u \in fractions : u.first = End(s)
        BY <2>2, <2>3, <2>6, <3>1
      <4> QED
        BY <4>1, <4>2
    <3>2. CASE s = Ones
      BY <2>6, <3>2
    <3> QED
      BY <2>2, <3>1, <3>2
  <2> QED
    BY <2>7, <2>8 DEF FractionsFilled, n
<1> QED
  BY <1>1, LayoutFollowsDimensions, PTL

=============================================================================
