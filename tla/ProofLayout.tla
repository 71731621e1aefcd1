----------------------------- MODULE ProofLayout -----------------------------
(***************************************************************************)
(* The dimensions of a proof and what lies where, from the end of a run to *)
(* the verifier's statements: the prover pads the memory and the tables,   *)
(* stacks every column into one committed polynomial and every fraction of *)
(* the lookup argument into one sum; the verifier, who has the dimensions  *)
(* only, recomputes each place.  The numbers are those of the code.        *)
(***************************************************************************)
EXTENDS Integers, Sequences, FiniteSets, FiniteSetsExt

CONSTANT Runs  \* the runs considered: [rows, memory, logBytecode, logInvRate]

(* ALL_TABLES, which is also the order of Ord for Table. *)
AllTables == <<"execution", "extensionOp", "poseidon16">>
Tables == {AllTables[i] : i \in 1..3}

(* constants.rs and lean_prover/src/lib.rs; the tables' columns and lookups. *)
MinLogMemory == 16
MaxLogMemory == 26
MinLogBytecode == 8
MaxLogBytecode == 22
MinLogRows == 8
MaxLogRows == [execution |-> 24, extensionOp |-> 21, poseidon16 |-> 21]
MinLogInvRate == 1
MaxLogInvRate == 4
TwoAdicity == 24
FoldingFactor == 7
NColumns == [execution |-> 20, extensionOp |-> 29, poseidon16 |-> 109]
NLookups == [execution |-> 3, extensionOp |-> 15, poseidon16 |-> 32]
ColPc == 0
Appended == 24           \* cells trace_gen appends: 16 zeros and a digest
EndiannessPivot == 12

ASSUME RunsAssumption ==
    \A r \in Runs :
        /\ r.rows \in [Tables -> Nat]
        /\ r.rows["execution"] > 0
        /\ r.rows["poseidon16"] <= r.rows["execution"]
        /\ r.memory \in 1..2^MaxLogMemory
        /\ r.logBytecode \in MinLogBytecode..30
        /\ r.logInvRate \in MinLogInvRate..MaxLogInvRate

(* log2_ceil_usize, up to 2^31: WHIR has no room for more than 2^30 cells. *)
Log2Ceil(n) == Cardinality({k \in 0..30 : 2^k < n})

Larger(a, b) == IF a >= b THEN a ELSE b

(* `count` columns of 2^log cells each, one after the other. *)
Section(part, first, log, count) == [part |-> part, first |-> first, log |-> log, count |-> count]

End(s) == s.first + s.count * 2^s.log

(* (offset >> log) << log: where a selector of the high bits of offset points. *)
Selected(offset, log) == (offset \div 2^log) * 2^log

VARIABLES
    run,            \* what the runner returned, the bytecode and the rate
    stage,          \* the step the prover, then the verifier, has come to
    heights,        \* log_n_rows of each table
    logMemory,      \* log2 of the length of the memory
    todo,           \* the tables a loop has not reached
    offset,         \* the offset of that loop
    stacked,        \* the sections of the committed polynomial
    fractions,      \* the sections of the lookup argument's fractions
    fractionClaims, \* where the verifier takes those fractions to be
    claims,         \* where its statements take the columns to be
    pcCells         \* the cells its statements fix to the first and the last pc

dims == <<run, heights, logMemory>>
proverPlaces == <<stacked, fractions>>
verifierPlaces == <<fractionClaims, claims, pcCells>>
layoutVars == <<dims, stage, todo, offset, proverPlaces, verifierPlaces>>

Rejected == {"tooBigTable", "memoryTooSmall", "executionNotLargest", "panicked", "refused"}
Stages ==
    {"executed", "traced", "sized", "stacking", "committed", "filling", "proved",
     "checked", "retrieving", "retrieved", "stating", "accepted"} \cup Rejected

(* A faulty SortedTables: the lowest first. *)
LowestFirst ==
    CHOOSE s \in [1..3 -> Tables] :
        \A i, j \in 1..3 : i < j => s[i] # s[j] /\ heights[s[i]] <= heights[s[j]]

(* sort_tables_by_height: a stable sort by decreasing height. *)
Before(t, u) ==
    \/ heights[t] > heights[u]
    \/ heights[t] = heights[u] /\ \E i, j \in 1..3 : i < j /\ t = AllTables[i] /\ u = AllTables[j]

SortedTables == CHOOSE s \in [1..3 -> Tables] : \A i, j \in 1..3 : i < j => Before(s[i], s[j])

Highest == heights[SortedTables[1]]

SumOfTables(f) == f["execution"] + f["extensionOp"] + f["poseidon16"]

(* compute_stacked_n_vars. *)
StackedNVars ==
    Log2Ceil(2 * 2^logMemory + 2^Larger(run.logBytecode, Highest)
             + SumOfTables([t \in Tables |-> NColumns[t] * 2^heights[t]]))

(* compute_total_active_len. *)
ActiveLen ==
    2^logMemory + 2^Larger(run.logBytecode, Highest) + 2^heights["execution"]
    + SumOfTables([t \in Tables |-> (NLookups[t] + 1) * 2^heights[t]])

(* The room WHIR has at the rate: check_validity, and the two-adicity. *)
FitsWhir ==
    /\ FoldingFactor <= StackedNVars
    /\ StackedNVars + run.logInvRate - FoldingFactor <= TwoAdicity

LayoutInit ==
    /\ run \in Runs
    /\ stage = "executed"
    /\ heights = [t \in Tables |-> 0] /\ logMemory = 0
    /\ todo = <<>> /\ offset = 0
    /\ stacked = {} /\ fractions = {} /\ fractionClaims = {} /\ claims = {}
    /\ pcCells = <<>>

-----------------------------------------------------------------------------
(* The prover. *)

(* A faulty PaddedLog: a full table gets no padding row. *)
PaddedLogExact(rows) == Larger(Log2Ceil(rows), MinLogRows)

(* pad_table. *)
PaddedLog(rows) == Larger(Log2Ceil(rows + 1), MinLogRows)

GetExecutionTrace ==
    /\ stage = "executed"
    /\ heights' = [t \in Tables |-> PaddedLog(run.rows[t])]
    /\ logMemory' = Larger(Log2Ceil(run.memory + Appended),
                           Larger(Log2Ceil(run.rows["execution"]), MinLogRows))
    /\ stage' = "traced"
    /\ UNCHANGED <<run, todo, offset, proverPlaces, verifierPlaces>>

(* A faulty LeastLogMemory: the bytecode is forgotten. *)
LeastLogMemoryOnly == MinLogMemory

(* min_memory_size. *)
LeastLogMemory == Larger(MinLogMemory, run.logBytecode)

(* prove_execution up to the commitment: the dimensions are sent, then the     *)
(* tables' sizes are checked.                                                  *)
SendDimensions ==
    /\ stage = "traced"
    /\ logMemory' = Larger(logMemory, LeastLogMemory)
    /\ stage' = IF \E t \in Tables : heights[t] > MaxLogRows[t] THEN "tooBigTable" ELSE "sized"
    /\ UNCHANGED <<run, heights, todo, offset, proverPlaces, verifierPlaces>>

(* The two assertions of stack_polynomials_and_commit. *)
MemoryLargeEnough == logMemory >= heights["execution"]
ExecutionLargest == heights["execution"] >= Highest

RefuseHeights ==
    /\ stage = "sized"
    /\ ~(MemoryLargeEnough /\ ExecutionLargest)
    /\ stage' = IF MemoryLargeEnough THEN "executionNotLargest" ELSE "memoryTooSmall"
    /\ UNCHANGED <<dims, todo, offset, proverPlaces, verifierPlaces>>

StackMemory ==
    /\ stage = "sized"
    /\ MemoryLargeEnough /\ ExecutionLargest
    /\ stacked' = {Section(<<"memory">>, 0, logMemory, 1),
                   Section(<<"memoryAcc">>, 2^logMemory, logMemory, 1),
                   Section(<<"bytecodeAcc">>, 2 * 2^logMemory, run.logBytecode, 1)}
    /\ offset' = 2 * 2^logMemory + Larger(2^Highest, 2^run.logBytecode)
    /\ todo' = SortedTables
    /\ stage' = "stacking"
    /\ UNCHANGED <<dims, fractions, verifierPlaces>>

StackTable ==
    /\ stage = "stacking" /\ todo # <<>>
    /\ LET s == Section(<<Head(todo)>>, offset, heights[Head(todo)], NColumns[Head(todo)])
       IN  stacked' = stacked \cup {s} /\ offset' = End(s)
    /\ todo' = Tail(todo)
    /\ UNCHANGED <<dims, stage, fractions, verifierPlaces>>

(* Its end: the assertion on the length, and those of WhirConfig::new. *)
Commit ==
    /\ stage = "stacking" /\ todo = <<>>
    /\ stage' = IF Log2Ceil(offset) = StackedNVars /\ FitsWhir THEN "committed" ELSE "panicked"
    /\ UNCHANGED <<dims, todo, offset, proverPlaces, verifierPlaces>>

(* A faulty BytecodePadding: what follows the bytecode is left as allocated. *)
NoBytecodePadding(first) == {}

(* The padding of the bytecode section, zero over one. *)
BytecodePadding(first) ==
    IF run.logBytecode < Highest
    THEN {Section(<<"bytecodePadding">>, first + 2^run.logBytecode, 0, 2^Highest - 2^run.logBytecode)}
    ELSE {}

(* prove_generic_logup: the sections of the memory and of the bytecode. *)
FillMemory ==
    /\ stage = "committed"
    /\ fractions' = {Section(<<"memory">>, 0, logMemory, 1),
                     Section(<<"bytecode">>, 2^logMemory, run.logBytecode, 1)}
                    \cup BytecodePadding(2^logMemory)
    /\ offset' = 2^logMemory + Larger(2^Highest, 2^run.logBytecode)
    /\ todo' = SortedTables
    /\ stage' = "filling"
    /\ UNCHANGED <<dims, stacked, verifierPlaces>>

(* The sections of table t from `first` on: the bytecode lookup of the         *)
(* execution table, the bus, and the lookups into memory.                      *)
TableFractions(t, first) ==
    LET h == heights[t]
        bus == IF t = "execution" THEN first + 2^h ELSE first
    IN  {Section(<<t, "bus">>, bus, h, 1), Section(<<t, "lookups">>, bus + 2^h, h, NLookups[t])}
        \cup (IF t = "execution" THEN {Section(<<t, "pc">>, first, h, 1)} ELSE {})

LastEnd(sections) == Max({End(s) : s \in sections})

FillTable ==
    /\ stage = "filling" /\ todo # <<>>
    /\ LET new == TableFractions(Head(todo), offset)
       IN  fractions' = fractions \cup new /\ offset' = LastEnd(new)
    /\ todo' = Tail(todo)
    /\ UNCHANGED <<dims, stage, stacked, verifierPlaces>>

(* The assertion on the offset; the rest of the 2^n fractions is one over one. *)
FinishFractions ==
    /\ stage = "filling" /\ todo = <<>>
    /\ stage' = IF offset = ActiveLen THEN "proved" ELSE "panicked"
    /\ fractions' = fractions \cup {Section(<<"ones">>, ActiveLen, 0, 2^Log2Ceil(ActiveLen) - ActiveLen)}
    /\ UNCHANGED <<dims, todo, offset, stacked, verifierPlaces>>

-----------------------------------------------------------------------------
(* The verifier, who reads run.logInvRate, logMemory and heights in the proof. *)

(* verify_execution and stacked_pcs_parse_commitment. *)
DimensionsValid ==
    /\ run.logBytecode \in MinLogBytecode..MaxLogBytecode
    /\ run.logInvRate \in MinLogInvRate..MaxLogInvRate
    /\ \A t \in Tables : heights[t] \in MinLogRows..MaxLogRows[t] /\ heights[t] <= logMemory
    /\ run.logBytecode <= logMemory
    /\ logMemory \in MinLogMemory..MaxLogMemory
    /\ \A t \in Tables : heights[t] <= heights["execution"]
    /\ StackedNVars <= TwoAdicity + FoldingFactor - run.logInvRate

CheckDimensions ==
    /\ stage = "proved"
    /\ stage' = IF DimensionsValid THEN "checked" ELSE "refused"
    /\ UNCHANGED <<dims, todo, offset, proverPlaces, verifierPlaces>>

(* A faulty PaddedBytecode: the section is not extended to the table. *)
PaddedBytecodeShort == run.logBytecode

(* log_bytecode_padded. *)
PaddedBytecode == Larger(run.logBytecode, Highest)

(* verify_generic_logup: pref_at(0, ...), pref and pref_padded. *)
RetrieveMemory ==
    /\ stage = "checked"
    /\ LET first == 2^logMemory
       IN  /\ fractionClaims' =
                  {Section(<<"memory">>, 0, logMemory, 1),
                   Section(<<"bytecode">>, Selected(first, run.logBytecode), run.logBytecode, 1)}
                  \cup (IF run.logBytecode < PaddedBytecode
                        THEN {Section(<<"bytecodePadding">>, Selected(first, PaddedBytecode) + 2^run.logBytecode,
                                      0, 2^PaddedBytecode - 2^run.logBytecode)}
                        ELSE {})
           /\ offset' = first + 2^PaddedBytecode
    /\ todo' = SortedTables
    /\ stage' = "retrieving"
    /\ UNCHANGED <<dims, proverPlaces, claims, pcCells>>

(* The same sections, each where pref_at takes the offset's high bits to be. *)
TableClaims(t, first) ==
    LET h == heights[t]
        bus == IF t = "execution" THEN first + 2^h ELSE first
    IN  {Section(<<t, "bus">>, Selected(bus, h), h, 1),
         Section(<<t, "lookups">>, Selected(bus + 2^h, h), h, NLookups[t])}
        \cup (IF t = "execution" THEN {Section(<<t, "pc">>, Selected(first, h), h, 1)} ELSE {})

RetrieveTable ==
    /\ stage = "retrieving" /\ todo # <<>>
    /\ LET t == Head(todo)
           columns == NLookups[t] + (IF t = "execution" THEN 2 ELSE 1)
       IN  /\ fractionClaims' = fractionClaims \cup TableClaims(t, offset)
           /\ offset' = offset + columns * 2^heights[t]
    /\ todo' = Tail(todo)
    /\ UNCHANGED <<dims, stage, proverPlaces, claims, pcCells>>

(* mle_of_zeros_then_ones(offset). *)
RetrieveOnes ==
    /\ stage = "retrieving" /\ todo = <<>>
    /\ fractionClaims' = fractionClaims \cup {Section(<<"ones">>, offset, 0, 2^Log2Ceil(ActiveLen) - offset)}
    /\ stage' = "retrieved"
    /\ UNCHANGED <<dims, todo, offset, proverPlaces, claims, pcCells>>

(* previous_statements and the start of stacked_pcs_global_statements. *)
StateMemory ==
    /\ stage = "retrieved"
    /\ claims' = {Section(<<"memory">>, 0, logMemory, 1),
                  Section(<<"memoryAcc">>, 2^logMemory, logMemory, 1),
                  Section(<<"bytecodeAcc">>, Selected(2 * 2^logMemory, run.logBytecode), run.logBytecode, 1)}
    /\ offset' = 2 * 2^logMemory + 2^Larger(run.logBytecode, Highest)
    /\ todo' = SortedTables
    /\ stage' = "stating"
    /\ UNCHANGED <<dims, proverPlaces, fractionClaims, pcCells>>

(* The unique values of the execution table: its first and its last pc. *)
PcCells(first, h) == <<first + ColPc * 2^h, first + (ColPc + 1) * 2^h - 1>>

StateTable ==
    /\ stage = "stating" /\ todo # <<>>
    /\ LET t == Head(todo)
           h == heights[t]
       IN  /\ claims' = claims \cup {Section(<<t>>, Selected(offset, h), h, NColumns[t])}
           /\ offset' = offset + NColumns[t] * 2^h
           /\ pcCells' = IF t = "execution" THEN PcCells(offset, h) ELSE pcCells
    /\ todo' = Tail(todo)
    /\ UNCHANGED <<dims, stage, proverPlaces, fractionClaims>>

Accept ==
    /\ stage = "stating" /\ todo = <<>>
    /\ stage' = "accepted"
    /\ UNCHANGED <<dims, todo, offset, proverPlaces, verifierPlaces>>

Prove ==
    GetExecutionTrace \/ SendDimensions \/ RefuseHeights \/ StackMemory \/ StackTable \/ Commit
    \/ FillMemory \/ FillTable \/ FinishFractions

Verify ==
    CheckDimensions \/ RetrieveMemory \/ RetrieveTable \/ RetrieveOnes
    \/ StateMemory \/ StateTable \/ Accept

LayoutNext == Prove \/ Verify

LayoutSpec == LayoutInit /\ [][LayoutNext]_layoutVars

-----------------------------------------------------------------------------
(* Properties *)

Aligned(sections) == \A s \in sections : s.first % 2^s.log = 0

Disjoint(sections) == \A s, u \in sections : s # u => End(s) <= u.first \/ End(u) <= s.first

(* Every column has a place of its own in the committed polynomial, at a       *)
(* multiple of its length (a selector has no other way to name it), inside     *)
(* the 2^n cells both sides compute before any column is placed.               *)
StackedColumnsFit ==
    /\ Aligned(stacked) /\ Disjoint(stacked)
    /\ stage = "committed" => \A s \in stacked : End(s) <= 2^StackedNVars

(* The numerators and denominators are allocated uninitialised and filled      *)
(* section by section, in chunks of 2^pivot: when the sum is computed, each    *)
(* has been written once, and no section leaves a part of a chunk.             *)
Pivot == Min({EndiannessPivot, run.logBytecode} \cup {heights[t] : t \in Tables})

FractionsFilled ==
    stage = "proved" =>
        /\ Disjoint(fractions)
        /\ \A s \in fractions : s.count * 2^s.log > 0 =>
              /\ s.part # <<"ones">> => s.first % 2^Pivot = 0 /\ End(s) % 2^Pivot = 0
              /\ End(s) = 2^Log2Ceil(ActiveLen) \/ \E u \in fractions : u.first = End(s)

(* Of the dimensions alone, the verifier derives for every column and every    *)
(* fraction the place where the prover put it.                                 *)
VerifierFindsEveryColumn ==
    /\ claims \subseteq stacked /\ fractionClaims \subseteq fractions
    /\ stage = "accepted" => claims = stacked /\ fractionClaims = fractions

(* The cells fixed to the starting and the ending pc are the first and the     *)
(* last of the pc column, and the last is on a padding row, which holds the    *)
(* ending pc: the run stops before executing there.                            *)
PcIsFixedAtBothEnds ==
    stage = "accepted" =>
        \E s \in stacked :
            /\ s.part = <<"execution">>
            /\ pcCells = <<s.first + ColPc * 2^s.log, s.first + (ColPc + 1) * 2^s.log - 1>>
            /\ run.rows["execution"] < 2^s.log

(* The verifier accepts the dimensions of every proof the prover returns, but  *)
(* for those the prover has no check for: a memory that its last cells make    *)
(* larger than MAX_LOG_MEMORY_SIZE, and a bytecode over its own maximum.       *)
OnlyOversizedProofsAreRefused ==
    stage = "refused" => logMemory > MaxLogMemory \/ run.logBytecode > MaxLogBytecode

(* "memory must be at least as large as the number of cycles"                  *)
(* (stack_polynomials_and_commit): that assertion fails only when it is not.   *)
MemoryHoldsTheCycles == stage = "memoryTooSmall" => 2^logMemory < run.rows["execution"]

=============================================================================
