-------------------------- MODULE RunnerReference --------------------------
(***************************************************************************)
(* What a run of the bytecode computes when nothing is parallel: the same  *)
(* hints and instructions, ParallelBatchStart being the no-op that         *)
(* Hint::execute_hint makes of it, one after the other on one memory; and  *)
(* what the prover makes of a finished run                                 *)
(* (crates/lean_prover/src/trace_gen.rs), the memory it commits to and the *)
(* rows of the execution table; and the properties that compare the runner *)
(* with both.                                                              *)
(***************************************************************************)
EXTENDS Runner

CONSTANTS
    ZeroVecLen,      \* the zeros appended for the lookups of padding rows
    DigestLen,       \* DIGEST_LEN
    PoseidonOfZero,  \* a coefficient of get_poseidon_16_of_zero()
    MinRows          \* 1 << MIN_LOG_N_ROWS_PER_TABLE

ASSUME TraceAssumption ==
    /\ {ZeroVecLen, DigestLen, MinRows} \subseteq Nat
    /\ PoseidonOfZero \in F

-----------------------------------------------------------------------------
(* The sequential run. *)

(* A sequential run: the memory and the registers, and whether it failed. *)
Sequential == [ok |-> TRUE, mem |-> [a \in 0..Len(PublicMemory) - 1 |-> PublicMemory[a + 1]],
               size |-> Len(PublicMemory),
               cpu |-> NewCpu(0, InitialFp, InitialFp + program.startingFrame,
                              [name \in DOMAIN entries |-> 0])]

SequentialStep(s) ==
    LET c == s.cpu
        hinting == c.hint <= Len(code[c.pc].hints)
        o == IF hinting THEN HintOutcome(s.mem, c, code[c.pc].hints[c.hint], entries)
             ELSE InstructionOutcome(s.mem, c, code[c.pc].instruction)
        next == IF hinting THEN [o.cpu EXCEPT !.hint = @ + 1]
                ELSE [o.cpu EXCEPT !.hint = 1, !.trace = Append(@, [pc |-> c.pc, fp |-> c.fp])]
    IN  [ok |-> o.ok /\ SettableIn(s.mem, s.size, o.writes),
         mem |-> WithCells(s.mem, o.writes),
         size |-> Grown(s.size, o.writes),
         cpu |-> next]

RECURSIVE SequentialRun(_)
SequentialRun(s) ==
    IF ~s.ok \/ s.cpu.pc = program.endingPc THEN s
    ELSE IF s.cpu.pc \notin DOMAIN code THEN [s EXCEPT !.ok = FALSE]
    ELSE SequentialRun(SequentialStep(s))

(* The least solution of the pending deref hints, in any order. *)
RECURSIVE Resolved(_, _)
Resolved(m, pending) ==
    LET ready == {p \in pending : p.src \in DOMAIN m /\ m[p.src] \in DOMAIN m}
    IN  IF ready = {} THEN m
        ELSE LET p == CHOOSE p \in ready : TRUE
             IN  Resolved(WithCells(m, {<<p.target, m[m[p.src]]>>}), pending \ {p})

RangeOf(s) == {s[k] : k \in 1..Len(s)}

(* The memory at the end of a run: what no deref hint resolves is 0. *)
FinalMemory(m, pending) ==
    LET r == Resolved(m, RangeOf(pending))
        left == {p.target : p \in RangeOf(pending)} \ DOMAIN r
    IN  WithCells(r, {<<a, 0>> : a \in left})

SequentialSucceeds(s) ==
    s.ok /\ \A name \in DOMAIN entries : s.cpu.cursor[name] = Len(entries[name])

-----------------------------------------------------------------------------
(* The trace and the memory the prover commits to. *)
(* memory.0.get(addr).copied().flatten().unwrap_or_default(). *)
ReadMemory == [a \in 0..2 * P |-> IF a \in DOMAIN mem THEN mem[a] ELSE 0]

(* get_execution_trace: the memory, with 16 zeros and the hash of zero behind  *)
(* it, padded to a power of two; then prove_execution's lower bound.           *)
HashStart == size + ZeroVecLen

CommittedLen ==
    NextPowerOfTwo(Max({HashStart + DigestLen, Len(cpu[0].trace), MinRows, MinMemory}))

CommittedMemory ==
    [a \in 0..CommittedLen - 1 |->
        CASE a \in DOMAIN mem -> mem[a]
          [] a \in HashStart..HashStart + DigestLen - 1 -> PoseidonOfZero
          [] OTHER -> 0]

Instruction(row) == code[row.pc].instruction

-----------------------------------------------------------------------------
(* Properties *)

(* "parallel_range executes iterations concurrently using rayon.  The produced *)
(* bytecode is identical to range": a run with parallel batches succeeds       *)
(* exactly when the sequential run does, with the same cells, the same         *)
(* allocation pointer and, row by row, the same trace.                         *)
ParallelRunsLikeRange ==
    mode \in {"halted", "error"} =>
        LET s == SequentialRun(Sequential)
        IN  /\ (mode = "halted") = SequentialSucceeds(s)
            /\ mode = "halted" =>
                  /\ mem = FinalMemory(s.mem, s.cpu.pending)
                  /\ cpu[0].ap = s.cpu.ap
                  /\ cpu[0].cursor = s.cpu.cursor
                  /\ cpu[0].trace = Append(s.cpu.trace, [pc |-> s.cpu.pc, fp |-> s.cpu.fp])

(* When the runner halts, every two consecutive rows of the trace satisfy the  *)
(* execution table's constraints: what iteration 0 and the segments executed   *)
(* with half of the memory unknown, and what the deref hints filled in, is one *)
(* contiguous, provable execution.                                             *)
TraceIsProvable ==
    mode = "halted" =>
        LET trace == cpu[0].trace
        IN  \A k \in 1..Len(trace) - 1 :
                RowHolds(ReadMemory, Instruction(trace[k]), trace[k], trace[k + 1])

(* "leanVM supports x < 1, x < 2, ..., x < 2^16" (RunnerError): a run that     *)
(* halts looks up, in every row, cells the committed memory has, with the      *)
(* value the committed memory has there.                                       *)
LookupsHold ==
    mode = "halted" =>
        LET trace == cpu[0].trace
        IN  \A k \in 1..Len(trace) :
                \A a \in RowAddresses(ReadMemory, Instruction(trace[k]), trace[k]) :
                    a \in DOMAIN CommittedMemory /\ CommittedMemory[a] = ReadMemory[a]

=============================================================================
