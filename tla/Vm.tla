--------------------------------- MODULE Vm ---------------------------------
(***************************************************************************)
(* The instructions and hints of the leanVM (crates/lean_vm/src/isa): what *)
(* one of them writes, and where it leaves the registers, given what its   *)
(* runner can see of the memory.                                           *)
(*                                                                         *)
(* A view is a function from the addresses that are defined and visible to *)
(* their values.  A hint entry of several values is modelled by one value. *)
(* The precompiles, the diagnostic hints (Print, LocationReport, Label,    *)
(* Panic) and the custom hints but DecomposeBits are left out.             *)
(***************************************************************************)
EXTENDS Integers, Sequences

CONSTANTS
    P,         \* the order of the prime field
    MinMemory  \* 1 << MIN_LOG_MEMORY_SIZE

ASSUME FieldAssumption == P \in Nat \ {0, 1} /\ MinMemory \in Nat

F == 0..P - 1

(* next_power_of_two; an address is below 2^31. *)
NextPowerOfTwo(n) == CHOOSE p \in {2^k : k \in 0..30} : n <= p /\ p < 2 * n

(* The operands of an instruction: a cell of the frame, fp itself, a constant. *)
Mem(offset) == [kind |-> "mem", n |-> offset]
FpRelative(offset) == [kind |-> "fp", n |-> offset]
Const(value) == [kind |-> "const", n |-> value]

Known(view, fp, x) == x.kind = "mem" => fp + x.n \in DOMAIN view

ReadValue(view, fp, x) ==
    CASE x.kind = "mem" -> view[fp + x.n]
      [] x.kind = "fp" -> (fp + x.n) % P
      [] x.kind = "const" -> x.n

InverseOf(a) == CHOOSE b \in F : (a * b) % P = 1

Compute(op, a, b) == IF op = "add" THEN (a + b) % P ELSE (a * b) % P

Invertible(op, b) == op = "mul" => b # 0

InverseCompute(op, r, b) == IF op = "add" THEN (r - b) % P ELSE (r * InverseOf(b)) % P

(* What a hint or an instruction does: it fails, or it writes some cells and  *)
(* leaves the registers cpu.                                                  *)
Fails(cpu) == [ok |-> FALSE, writes |-> {}, cpu |-> cpu]
Does(writes, cpu) == [ok |-> TRUE, writes |-> writes, cpu |-> cpu]

-----------------------------------------------------------------------------
(* Instructions. *)

(* Computation: whichever of the three operands is unknown is solved for. *)
ComputationOutcome(view, cpu, ins) ==
    LET value(x) == ReadValue(view, cpu.fp, x)
        known(x) == Known(view, cpu.fp, x)
        next == [cpu EXCEPT !.pc = @ + 1]
        solve(x, v) == Does({<<cpu.fp + x.n, v>>}, next)
    IN  CASE ~known(ins.res) /\ known(ins.a) /\ known(ins.c) ->
                solve(ins.res, Compute(ins.op, value(ins.a), value(ins.c)))
          [] known(ins.res) /\ ~known(ins.a) /\ known(ins.c) /\ Invertible(ins.op, value(ins.c)) ->
                solve(ins.a, InverseCompute(ins.op, value(ins.res), value(ins.c)))
          [] known(ins.res) /\ known(ins.a) /\ ~known(ins.c) /\ Invertible(ins.op, value(ins.a)) ->
                solve(ins.c, InverseCompute(ins.op, value(ins.res), value(ins.a)))
          [] /\ known(ins.res) /\ known(ins.a) /\ known(ins.c)
             /\ value(ins.res) = Compute(ins.op, value(ins.a), value(ins.c)) ->
                Does({}, next)
          [] OTHER -> Fails(cpu)

(* Deref: a copy between m[m[fp + shift0] + shift1] and res, in the direction *)
(* of what is unknown; nothing if both are.                                   *)
DerefOutcome(view, cpu, ins) ==
    LET target == view[cpu.fp + ins.shift0] + ins.shift1
        next == [cpu EXCEPT !.pc = @ + 1]
    IN  CASE ~Known(view, cpu.fp, Mem(ins.shift0)) -> Fails(cpu)
          [] Known(view, cpu.fp, Mem(ins.shift0)) /\ Known(view, cpu.fp, ins.res) ->
                Does({<<target, ReadValue(view, cpu.fp, ins.res)>>}, next)
          [] /\ Known(view, cpu.fp, Mem(ins.shift0)) /\ ~Known(view, cpu.fp, ins.res)
             /\ target \in DOMAIN view ->
                Does({<<cpu.fp + ins.res.n, view[target]>>}, next)
          [] OTHER -> Does({}, next)

JumpOutcome(view, cpu, ins) ==
    LET known(x) == Known(view, cpu.fp, x)
        condition == ReadValue(view, cpu.fp, ins.condition)
    IN  CASE ~known(ins.condition) -> Fails(cpu)
          [] known(ins.condition) /\ condition = 0 -> Does({}, [cpu EXCEPT !.pc = @ + 1])
          [] known(ins.condition) /\ condition = 1 /\ known(ins.dest) /\ known(ins.updatedFp) ->
                Does({}, [cpu EXCEPT !.pc = ReadValue(view, cpu.fp, ins.dest),
                                     !.fp = ReadValue(view, cpu.fp, ins.updatedFp)])
          [] OTHER -> Fails(cpu)

InstructionOutcome(view, cpu, ins) ==
    CASE ins.op \in {"add", "mul"} -> ComputationOutcome(view, cpu, ins)
      [] ins.op = "deref" -> DerefOutcome(view, cpu, ins)
      [] ins.op = "jump" -> JumpOutcome(view, cpu, ins)

-----------------------------------------------------------------------------
(* Hints. *)

RequestMemoryOutcome(view, cpu, h) ==
    IF Known(view, cpu.fp, h.size)
    THEN Does({<<cpu.fp + h.offset, cpu.ap % P>>},
              [cpu EXCEPT !.ap = @ + ReadValue(view, cpu.fp, h.size)])
    ELSE Fails(cpu)

InverseOutcome(view, cpu, h) ==
    IF Known(view, cpu.fp, h.arg)
    THEN LET v == ReadValue(view, cpu.fp, h.arg)
         IN  Does({<<cpu.fp + h.offset, IF v = 0 THEN 0 ELSE InverseOf(v)>>}, cpu)
    ELSE Fails(cpu)

(* DerefHint: memory[target] = memory[memory[src]], to be resolved at the end. *)
DerefHintOutcome(cpu, h) ==
    Does({}, [cpu EXCEPT !.pending = Append(@, [target |-> cpu.fp + h.target, src |-> cpu.fp + h.src])])

(* HintWitness: the next entry of a named hint, to a cell of the frame or to   *)
(* where that cell points.  The assertion that there is one is a failure.      *)
HintWitnessOutcome(view, cpu, h, entries) ==
    IF /\ cpu.cursor[h.name] < Len(entries[h.name])
       /\ h.indirect => Known(view, cpu.fp, Mem(h.offset))
    THEN LET dest == IF h.indirect THEN view[cpu.fp + h.offset] ELSE cpu.fp + h.offset
         IN  Does({<<dest, entries[h.name][cpu.cursor[h.name] + 1]>>},
                  [cpu EXCEPT !.cursor[h.name] = @ + 1])
    ELSE Fails(cpu)

(* DebugAssert: the comparison holds, and the bound of a range check is small   *)
(* enough for the check to be sound.                                           *)
Compare(rel, left, right) ==
    CASE rel = "==" -> left = right
      [] rel = "!=" -> left # right
      [] rel = "<" -> left < right
      [] rel = "<=" -> left <= right

DebugAssertOutcome(view, cpu, h) ==
    IF /\ Known(view, cpu.fp, h.left) /\ Known(view, cpu.fp, h.right)
       /\ h.rangeCheck => ReadValue(view, cpu.fp, h.right) < MinMemory
       /\ Compare(h.rel, ReadValue(view, cpu.fp, h.left), ReadValue(view, cpu.fp, h.right))
    THEN Does({}, cpu)
    ELSE Fails(cpu)

(* CustomHint::DecomposeBits: the bits of a value, most significant first, at   *)
(* an address.  The assertion on their number is a failure.                    *)
BitsOf(v, n) == [i \in 1..n |-> (v \div 2^(n - i)) % 2]

BitsOutcome(view, cpu, h) ==
    LET value(i) == ReadValue(view, cpu.fp, h.args[i])
        bits == BitsOf(value(1), value(3))
    IN  IF (\A i \in 1..3 : Known(view, cpu.fp, h.args[i])) /\ value(3) <= 31
        THEN Does({<<value(2) + i - 1, bits[i]>> : i \in DOMAIN bits}, cpu)
        ELSE Fails(cpu)

(* ParallelBatchStart does nothing here: the runner handles it. *)
HintOutcome(view, cpu, h, entries) ==
    CASE h.kind = "requestMemory" -> RequestMemoryOutcome(view, cpu, h)
      [] h.kind = "inverse" -> InverseOutcome(view, cpu, h)
      [] h.kind = "derefHint" -> DerefHintOutcome(cpu, h)
      [] h.kind = "hintWitness" -> HintWitnessOutcome(view, cpu, h, entries)
      [] h.kind = "debugAssert" -> DebugAssertOutcome(view, cpu, h)
      [] h.kind = "bits" -> BitsOutcome(view, cpu, h)
      [] h.kind = "parallelBatchStart" -> Does({}, cpu)

-----------------------------------------------------------------------------
(* What the execution table's AIR and its memory lookups demand of two         *)
(* consecutive rows (pc and fp of each), in a memory of which every cell has a *)
(* value.                                                                      *)
RowHolds(memory, ins, row, next) ==
    LET value(x) == ReadValue(memory, row.fp, x)
        falls == next = [pc |-> row.pc + 1, fp |-> row.fp]
    IN  CASE ins.op \in {"add", "mul"} ->
                falls /\ value(ins.res) = Compute(ins.op, value(ins.a), value(ins.c))
          [] ins.op = "deref" ->
                falls /\ memory[(memory[row.fp + ins.shift0] + ins.shift1) % P] = value(ins.res)
          [] ins.op = "jump" ->
                \/ value(ins.condition) = 0 /\ falls
                \/ /\ value(ins.condition) = 1
                   /\ next = [pc |-> value(ins.dest), fp |-> value(ins.updatedFp)]

(* The addresses the row looks up in the memory. *)
RowAddresses(memory, ins, row) ==
    LET cells(xs) == {(row.fp + x.n) % P : x \in {x \in xs : x.kind = "mem"}}
    IN  CASE ins.op \in {"add", "mul"} -> cells({ins.a, ins.c, ins.res})
          [] ins.op = "deref" ->
                cells({Mem(ins.shift0), ins.res})
                \cup {(memory[(row.fp + ins.shift0) % P] + ins.shift1) % P}
          [] ins.op = "jump" -> cells({ins.condition, ins.dest, ins.updatedFp})

=============================================================================
