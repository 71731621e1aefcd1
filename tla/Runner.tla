------------------------------- MODULE Runner -------------------------------
(***************************************************************************)
(* The VM's runner (crates/lean_vm/src/execution/runner.rs) and its        *)
(* memory.  The main runner, number 0, executes the bytecode hint by hint  *)
(* and instruction by instruction.  At the ParallelBatchStart of a loop it *)
(* records a batch; when its first iteration comes back to the head of the *)
(* loop, the other iterations run as segments 1, 2, ..., at once, on       *)
(* rayon's threads.  A segment reads what was defined before the batch and *)
(* its own slice of the memory, writes its slice, and defers every other   *)
(* write; the deferred writes are applied when all segments have come back.*)
(* At the end the pending deref hints are resolved.                        *)
(*                                                                         *)
(* The memory is write-once: `mem` holds the cells that are defined, and   *)
(* `size` is the length of the vector.                                     *)
(***************************************************************************)
EXTENDS Vm, SequencesExt

CONSTANTS
    Programs,    \* the bytecodes: [code |-> ..., endingPc |-> ..., startingFrame |-> ...]
    Witnesses,   \* the witnesses: the entries of each named hint
    PublicMemory, \* the public input, padded to a power of two
    InitialFp,   \* the first frame pointer after the public and preamble memory
    MaxMemory,   \* 1 << MAX_LOG_MEMORY_SIZE
    NoBatch      \* parallel_batch = None

ASSUME MemoryAssumption ==
    /\ PublicMemory \in Seq(F)
    /\ Len(PublicMemory) <= InitialFp
    /\ InitialFp \in Nat
    /\ MaxMemory \in Nat

VARIABLES
    program,  \* the bytecode that runs
    entries,  \* the witness it runs with
    mem,      \* the defined cells of the memory
    size,     \* memory.0.len()
    cpu,      \* the registers, cursors and trace of each runner
    batch,    \* parallel_batch
    mode,     \* what the main thread is doing
    resolver  \* the pass of resolve_deref_hints

code == program.code
bytecode == <<program, entries>>
memory == <<mem, size>>
vars == <<cpu, mode, resolver, batch, memory, bytecode>>

NoPass == [next |-> 1, resolved |-> {}, progress |-> FALSE]

(* The state a runner starts in at a pc, with nothing executed yet. *)
NewCpu(pc, fp, ap, cursor) ==
    [pc |-> pc, fp |-> fp, ap |-> ap, hint |-> 1, cursor |-> cursor,
     trace |-> <<>>, pending |-> <<>>, deferred |-> {}, state |-> "running"]

Init ==
    /\ program \in Programs
    /\ entries \in Witnesses
    /\ mem = [a \in 0..Len(PublicMemory) - 1 |-> PublicMemory[a + 1]]
    /\ size = Len(PublicMemory)
    /\ cpu = [i \in {0} |-> NewCpu(0, InitialFp, InitialFp + program.startingFrame,
                                   [name \in DOMAIN entries |-> 0])]
    /\ batch = NoBatch
    /\ mode = "run"
    /\ resolver = NoPass

-----------------------------------------------------------------------------
(* Memory. *)

(* The segments own consecutive slices after the frame of iteration 0. *)
Segments == DOMAIN cpu \ {0}
Stride == cpu[0].fp - batch.fp
SplitAt == batch.fp + Stride
SegmentStart(i) == SplitAt + (i - 1) * Stride

Owns(i, a) == i = 0 \/ a \in SegmentStart(i)..SegmentStart(i) + Stride - 1

View(i) == IF i = 0 THEN mem ELSE Restrict(mem, {a \in DOMAIN mem : Owns(i, a) \/ a < SplitAt})

Addresses(writes) == {w[1] : w \in writes}

(* A faulty SettableIn: a set that overwrites. *)
Overwritable(m, n, writes) ==
    \A w \in writes : w[1] < n \/ w[1] < MaxMemory

(* Memory::set, in a memory m of length n, accepts a write to an unset cell,  *)
(* or of the value that is already there, below the bound on the memory.      *)
SettableIn(m, n, writes) ==
    /\ \A w \in writes : w[1] \in DOMAIN m => m[w[1]] = w[2]
    /\ \A w \in writes : w[1] < n \/ w[1] < MaxMemory
    /\ \A v, w \in writes : v[1] = w[1] => v = w

WithCells(m, writes) ==
    [a \in DOMAIN m \cup Addresses(writes) |->
        IF a \in Addresses(writes) THEN (CHOOSE w \in writes : w[1] = a)[2] ELSE m[a]]

(* A faulty Grown: the vector is not resized. *)
NotGrown(n, writes) == n

(* The length of a vector of length n after the writes. *)
Grown(n, writes) == Max({n} \cup {a + 1 : a \in Addresses(writes)})

Settable(writes) == SettableIn(mem, size, writes)

(* The writes are made, and the memory is at least `least` cells long. *)
SetCells(writes, least) ==
    /\ Settable(writes)
    /\ mem' = WithCells(mem, writes)
    /\ size' = Max({least, Grown(size, writes)})

-----------------------------------------------------------------------------
(* run_loop, of the main runner and of the segments. *)

Active(i) ==
    \/ i = 0 /\ mode = "run"
    \/ i # 0 /\ mode = "segments" /\ cpu[i].state = "running"

AtEnd(i) == cpu[i].pc = program.endingPc
InBounds(i) == cpu[i].pc \in DOMAIN code
Entry(i) == code[cpu[i].pc]
HintsDone(i) == cpu[i].hint > Len(Entry(i).hints)

(* The error of a runner: the main loop stops with it, a segment keeps it     *)
(* until the batch is merged.                                                 *)
FailRunner(i) ==
    /\ IF i = 0
       THEN mode' = "error" /\ UNCHANGED cpu
       ELSE cpu' = [cpu EXCEPT ![i].state = "failed"] /\ UNCHANGED mode
    /\ UNCHANGED <<bytecode, memory, batch, resolver>>

(* Runner i writes the cells it owns and defers the others. *)
OwnWrites(i, writes) == {w \in writes : Owns(i, w[1])}

Commit(i, writes, next) ==
    /\ \E own \in {OwnWrites(i, writes)} :
          /\ SetCells(own, size)
          /\ cpu' = [cpu EXCEPT ![i] = [next EXCEPT !.deferred = @ \cup (writes \ own)]]
    /\ UNCHANGED bytecode

(* One hint of the entry at pc. *)
ExecuteHint(i) ==
    /\ Active(i) /\ ~AtEnd(i) /\ InBounds(i) /\ ~HintsDone(i)
    /\ Entry(i).hints[cpu[i].hint].kind # "parallelBatchStart"
    /\ \E view \in {View(i)} : \E o \in {HintOutcome(view, cpu[i], Entry(i).hints[cpu[i].hint], entries)} :
          \/ /\ o.ok
             /\ Commit(i, o.writes, [o.cpu EXCEPT !.hint = @ + 1])
             /\ UNCHANGED <<batch, mode, resolver>>
          \/ /\ ~(o.ok /\ Settable(OwnWrites(i, o.writes)))
             /\ FailRunner(i)

(* ParallelBatchStart: recorded if no batch is pending.  A segment keeps a     *)
(* batch of its own, which its stop_pc makes pointless.                        *)
StartBatch(i) ==
    /\ Active(i) /\ ~AtEnd(i) /\ InBounds(i) /\ ~HintsDone(i)
    /\ LET h == Entry(i).hints[cpu[i].hint]
       IN  /\ h.kind = "parallelBatchStart"
           /\ batch' = IF i = 0 /\ batch = NoBatch
                       THEN [pc |-> cpu[i].pc, fp |-> cpu[i].fp, frame |-> cpu[i].ap - cpu[i].fp,
                             nArgs |-> h.nArgs, end |-> h.end, cursor |-> cpu[i].cursor]
                       ELSE batch
    /\ cpu' = [cpu EXCEPT ![i].hint = @ + 1]
    /\ UNCHANGED <<bytecode, memory, mode, resolver>>

(* Runner i is back at the head of the loop it runs a batch for. *)
LoopsBack(pc) == batch # NoBatch /\ pc = batch.pc

(* The instruction of the entry at pc, and the checks that end the iteration. *)
ExecuteInstruction(i) ==
    /\ Active(i) /\ ~AtEnd(i) /\ InBounds(i) /\ HintsDone(i)
    /\ \E view \in {View(i)} : \E o \in {InstructionOutcome(view, cpu[i], Entry(i).instruction)} :
          LET row == [pc |-> cpu[i].pc, fp |-> cpu[i].fp]
              state == IF i # 0 /\ LoopsBack(o.cpu.pc) THEN "looped" ELSE "running"
          IN  \/ /\ o.ok
                 /\ Commit(i, o.writes, [o.cpu EXCEPT !.hint = 1, !.trace = Append(@, row), !.state = state])
                 /\ mode' = IF i = 0 /\ LoopsBack(o.cpu.pc) THEN "batch" ELSE mode
                 /\ UNCHANGED <<batch, resolver>>
              \/ /\ ~(o.ok /\ Settable(OwnWrites(i, o.writes)))
                 /\ FailRunner(i)

(* PCOutOfBounds. *)
LeaveCode(i) == Active(i) /\ ~AtEnd(i) /\ ~InBounds(i) /\ FailRunner(i)

(* The runner reaches the ending pc; a segment that does is not an error. *)
Halt(i) ==
    /\ Active(i) /\ AtEnd(i)
    /\ IF i = 0
       THEN mode' = "resolve" /\ UNCHANGED cpu
       ELSE cpu' = [cpu EXCEPT ![i].state = "looped"] /\ UNCHANGED mode
    /\ UNCHANGED <<bytecode, memory, batch, resolver>>

-----------------------------------------------------------------------------
(* handle_parallel_batch. *)

BatchStart == mem[batch.fp + 2]
BatchEnd == ReadValue(mem, batch.fp, batch.end)
Iterations == BatchEnd - BatchStart
Consumed(name) == cpu[0].cursor[name] - batch.cursor[name]

(* What handle_parallel_batch reads: the bounds of the loop; then its other     *)
(* arguments, and what the tail call wrote at the head of the second frame.    *)
BoundsReadable == batch.fp + 2 \in DOMAIN mem /\ Known(mem, batch.fp, batch.end)

FrameReadable ==
    {cpu[0].fp, cpu[0].fp + 1} \cup {batch.fp + 2 + k : k \in 0..batch.nArgs - 1} \subseteq DOMAIN mem

(* write_call_frame for iteration n: return pc, saved fp, iterator, arguments. *)
CallFrame(n) ==
    LET fp == batch.fp + n * Stride
    IN  {<<fp, mem[cpu[0].fp]>>, <<fp + 1, mem[cpu[0].fp + 1]>>, <<fp + 2, BatchStart + n>>}
        \cup {<<fp + 2 + k, mem[batch.fp + 2 + k]>> : k \in 1..batch.nArgs - 1}

CallFrames == UNION {CallFrame(n) : n \in 1..Iterations}

(* A faulty SegmentCpu: every segment starts at the cursors of the first. *)
SameHintsSegmentCpu(i) ==
    LET fp == batch.fp + i * Stride
    IN  NewCpu(batch.pc, fp, fp + batch.frame, cpu[0].cursor)

(* The runner of segment i, which executes iteration i. *)
SegmentCpu(i) ==
    LET fp == batch.fp + i * Stride
    IN  NewCpu(batch.pc, fp, fp + batch.frame,
               [name \in DOMAIN entries |-> cpu[0].cursor[name] + (i - 1) * Consumed(name)])

(* A loop of one iteration: nothing is left to run. *)
SkipBatch ==
    /\ mode = "batch"
    /\ BoundsReadable
    /\ Iterations = 1
    /\ batch' = NoBatch
    /\ mode' = "run"
    /\ UNCHANGED <<bytecode, memory, cpu, resolver>>

LaunchSegments ==
    /\ mode = "batch"
    /\ BoundsReadable
    /\ Iterations > 1
    /\ FrameReadable
    /\ \E frames \in {CallFrames} : SetCells(frames, batch.fp + (Iterations + 1) * Stride)
    /\ cpu' = [i \in 0..Iterations - 1 |-> IF i = 0 THEN cpu[0] ELSE SegmentCpu(i)]
    /\ mode' = "segments"
    /\ UNCHANGED <<bytecode, batch, resolver>>

(* An argument that is not defined, a call frame that conflicts, or a number   *)
(* of iterations for which n_iters or n_par underflows.                        *)
FailBatch ==
    /\ mode = "batch"
    /\ \/ ~BoundsReadable
       \/ Iterations < 1
       \/ Iterations > 1 /\ ~(FrameReadable /\ Settable(CallFrames))
    /\ mode' = "error"
    /\ UNCHANGED <<bytecode, memory, cpu, batch, resolver>>

SegmentsDone == mode = "segments" /\ \A i \in Segments : cpu[i].state # "running"
SegmentsSucceeded == \A i \in Segments : cpu[i].state = "looped"
DeferredWrites == UNION {cpu[i].deferred : i \in Segments}

(* The main runner after the batch: the traces in the order of the iterations, *)
(* the cursors past every iteration, the registers at the last frame.          *)
MergedCpu ==
    LET n == Cardinality(Segments)
        fp == batch.fp + (n + 1) * Stride
        all(field(_)) == FlattenSeq([i \in 1..n + 1 |-> field(cpu[i - 1])])
    IN  [cpu[0] EXCEPT
            !.pc = batch.pc,
            !.fp = fp,
            !.ap = fp + batch.frame,
            !.cursor = [name \in DOMAIN entries |-> @[name] + n * Consumed(name)],
            !.trace = all(LAMBDA c : c.trace),
            !.pending = all(LAMBDA c : c.pending)]

MergeSegments ==
    /\ SegmentsDone /\ SegmentsSucceeded
    /\ \E writes \in {DeferredWrites} : SetCells(writes, size)
    /\ cpu' = [i \in {0} |-> MergedCpu]
    /\ batch' = NoBatch
    /\ mode' = "run"
    /\ UNCHANGED <<bytecode, resolver>>

(* ParallelSegmentFailed, or two writes that conflict. *)
FailMerge ==
    /\ SegmentsDone
    /\ ~(SegmentsSucceeded /\ Settable(DeferredWrites))
    /\ mode' = "error"
    /\ UNCHANGED <<bytecode, memory, cpu, batch, resolver>>

-----------------------------------------------------------------------------
(* resolve_deref_hints, and the end of the execution. *)

Pending == cpu[0].pending
PassOver == resolver.next > Len(Pending)

(* A faulty NothingLeft: one pass is enough. *)
OnePassDone == PassOver

(* A pass over the hints resolved none of them. *)
NothingLeft == PassOver /\ ~resolver.progress

(* assert_all_hint_entries_consumed. *)
AllConsumed == \A name \in DOMAIN entries : cpu[0].cursor[name] = Len(entries[name])

(* One constraint m[target] = m[m[src]] of a pass: already resolved, not        *)
(* resolvable yet, or resolved now.                                            *)
ResolveHint ==
    /\ mode = "resolve"
    /\ ~PassOver
    /\ LET p == Pending[resolver.next]
           resolvable == p.src \in DOMAIN mem /\ mem[p.src] \in DOMAIN mem
           write == {<<p.target, mem[mem[p.src]]>>}
       IN  \/ /\ p.target \in resolver.resolved \/ (p.src \in DOMAIN mem /\ ~resolvable)
              /\ resolver' = [resolver EXCEPT !.next = @ + 1]
              /\ UNCHANGED <<memory, mode>>
           \/ /\ p.target \notin resolver.resolved
              /\ resolvable
              /\ SetCells(write, size)
              /\ resolver' = [next |-> resolver.next + 1, progress |-> TRUE,
                              resolved |-> resolver.resolved \cup {p.target}]
              /\ UNCHANGED mode
           \/ /\ p.target \notin resolver.resolved
              /\ p.src \notin DOMAIN mem \/ (resolvable /\ ~Settable(write))
              /\ mode' = "error"
              /\ UNCHANGED <<memory, resolver>>
    /\ UNCHANGED <<bytecode, cpu, batch>>

(* A faulty ResolveAgain: `made_progress` outlives the pass. *)
ResolveForever ==
    /\ mode = "resolve"
    /\ PassOver
    /\ resolver.progress
    /\ resolver' = [resolver EXCEPT !.next = 1]
    /\ UNCHANGED <<bytecode, memory, cpu, batch, mode>>

ResolveAgain ==
    /\ mode = "resolve"
    /\ PassOver
    /\ resolver.progress
    /\ resolver' = [resolver EXCEPT !.next = 1, !.progress = FALSE]
    /\ UNCHANGED <<bytecode, memory, cpu, batch, mode>>

(* The targets of cycles, and of addresses never written, are filled with 0;  *)
(* the hints must all be consumed, and the last pc joins the trace.           *)
FinishRun ==
    /\ mode = "resolve"
    /\ NothingLeft
    /\ LET left == {Pending[k].target : k \in 1..Len(Pending)} \ resolver.resolved
           zeros == {<<a, 0>> : a \in left}
           row == [pc |-> cpu[0].pc, fp |-> cpu[0].fp]
       IN  IF Settable(zeros) /\ AllConsumed
           THEN /\ SetCells(zeros, size)
                /\ cpu' = [cpu EXCEPT ![0].trace = Append(@, row)]
                /\ mode' = "halted"
           ELSE mode' = "error" /\ UNCHANGED <<memory, cpu>>
    /\ UNCHANGED <<bytecode, batch, resolver>>

(* The run is over. *)
Over == mode \in {"halted", "error"} /\ UNCHANGED vars

-----------------------------------------------------------------------------

RunnerStep(i) ==
    ExecuteHint(i) \/ StartBatch(i) \/ ExecuteInstruction(i) \/ LeaveCode(i) \/ Halt(i)

BatchStep == SkipBatch \/ LaunchSegments \/ FailBatch \/ MergeSegments \/ FailMerge

ResolveStep == ResolveHint \/ ResolveAgain \/ FinishRun

Next ==
    \/ \E i \in DOMAIN cpu : RunnerStep(i)
    \/ BatchStep
    \/ ResolveStep
    \/ Over

Spec == Init /\ [][Next]_vars

-----------------------------------------------------------------------------
(* Properties *)

Row == [pc : Nat, fp : Nat]
DerefHint == [target : Nat, src : Nat]

CpuType ==
    [pc : Nat, fp : Nat, ap : Nat, hint : Nat \ {0},
     cursor : [DOMAIN entries -> Nat], trace : Seq(Row), pending : Seq(DerefHint),
     deferred : SUBSET (Nat \X F), state : {"running", "looped", "failed"}]

(* The memory of the VM is read-only once written: no instruction, segment,    *)
(* merge or deref hint ever changes the value of a defined cell.               *)
MemoryIsWriteOnce ==
    [][\A a \in DOMAIN mem : a \in DOMAIN mem' /\ mem'[a] = mem[a]]_vars

=============================================================================
