---------------------------- MODULE RunnerProofs ----------------------------
(***************************************************************************)
(* The memory of the VM is write-once, whatever the program, the witness,  *)
(* the interleaving of the segments and the order of the merges.           *)
(***************************************************************************)
EXTENDS Runner, TLAPS

Keeps == \A a \in DOMAIN mem : a \in DOMAIN mem' /\ mem'[a] = mem[a]

(* Memory::set never changes a defined cell. *)
LEMMA SetCellsKeeps ==
    ASSUME NEW writes, NEW least, SetCells(writes, least)
    PROVE  Keeps
<1>1. Settable(writes) /\ mem' = WithCells(mem, writes)
  BY DEF SetCells
<1>2. SUFFICES ASSUME NEW a \in DOMAIN mem
      PROVE  a \in DOMAIN mem' /\ mem'[a] = mem[a]
  BY DEF Keeps
<1>3. CASE a \notin Addresses(writes)
  BY <1>1, <1>3 DEF WithCells
<1>4. CASE a \in Addresses(writes)
  <2> DEFINE w == CHOOSE w \in writes : w[1] = a
  <2>1. w \in writes /\ w[1] = a
    BY <1>4 DEF Addresses
  <2>2. mem[a] = w[2]
    BY <1>1, <2>1 DEF Settable, SettableIn
  <2>3. a \in DOMAIN mem' /\ mem'[a] = w[2]
    BY <1>1, <1>4 DEF WithCells
  <2>4. QED
    BY <2>2, <2>3
<1>5. QED
  BY <1>3, <1>4

(* A step that leaves `mem` alone. *)
LEMMA UnchangedKeeps == ASSUME UNCHANGED memory PROVE Keeps
BY DEF memory, Keeps

(* The error exit of a runner. *)
LEMMA FailureKeeps == ASSUME NEW i, FailRunner(i) PROVE Keeps
BY UnchangedKeeps DEF FailRunner

(* A hint or an instruction of any runner, and the other steps of run_loop. *)
LEMMA RunnerStepKeeps == ASSUME NEW i, RunnerStep(i) PROVE Keeps
<1>1. ASSUME NEW writes, NEW next, Commit(i, writes, next) PROVE Keeps
  BY <1>1, SetCellsKeeps DEF Commit
<1>2. CASE ExecuteHint(i)
  BY <1>1, <1>2, FailureKeeps DEF ExecuteHint
<1>3. CASE StartBatch(i)
  BY <1>3, UnchangedKeeps DEF StartBatch
<1>4. CASE ExecuteInstruction(i)
  BY <1>1, <1>4, FailureKeeps DEF ExecuteInstruction
<1>5. CASE LeaveCode(i)
  BY <1>5, FailureKeeps DEF LeaveCode
<1>6. CASE Halt(i)
  BY <1>6, UnchangedKeeps DEF Halt
<1>7. QED
  BY <1>2, <1>3, <1>4, <1>5, <1>6 DEF RunnerStep

(* The launch of the segments, and the merge of what they deferred. *)
LEMMA BatchStepKeeps == ASSUME BatchStep PROVE Keeps
<1>1. CASE SkipBatch
  BY <1>1, UnchangedKeeps DEF SkipBatch
<1>2. CASE LaunchSegments
  BY <1>2, SetCellsKeeps DEF LaunchSegments
<1>3. CASE FailBatch
  BY <1>3, UnchangedKeeps DEF FailBatch
<1>4. CASE MergeSegments
  BY <1>4, SetCellsKeeps DEF MergeSegments
<1>5. CASE FailMerge
  BY <1>5, UnchangedKeeps DEF FailMerge
<1>6. QED
  BY <1>1, <1>2, <1>3, <1>4, <1>5 DEF BatchStep

(* The passes of resolve_deref_hints, and the zeros it fills in. *)
LEMMA ResolveStepKeeps == ASSUME ResolveStep PROVE Keeps
<1>1. CASE ResolveHint
  BY <1>1, SetCellsKeeps, UnchangedKeeps DEF ResolveHint
<1>2. CASE ResolveAgain
  BY <1>2, UnchangedKeeps DEF ResolveAgain
<1>3. CASE FinishRun
  BY <1>3, SetCellsKeeps, UnchangedKeeps DEF FinishRun
<1>4. QED
  BY <1>1, <1>2, <1>3 DEF ResolveStep

(* No step of the runner changes a defined cell of the memory.                 *)
THEOREM MemoryWriteOnce == Spec => MemoryIsWriteOnce
<1>1. ASSUME [Next]_vars PROVE Keeps
  <2>1. CASE UNCHANGED vars
    BY <2>1, UnchangedKeeps DEF vars
  <2>2. CASE Over
    BY <2>2, UnchangedKeeps DEF Over, vars
  <2>3. QED
    BY <1>1, <2>1, <2>2, RunnerStepKeeps, BatchStepKeeps, ResolveStepKeeps DEF Next
<1>2. [Next]_vars => [\A a \in DOMAIN mem : a \in DOMAIN mem' /\ mem'[a] = mem[a]]_vars
  BY <1>1 DEF Keeps
<1>3. QED
  BY <1>2, PTL DEF Spec, MemoryIsWriteOnce

=============================================================================
