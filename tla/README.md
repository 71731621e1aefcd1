# A verification project for leanMultisig

leanMultisig is a minimal zkVM and, on top of it, the aggregation of hash-based
(XMSS) signatures: a Python-like language (zkDSL) is compiled to a bytecode of
four instructions, a runner executes it with a witness, the prover turns the
run into an execution trace and proves it (GKR/logup, AIR sumcheck, WHIR), and
programs written in the language verify XMSS signatures and earlier proofs.

This directory holds TLA+ modules translated from the source, TLC
configurations that check them on small instances, and proofs checked by TLAPS.
Paths below are relative to the repository; `runner.rs` alone is
`crates/lean_vm/src/execution/runner.rs`, `zk-alloc` is
`crates/backend/zk-alloc/src/lib.rs`. `PROJECT.json` maps every definition that
models code to the lines it models, and lists the hazards of the code at their
lines, with the properties that would catch them going wrong.

## 1. The system

| Component | State it keeps | Operations | What makes it correct |
|---|---|---|---|
| `zk-alloc` arena | GENERATION, ARENA_ACTIVE, THREAD_IDX, per-thread cursor, slab and generation | begin_phase, end_phase, alloc, realloc, dealloc | no address handed out twice in a phase; slabs not shared; the arena is used while it is on |
| `system-info` flush_rayon | rayon's job queue (external) | 256 joins | no queue block stays in arena memory when the next phase starts |
| Compiler (`lean_compiler`) | scopes, frames, labels | parse, simplify, compile, encode | the bytecode accepts what the program accepts, and nothing else |
| VM runner (`lean_vm/execution`) | write-once memory, pc/fp/ap, hint cursors, trace, pending deref hints, a parallel batch | run_loop, handle_parallel_batch, resolve_deref_hints | a parallel run equals the sequential run; the memory is write-once; the run ends |
| VM instructions and hints (`lean_vm/isa`) | none | execute_instruction, execute_hint | what they write satisfies the execution table |
| Tables and precompiles (`lean_vm/tables`) | a row per call | poseidon16, extension_op | trace rows satisfy the AIR and the bus |
| Trace generation (`lean_prover/trace_gen.rs`) | columns, padded memory | get_execution_trace, pad_table | a run that halts is provable |
| Prover and verifier (`lean_prover`) | the transcript | prove_execution, verify_execution | both read and write the same transcript; the header's dimensions are checked |
| Fiat-Shamir (`backend/fiat-shamir`, `fiat_shamir.py`) | sponge, transcript, offset | observe, sample, grind, hints | prover, verifier and guest derive the same challenges |
| Merkle pruning (`fiat-shamir/merkle_pruning.rs`) | none | prune, restore | restore(prune(paths)) = paths; a malformed pruned tree is refused |
| Symmetric primitives (`backend/symetric`, Poseidon) | sponge state | compress, hash, permute | a row hashed short is the row hashed whole; the three forms of the permutation agree |
| Stacked PCS, logup, quotient GKR, AIR sumcheck (`sub_protocols`) | claims | prove_*, verify_* | offsets of the stacked columns are aligned and disjoint; prover's and verifier's claims agree |
| WHIR (`crates/whir`) | rounds, commitments | commit, open, verify | folding schedule, query counts |
| Field arithmetic (`backend/field, koala-bear`) | none | scalar, AVX2, AVX-512 and NEON operations, the quintic extension | every backend gives the canonical word of the same result |
| Polynomials, sumcheck, AIR (`backend/poly, sumcheck, air`) | none | evaluation, folding | algebraic identities |
| XMSS (`crates/xmss`) | secret key, signer cache | keygen, sign, verify | what is signed verifies; what verifies was signed |
| Aggregation (`crates/rec_aggregation`, `main.py`) | bytecode claims, signer lists | aggregate, merge, split, verify | a proof names exactly signers that signed |

How they interact: the compiler produces a bytecode; the runner executes it,
calling rayon for the segments of a parallel loop; `prove_execution` calls the
runner, then trace generation, then the sub-protocols, which all share one
transcript; the aggregation programs are compiled once, run with hints built by
the Rust side from signatures and child proofs, and their proofs are fed to the
next aggregation. The whole of a proof runs between `begin_phase` and
`end_phase` of the arena, on every rayon thread.

What is hard to test: the Relaxed loads of the arena and storage that outlives
a phase; the interleaving of the segments of a parallel loop, what a segment
can and cannot see, and the merge of deferred writes; deref hints that depend
on each other; passes of the compiler that each assume what earlier ones left
and whose bugs show only as a missing constraint; boundary sizes in the padding
of the memory and of the tables; transcript discipline between three readers;
merging aggregates with overlapping signers and hints nobody vouches for; the
overflow corners of packed arithmetic.

## 2. Modules and plan

| Part | Modules | Runs | Proofs |
|---|---|---|---|
| arena (§3) | ZkAlloc, RayonFlush | zk_alloc, zk_alloc_stale, rayon_flush | ZkAllocProofs |
| compiler and VM (§4) | Zkdsl, CompileTime, Simplify, PostOptimize, Intermediate, Compiler, MCCompiler; Vm, Runner, RunnerReference, MCRunner | compiler, compiler_dropped, runner_two_calls, runner_lookups | RunnerProofs |
| query phase (§5) | MerklePaths, PowGrinding, QueryPhase, MCQueryPhase | query_phase | QueryPhaseProofs |
| transcript and layout (§6, §7) | Transcript, Interaction, ProofLayout, MCProofLayout, MCProofExchange | proof_exchange, memory_boundary | TranscriptProofs, ProofLayoutProofs |
| signatures (§8) | Xmss, Aggregation, Signatures, MCSignatures | signatures | XmssProofs, SignaturesProofs |
| arithmetic (§9) | FieldWords, Avx2Words, Avx512Words, NeonWords, PackedField, Quintic, Poseidon1, MCArithmetic | arithmetic | none |

`NumberFacts` holds the lemmas about numbers, powers of two and finite sets that
four of the proof modules share.

A module with a theorem, and every module under it, uses recursive functions and
folds only. RECURSIVE operators are confined to the compiler's passes, the
meaning of the language and the sequential reference of the runner.

Composition: `RayonFlush` extends `ZkAlloc`; `Compiler` extends the passes and
`Runner` (a compiled program is loaded and run); `QueryPhase` is the proof of
work followed by the openings; `MCProofExchange` puts `Transcript` beside
`ProofLayout`; `Signatures` joins `Xmss` and `Aggregation`; `MCArithmetic` joins
the register, the extension and the permutation.

Abstract specifications: `Interaction` (one conversation heard by several
readers), which `Transcript` implements; the meaning of a source program in
`Zkdsl`, which the bytecode must have; the sequential run of
`RunnerReference`; the schoolbook product, the textbook rounds and the integers
modulo P that the forms of `Quintic`, `Poseidon1` and `FieldWords` are compared with.

What is left, in order:

1. proofs: the correctness of the Montgomery operations for every word size;
   that issued signatures verify; type correctness of `Runner`;
2. modelling: `recursion.py`'s copy of the layout as a third side of
   `ProofLayout`; the rows of the precompile tables and the multiplicities of
   the logup bus; the AIR sumcheck that tables of different heights join late;
   the WHIR folding schedule.

## 3. The arena: ZkAlloc, RayonFlush

`ZkAlloc` has the three statics and the five thread-locals of the code as
variables. `alloc` is three steps, one per atomic load (`LoadActive`;
`HotBump`/`HotMiss`; `ColdSystem`/`ColdNoSlab`/`ColdReset`), because another
thread may run begin_phase between them. The loads are Relaxed: a load returns
any value of the modification order that is not older than what the thread saw
before (`seenGen`, `seenActive`). A job that rayon hands to a worker
synchronises it with the main thread (`StartJob`), nothing else does.
`live` is the set of arena blocks handed out and not dropped, and each block
remembers whether its owner was synchronised when it got it. BeginPhase empties
`live`: by the contract of the crate no block is used after the next begin_phase.

`RayonFlush` adds the tail block of rayon's queue, allocated through the arena
when a push fills the previous block, and `flush_rayon`. Rayon is external.

| Run | Checks | Instance |
|---|---|---|
| `zk_alloc` | TypeOK, SyncedBlocksDisjoint, SlabsPartitioned, ArenaUsedWhileActive | two threads, two phases, slabs of two cells, sizes and alignments 1 and 2 |
| `zk_alloc_stale` | StaleLoadsAreHarmless, violated | finding 1 |
| `rayon_flush` | QueueBlockOwnsItsMemory, NoArenaStorageAcrossPhases | queue blocks of two slots, three flush jobs, one slab for two threads |

Bounds. `MaxGeneration` bounds the phases: two are needed for anything to be
overwritten. Slabs of two cells make every request either fit exactly, fit
after alignment, or overflow. Two threads suffice for the claim and the reset
races because threads interact only through the three statics; one slab for two
threads, in `rayon_flush`, exercises NO_SLAB. `FlushJobs` is `BlockCap + 1`, the
smallest number the comment on RAYON_FLUSH_JOBS asks for (256 against 63 in the
code). These runs disable the deadlock check: the exploration ends when the
last phase has ended and all threads rest. The properties are proved for every
value of these constants (§11).

## 4. Compiler and VM

### The virtual machine: Vm, Runner, RunnerReference

`Vm` says what an instruction or a hint writes and where it leaves the
registers, given a *view*: the cells that are defined and visible to the runner
that executes it. The same operators serve the main runner, the segments and
the sequential reference. A hint entry is one value; precompiles and diagnostic
hints are left out.

`Runner` is `run_loop`, `handle_parallel_batch` and `resolve_deref_hints`. One
action is one hint or one instruction of one runner, so segments interleave at
every step. `mem` is the set of defined cells with their values and `size` the
length of the vector; a segment `i` sees what lies below `split_at` and its own
slice, writes its slice, and keeps other writes in `deferred`. Failures are
modelled where the code returns an error or panics: the main runner stops in
mode "error", a segment fails alone and the merge reports it.

`RunnerReference` defines the sequential run as a recursive function of the
program and the witness, for `ParallelRunsLikeRange`, and at its end what the
prover builds from a run that halted: the committed memory and the rows.

### The compiler: Zkdsl to Compiler

`Zkdsl` is the syntax of the language after parsing and what a program means
when it is run as the Python it also is. Each pass is an operator from what the
pass before it gave: `CompileTime` (check_scoping; constants, inlined and
specialised functions, unrolled loops, match_range; validate_vectors; loops that
change mutable variables), `Simplify` (one operation a line, one variable for
each version of a mutable one, loops as recursive functions), `PostOptimize`
(propagate_copies), `Intermediate` (a cell of the frame for every variable,
blocks and labels; then labels and sizes resolved, match arms padded).
A pass refuses a program ("error") or panics where the code does, assertions and
`unreachable!` included.

`Compiler` takes a source through the passes one step at a time, loads the
bytecode and runs it on `Runner` with a witness. `Passes` is what the passes give
of each source, a constant-level function that TLC evaluates once; the action
`Pass` goes from one pass to the next in it.

`MCCompiler` holds 47 programs: 29, one for each thing the language has and the
compiler treats apart, that compile; 5 that the compiler refuses; 13 that it
does not treat as their text asks. Most read two hinted values and assert that
what they compute from the first is the second, and run with witnesses they
accept and witnesses they refuse.

The compiler is not right about every program, and the properties say about
which it is not. `OnlyKnownProgramsAreMiscompiled` asks that a witness runs to the
end of the bytecode exactly when the program returns with it, unless the source
has one of five shapes, which are predicates on its text: `ChecksTwoResults`
(finding 5), `OverwritesAConstant`, `MovesAnIndex`, `AssignsInALoop`,
`RepeatsAResult`. `RewritesPreserveMeaning` is the same of the passes on the syntax,
with `OverwritesAConstant` as its one exception. `PassesFitTogether` has two halves.
`EveryReadIsAssigned` is about what the middle passes hand on: a function of simple lines, straight from `Simplify`
or optimised, reads a variable only after something assigned it, on every path
and in the scope where it stands; what a later pass does with a variable that
fails this is a panic ("not in scope") or a cell that nothing constrains.
`OnlyKnownProgramsPanic` says that a program whose names are in scope, and which
some witness takes to its end, panics no pass but for four shapes:
`LooksOutside`, `ReadsInTwoBranches`, `RebindsAConstant`, `OrdersInACondition`. Each
shape is that of a program of the run, so dropping any one of them makes TLC
find a violation, and no program among the other 34 has any of them; §10
says what the code does with each.

`MCRunner` assembles by hand bytecodes the way the compiler lays out a
`parallel_range` loop (recursive function, return address reused by the tail
call, `IfNotZero` with its inverse hint, range check with its two deref
hints), a call of the loop from main, a second call, and a match.

| Run | Checks | Instance |
|---|---|---|
| `compiler` | CompilerTypeOK, OnlyKnownProgramsAreMiscompiled, RewritesPreserveMeaning, PassesFitTogether, AllocatedBeforeWritten, ParallelRunsLikeRange, TraceIsProvable, EveryRunEnds, MemoryIsWriteOnce | the 47 programs; bytecodes of loops of 0 to 3 iterations with own or shared result cells, of hints that wait for each other, of failing segments |
| `compiler_dropped` | CompiledProgramsMeanTheirSource, violated | finding 5 |
| `runner_two_calls` | ParallelRunsLikeRange, violated | finding 2 |
| `runner_lookups` | LookupsHold, violated | finding 3 |

Bounds. P = 1021 (257 in the two runs of findings) stands for the field: every
address of these programs is below it, so no address wraps. The memory has 128
to 512 cells. The hinted values are chosen to address the public memory, a cell
of the result array, a cell of the frames of the iterations, and a cell nobody
writes, and to lie beyond the bound of the range check. Three iterations are two
segments, which is what it takes for segments to interleave and for deferred
writes to conflict. Programs are small by necessity: a construct nested in a
construct (a loop in a branch, a branch in a loop, a call in either) is there
once for each pair that a pass treats apart, and no deeper.

Fairness. `CompilerSpec` has WF(CompilerNext): as long as some runner can take a
step, one is taken. The code justifies it: the segments are rayon jobs, all
executed before `collect` returns, and the main thread waits only for them. A
weaker assumption than fairness per runner is enough because every runner's own
execution is finite. The specification of `Runner` alone has no fairness.

## 5. The query phase: PowGrinding, MerklePaths, QueryPhase

A round of WHIR ends with a proof of work and the openings it guards.

`PowGrinding` is the search of `pow_grinding` in `prover.rs`: rayon's workers
take batches of candidates in any order, test the lanes of each, and write the
first passing one into a Mutex before they raise the flag; several may do so.
`passing`, the set of witnesses that pass, is any subset of the candidates.

`MerklePaths` builds the digest layers of a matrix over a free compression
function (a digest is the pair of what was compressed, so that two digests are
equal only when their inputs are). `hash_slice` is modelled with its shortcut
for rows that end in zeros, because the prover hashes only the effective columns
and the verifier all of them. Then come `prune` and `restore`:
the sorted indices without repetition, the lowest common ancestors of
neighbours, which sibling is kept, the original order, the trailing zeros cut
off, and every early return of `restore`. `QueryPhase` runs the search, then
opens any sequence of queries on a committed matrix, sends the pruned proof and
restores it.

| Run | Checks | Instance |
|---|---|---|
| `query_phase` | TheMutexHoldsAWitness, FailsOnlyWithoutWitness, Ends, RestoreInvertsPrune, OpeningsVerify, NoDigestTwice | two workers, five candidates, one or two lanes; four leaves, three queries in any order with repetitions, rows of one to six columns that end in zeros at 0, 1 or nowhere |

Bounds. Five candidates with two lanes leave the last batch partly beyond the
field, the case of the real field, whose order is odd. There the assertion of
`prover.rs:142` can be reached by a candidate that is no canonical element; the
model has it as the outcome "panicked". Height 2 is the smallest in which two
paths meet below the root and above the leaves, three queries the fewest for a
path to have a neighbour on each side. The rate is 2, so six columns are three
blocks, and a zero suffix may cover none, part or all of them.

Fairness is weak fairness of every worker's own step and of the collection of
their results: rayon runs every job it has accepted.

A remark without a run: `prune` never sends a digest twice, but it does send
some that the verifier could compute (`merkle_pruning.rs:61` looks at the next
path only); the test at lines 271-275 counts digests for one shape.

## 6. The transcript: Transcript, Interaction

`Transcript` begins with the duplex sponge over a free permutation: its state is
the sequence of blocks absorbed, and whether the rate has been sampled since.
It composes three sides: the prover runs any schedule of the operations
of `ProverState`; the proof arrives whole or without its end;
`VerifierState` runs the counterparts, recomputes the coefficient of a sumcheck
polynomial that is not sent, and records the raw transcript with its padding; the
guest program `fiat_shamir.py` replays that raw transcript chunk by chunk. A
malformed proof other than a truncated one is not enumerated. The extension
field is a parameter, with the laws the protocol rests on as `FieldAssumption`.

`Interaction` is the abstract specification: one party says things and is
challenged, and every reader hears a prefix of the same, in the same order.
`OneInteractionSpec` says that `Transcript` implements it with the verifier and
the guest as readers, by the mapping given at the INSTANCE.

| Run | Checks | Instance |
|---|---|---|
| `proof_exchange` | OnlyWholeProofsAreAccepted, GuestReplaysTheVerifier, GuestNeverRepeatsARate, OneInteractionSpec; and the properties of §7 | schedules of three operations over the integers modulo 3 extended by a square root of -1, a rate of three cells, batches of two openings in a tree of height 1 |

Bounds. Rate 3 and dimension 2 make a polynomial's length no multiple of the rate,
so that padding matters; three operations are enough for anything that depends
on the sponge's `fresh` flag (absorb, sample, sample again) and for a
truncation to fall inside, between and after messages. The theorems of §11 drop
all of these bounds. Only safety is specified: the three sides are sequential
programs and each stops when its input does.

`MCProofExchange` runs this and the layout of §7 in one exploration. The two
share only the numbers sent first, so one proceeds only while the other is
where it starts; no interleaving of them is meant.

## 7. Dimensions and layout: ProofLayout

From what the runner returns (rows of each table, cells of memory) to the
verifier's statements, with the code's own numbers: `GetExecutionTrace` pads,
`SendDimensions` and `RefuseHeights` limit and assert, `StackMemory`,
`StackTable`, `Commit` place every column in the committed polynomial,
`FillMemory`, `FillTable`, `FinishFractions` place every fraction of the lookup
argument in vectors that were allocated uninitialised. The verifier has the
dimensions only: `CheckDimensions` refuses or goes on, `RetrieveMemory`,
`RetrieveTable`, `RetrieveOnes` and `StateMemory`, `StateTable` recompute each
place. A place is a *section*: first cell, log of the length of a column, number
of columns. A selector can name a place only by the high bits of its offset
(`Selected`), which is where alignment comes in. Values are not modelled.

| Run | Checks | Instance |
|---|---|---|
| `proof_exchange` | StackedColumnsFit, FractionsFilled, VerifierFindsEveryColumn, PcIsFixedAtBothEnds, OnlyOversizedProofsAreRefused | runs at every boundary |
| `memory_boundary` | MemoryHoldsTheCycles, violated | finding 4 |

Bounds. Rows and cells are taken on both sides of every step of the padding that
matters: the smallest table, MIN_LOG_MEMORY_SIZE with and without the 24 cells
appended, the largest table and the largest memory; the bytecode is smaller,
equal and larger than the memory's minimum, and over the verifier's maximum; the
rate is the lowest and the highest. What lies between two of these values has
the same powers of two. Each run is one behaviour, without branching: the question is which
dimensions, not which order. The runs end, hence no deadlock check.

Remarks without a run. A runner that fills the whole of MAX_LOG_MEMORY_SIZE gets
24 more cells from `trace_gen.rs:100`, and the verifier refuses the memory of
2^27; the prover never looks at the maximum of the bytecode; a run with more rows
of extension operations than cycles panics, as a TODO in the code says. These
are the exceptions `OnlyOversizedProofsAreRefused` names and the rejections
of the model.

## 8. Signatures: Xmss, Aggregation, Signatures

`Xmss` is one key: generation over a range of slots (the part of the tree it
covers, and the random nodes beside it), signing with drawn randomness until the
encoding is valid, `xmss_verify`, and the guest's own verification in
`xmss_aggregate.py`, which walks the tree four levels at a time and decomposes the
encoding's words from hints. Hashes are free; the words the encoding hash
returns are a constant.

`Aggregation` is type 1 (many signers of one message at one slot) and type 2 (a
bundle of type 1): how Rust builds the statement and the hints
(`aggregate_type_1`, `merge_many_type_1`, the splits, verification and
deserialisation) and what the guest program `main.py` demands of them. A proof
is the statement the guest accepted. Statements are also proved with hints that
Rust does not produce: the guest's checks are what has to hold. Bytecode claims
are the points they are about, reduced or recomputed.

`Signatures` follows one signer from key generation, gathers its signature with
those of others and lets everything circulate.

| Run | Checks | Instance |
|---|---|---|
| `signatures` | IssuedSignaturesVerify, GuestAgreesWithVerify, OnlySignedEncodingsVerify, EverySignerSigned, CirculatingVerify, AggregationIsComplete, SplitRecoversTheComponent | a tree of height 12 (three chunks of four levels), four chains of two-bit digits, ranges of slots at the tree's boundaries; four signers, at most four keys and two duplicates a proof, two children, three multi-signatures in circulation |

Bounds. Ten slots lie on both sides of the boundaries of a chunk, of half the
tree and of the whole; six draws of randomness give encodings of every kind the
code tells apart (valid, wrong sum, a word that is P - 1). Three topics share a
message or a slot pairwise. Two children of two signers each reach the limits of
signers and of duplicates. `MaxHeld`,
`MaxForged` and `MaxForging` bound what circulates; the theorems drop them.

Remarks without a run. TYPE1_TYPE2_LAYOUT.md:3 and `main.py:145-147` differ in
what the digest of a bundle covers. The debug assertion of `hashing.py:94` fails
for exactly MAX_XMSS_AGGREGATED signers. The guest asks for fewer duplicates
than MAX_XMSS_DUPLICATES, Rust for at most as many.

## 9. Arithmetic: FieldWords to MCArithmetic

`FieldWords` is one element of a 31-bit prime field in Montgomery form, as
`monty_31.rs` computes with it: words and double words wrap. `Avx2Words`,
`Avx512Words` and `NeonWords` are the vector forms with the instructions they are
written in; `PackedField` applies each operation in every form to one register
and to the integers modulo P. `Quintic` has the layouts of the product in
F[X] / (X^5 + X^2 - 1) on each machine, its inverse and its Frobenius maps;
`Poseidon1` the three forms of the permutation, round by round. `MCArithmetic` puts
them side by side, one moving at a time.

| Run | Checks | Instance |
|---|---|---|
| `arithmetic` | WordsAreCanonical, QuinticIsTheExtension, FormsAgree | words of seven bits with P = 53, registers of four; every operation from every pattern of operands; a permutation over 113 with four full and three partial rounds |

Bounds. KoalaBear is a prime between a quarter and a half of the word, over
which X^5 + X^2 - 1 is irreducible; so is 53 with words of seven bits. Every
element occurs as an operand, so every carry and every correction happens; 113
has the roots of unity the transform of Poseidon needs. One operation from any operand is as good as
many, because the result is again a canonical word, which is what is checked.

## 10. Findings

1. `zk_alloc_stale` (divergence): a thread that reads an old GENERATION does not
   do "one extra system-alloc"; it bumps its old cursor, then resets, and hands
   out the same addresses twice in one phase.
2. `runner_two_calls` (bug): a parallel loop that is executed a second time
   finds a stale batch with zero iterations and `n_iters - 1` underflows. The
   model takes the outcome of a build with overflow checks; without them
   `n_par` wraps and every chunk behind the frame is run as a segment.
3. `runner_lookups` (bug): the hash of zero is written over cells that deref
   hints took to be zero.
4. `memory_boundary` (bug): the memory is padded to the number of cycles, the
   execution table to one row more; a run of exactly 2^16 cycles with a small
   memory trips an assertion that means to compare the two.
5. `compiler_dropped` (bug): `assert a * b == c + d` is fused into the definition
   of one side, which then counts as a dead store: no instruction compares the
   two, and a witness the program refuses is accepted.

The other shapes of source the properties of `compiler` except (line numbers of
`a_simplify_lang/mod.rs`), each with its programs in `MCCompiler`:

- `OverwritesAConstant` (`StaleConstant`, `StaleConstantLoop`): a constant learnt
  from a plain assignment to a mutable variable is never forgotten (690); after
  `x: Mut = 0`, `x = 5`, `x = x + w` the line `y = x` is compiled as `y = 5`, and
  the program accepts other witnesses than its text does. zkDSL.md:133 lets `x`
  be reassigned.
- `MovesAnIndex` (`StaleReading`): an element read once is kept under the text of
  its index (3033, 1990); after `i = i + 1` the reading of `a[i]` is the old one.
- `AssignsInALoop` (`WrittenInLoop`): a mutable variable declared `x: Mut` ahead of a
  loop that assigns it gets no buffer, as only the `: Mut` targets of statements
  count (1475-1479, against the comment at 1210); what is read after the loop is
  a cell that nothing assigns.
- `RepeatsAResult` (`DroppedAssignment`): an operation repeated for a variable with
  a forward declaration is dropped as a repetition (dedup_arithmetic_operations),
  and with it the variable's only assignment.
- `LooksOutside` (`LenInBranch`, `ElementInLoop`): the documented `len(v)` (zkDSL.md:209)
  of a vector declared ahead of a block is not resolved in the block, whose lines
  have a tracker of their own (595), and ends in `unreachable!()` (2497); an element
  of one, read in a loop that is not unrolled, is a variable out of scope.
- `ReadsInTwoBranches` (`ReadInBothBranches`): an element both branches read is still
  valid after them (2756-2762), but its variable is one of the branches'.
- `RebindsAConstant` (`ConstantRebound`, `TableWritten`): a constant parameter or an
  element of a constant array that is assigned meets an assertion (3949, 3214)
  and not an error.
- `OrdersInACondition` (`OrderInCondition`): a condition `<` between values that are
  not constant is `unreachable!()` (2681).

`IndexOutOfBounds` panics too (2974), but no witness takes it to its end.

Remarks without a run, met while modelling. An iteration of a parallel loop
cannot read back a cell outside its slice that it wrote itself, since the write
is deferred to the merge. A pointer that a branch points elsewhere keeps its
meaning after it, as the maps of constant allocations are per function.

## 11. Proofs

The theorems hold for every value of the constants that the named assumptions
of the modules allow; the runs show the same properties on one instance. Every
inductive invariant was an invariant of a run before it was proved.

**The arena** (`ZkAllocProofs`), for every set of threads, number and size of
slabs, request sizes, alignments and number of phases. Disjointness is not
inductive: two blocks of different threads are disjoint only because each lies
in its owner's slab and slabs are distinct, two blocks of one thread because the
later one starts at the cursor, which never falls behind a live block of the
current generation. `ArenaInv` says so: `CursorsInSlab`, `SyncedSeeGeneration` (a
synchronised thread reads the current generation), `BlocksBelowCursor`,
`BlocksInSlab`, `SlabsDistinct`; TypeOK, SyncedBlocksDisjoint and SlabsPartitioned
follow. `UseInv` adds what ArenaUsedWhileActive needs: a synchronised thread knows
that the arena is on, and whoever got to the cold path got there for a reason
that still holds when it acts. `QueueInv` is the composition with rayon's queue: a
tail block in the arena is a live block of the main thread and of this phase,
and once the phase is over, the jobs the flush has yet to push are enough to
fill it. Everything the queue adds keeps `ArenaInv`, because a push is a call of
the allocator. The assumptions are those of the modules: the main thread is a
thread, slabs and requests are not empty, the region does not start at address
0, a flush pushes at least as many jobs as a block has slots.

**The runner** (`RunnerProofs`): MemoryIsWriteOnce for every program, witness and
interleaving, from the fact that every write goes through `SetCells`.

**The proof of work** (`QueryPhaseProofs`, at its end): the Mutex holds a passing witness once
the flag is up, and a search that fails has tested every candidate, for any
number of workers, order of the field and lanes. The second needs an invariant
that follows each batch (untested, in some worker's hands, or tested without
success) and that the batches cover the candidates.

**Dimensions and layout** (`ProofLayoutProofs`), for every run, bytecode and rate
that `RunsAssumption` allows. `DimensionsInv` adds to the dimensions, stage by
stage, what the prover has padded, limited or asserted: at the verifier's check
these are all its conditions but two, which is OnlyOversizedProofsAreRefused
(theorem `RefusalsAreOversized`). `PlacesInv` says what each loop has built after
k tables: the sections of the first k tables by decreasing height, the offset
behind them, and the tables still to do. The heights are sorted, so every
offset is a multiple of the next column's length; that is alignment, and with it
`Selected` names each place, the columns fit the power of two above their total,
and the fractions cover the vectors from the first cell to the last
(StackedColumnsFit, FractionsFilled, VerifierFindsEveryColumn,
PcIsFixedAtBothEnds). Verifier and prover start from the same dimensions, and
both loops have the same invariant (`LayoutFollowsDimensions`). `Log2Ceil` counts
the powers of two below a number; that such a count covers the number is a lemma
about the least power not below it.

**The transcript** (`TranscriptProofs`), for every field, rate, dimension, schedule
of any length, and place where the proof is cut. The four properties are about
three parties that never see each other's state, and none is inductive. The
invariant gives them a common history: a sequence `h` of *moments*, one between
any two operations of the schedule, each being the state of the sponge, how many
scalars of the proof have been read, how many openings, and how many cells have
been recorded. `History` says that each operation accounts for its own piece of
the transcript and of the openings, and takes the sponge from its moment to the
next. `ProverKnows` puts the prover at the last moment; `VerifierKnows` says that
the verifier stands at one of them, holds what is left of a prefix of the proof,
and has recorded the padded cells of what was absorbed so far; `GuestKnows` the
same of the guest and that record. Every step of a reader is then the step the
prover took at that moment (the lemmas of each operation), so the readers hear a
prefix of what was said: `TranscriptIsOneInteraction`. A cut proof runs out before
the last moment: `WholeProofsAreAccepted`. The record of a verifier at the last
moment takes the guest there: `GuestEndsLikeTheVerifier`. `GuestRatesAreFresh`
follows because a moment after sampling is not fresh. `SumcheckRecovers` and
`EqSumcheckRecovers` say that the coefficient the prover leaves out is the one the
verifier computes from the claimed sum, from the laws of a field in which 2 has
an inverse (`FieldAssumption`). `PolynomialsAssumption` says that a polynomial has a
coefficient. `BatchesAssumption` says that the batches sent are restored to what
was pruned, which `RestoreIsTheInverseOfPrune` proves of openings of a tree.

**Pruned Merkle paths** (`QueryPhaseProofs`), for every height and rate, every matrix
that `PruningAssumption` allows (rows not longer than the full width, zero from the
effective width on), and any sequence of queries. `QueryInv` says that the layers
are those of the committed matrix and that each path is the opening of its leaf;
the rest is about the operators. Every node is the parent of its two children
(`IsTree`, which `LayersAreATree` proves of `DigestLayers`), so a leaf hashed up with
its siblings gives the digests on its way to the root (`ClimbIsTheWay`), and an
opening verifies. The leaf digest from the effective columns alone, which starts
from a state that stands for the zero chunks on the right, is the hash of the
whole leaf (`LeafDigestIs`: the chunks agree, and absorbing the zeros first is
where the whole hash passes too). For `restore`: below the ancestor it shares with the
leaf on its right, a path's sibling is the subtree of that leaf
(`NeighboursAreSiblings`); above the ancestor shared with the leaf on its left, all
siblings are those of that leaf (`LevelsAre`); all others are stored, and are found
again because the k-th kept level has the k-th stored digest
(`StoredSiblingIs`). An induction from the last leaf to the first gives every
subtree hash, one from the first to the last every sibling
(`SubtreesAreTheWays`, `FullSiblingsAreOpened`). With the leaves completed again
(`StrippedLeafIs`) that is RestoreInvertsPrune and OpeningsVerify. NoDigestTwice
holds because two paths with a sibling in common at a level are at the same node
there; so is the left neighbour of the right one, which lies between them, and
no level where neighbours have met is stored. `LimitsAssumption` says that the limits of `restore` are numbers.

**One key** (`XmssProofs`), for every lifetime that is a multiple of four levels, every
range of slots, any number and width of chains, any field of order K * 2^WordBits + 1
and any words of the encoding hash that `XmssAssumption` allows. `KeyInv` says that the
tree is the one generated for its range, that what is issued is what the key
signs, and that what a verifier is given was issued, or was issued with another
path, or is an issued signature whose tips have moved on. Everything else is
about the operators. *Chains*: a chain goes on from where it was left
(`ChainGoesOn`), two that end alike began alike (`ChainsBeginAlike`), so a tip that
reaches the end of a chain belongs to its slot and has no smaller digit
(`TipsOnlyMoveOn`). *The tree*: signing and key generation give the same node on
either side of the range (`PathNodeIsStored`), so the path of a signature leads to
the root (`PathLeadsToTheRoot`); from the root down, whatever path leads there
passes only nodes over the range, since a leaf, a node and a random node differ in
kind (`OnlyLeavesReachTheRoot`). *Words*: multiplied by K, the distance from a word
to a sum is small just where the sum has the low bits of the word and the word
is not -1 (`SmallMultiples`); pairs can be told from their sum (`SameSumSamePairs`)
and split into the digits of the word (`PairDigitsAre`), so hints give the guest
one encoding or none (`GuestEncodingsAre`). *The path of the guest*: a bit of an
inverted nibble is set where that of the slot is not (`SameTurn`). Numbers none of
which is smaller and whose sum is the same are the same (`SameTotalSameNumbers`):
with the target sum, a tip cannot have moved at all. What is not in the
theorems is the strength of the hash: digests are free, and the tips a verifier
is given are those of the model's steps.

**Signatures** (`SignaturesProofs`), for every set of signers, messages, limits and
number of proofs in circulation, and for hints of any origin. That every key of
a multi-signature signed is not inductive: a proof is a statement, and the step
that uses it trusts the statement, not the info that travels with it. `SignedInv`
says, of all that circulates, that the proof is the statement of the info
(`SigsOK`, `BundlesOK`), that the keys of the info are sorted and have signed, and
that raw signatures carry keys of signers (`RawKeysOK`). `GuestIsSound` is the
heart: whatever hints make the guest accept a statement, each of its keys is
covered by a raw signature it checked or by a child whose proof it verified. The
counting argument is there: as many slots of the partition as keys and
duplicates, each written once. EverySignerSigned, CirculatingVerify and
SplitRecoversTheComponent follow; `AggregationAlwaysCovers` is the half of
AggregationIsComplete that says what a success covers.

Only model-checked, and why:

- liveness under fairness: EveryRunEnds, Ends;
- whatever reaches a RECURSIVE operator: the properties of `Compiler` and
  ParallelRunsLikeRange;
- TraceIsProvable, which is a property of the programs in the runs and not of every
  program: the runner also accepts one whose derefs are never resolved, whose
  hints write a target twice, or whose segments come back at another fp;
- arithmetic of the field and its extension, for which no proof has been attempted:
  WordsAreCanonical, QuinticIsTheExtension, FormsAgree;
- the other half of AggregationIsComplete (a refusal has one of the reasons
  listed), which compares the whole of Rust's hints with the whole of the guest.

## 12. What is not modelled

The parser, the encoding of instructions as field elements, source locations,
printing and profiling; the precompile instructions and the special-purpose
hints; the values of the proof systems (finger prints, GKR, sumchecks, folding)
and their soundness parameters: they are sums over large domains, where
neither bounded checking nor the provers available here say much. The guest's
copy of the verifier (`recursion.py`, `whir.py`) is an oracle: a proof verifies or
it does not. mmap and serialisation formats are left out as input and output.
`fs_hint` and the bit decomposition of `fs_grinding` in the guest are reduced to
what the modelled schedules use of them.

Hazards that were weighed and are not listed, since no property here is about
them: other storage than rayon's queue that is allocated lazily during a phase
and outlives it (`zk-alloc` line 112); the memory of a run that does not end
grows without a bound (`runner.rs:413`); the footprints of the iterations of a
parallel loop, whose equality is a documented precondition (`runner.rs:388`,
zkDSL.md:347-351); more rows of extension operations than cycles
(`stacked_pcs.rs:111`, a TODO); a stale cache of benchmark signers
(`signers_cache.rs:32`).
