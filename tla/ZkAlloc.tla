------------------------------ MODULE ZkAlloc ------------------------------
(***************************************************************************)
(* The bump-pointer arena of crates/backend/zk-alloc: one mmap'd region    *)
(* cut into per-thread slabs, a global GENERATION that begin_phase         *)
(* increments, and thread-local cursors that reset lazily when a thread    *)
(* notices that the generation has moved.                                  *)
(*                                                                         *)
(* An allocation is three steps, as in the code: the load of ARENA_ACTIVE, *)
(* the load of GENERATION in `alloc`, and the second load of GENERATION in *)
(* `arena_alloc_cold`.  All three are Relaxed, so a load may return any    *)
(* value of the variable's modification order that is not older than one   *)
(* the thread already saw or learnt of through a synchronisation: seenGen  *)
(* and seenActive are those lower bounds.  A job that the main thread      *)
(* hands to a worker synchronises the two; nothing synchronises a thread   *)
(* that runs no job.                                                       *)
(***************************************************************************)
EXTENDS Integers, FiniteSets

CONSTANTS
    Threads,     \* every thread that allocates
    Main,        \* the thread that calls begin_phase and end_phase
    MaxThreads,  \* MAX_THREADS: the number of slabs
    SlabSize,    \* SLAB_SIZE
    RegionBase,  \* the address mmap returns
    Sizes,       \* the layout sizes requested
    Aligns,      \* the layout alignments requested
    MaxGeneration, \* bound: the number of phases explored
    NoBlock      \* "no block": a fresh allocation, not a realloc

ASSUME ThreadsAssumption == Main \in Threads

ASSUME SlabAssumption ==
    /\ MaxThreads \in Nat \ {0}
    /\ SlabSize \in Nat \ {0}
    /\ RegionBase \in Nat \ {0}

ASSUME LayoutAssumption ==
    /\ Sizes \subseteq Nat \ {0}
    /\ Aligns \subseteq Nat \ {0}
    /\ MaxGeneration \in Nat

VARIABLES
    generation,    \* GENERATION
    activeStores,  \* the number of stores made to ARENA_ACTIVE so far
    threadIdx,     \* THREAD_IDX
    arenaPtr, arenaEnd, arenaBase, arenaGen, noSlab, \* the thread-locals
    seenGen, seenActive, \* the oldest values a Relaxed load may still return
    pc,            \* where each thread is inside `alloc`
    call,          \* the request each thread is serving
    inJob,         \* the threads running code that the main thread waits for
    phase,         \* the main thread: "idle", "beginning" or "proving"
    live           \* arena blocks handed out and not yet dropped

globals == <<generation, activeStores, phase, inJob>>
locals == <<arenaPtr, arenaEnd, arenaBase, arenaGen, noSlab, threadIdx>>
views == <<seenGen, seenActive>>
vars == <<globals, locals, views, pc, call, live>>

-----------------------------------------------------------------------------

Block == [owner : Threads, lo : Nat, hi : Nat, synced : BOOLEAN]
Request == [size : Nat, align : Nat \ {0}, old : Block \cup {NoBlock}]

(* Stores to ARENA_ACTIVE alternate: begin_phase writes true, end_phase     *)
(* false, so the k-th store (the 0th being the initial value) is true iff   *)
(* k is odd.                                                                *)
ActiveAt(k) == k % 2 = 1

SlabBase(idx) == RegionBase + idx * SlabSize

(* A faulty NextMultipleOf, that rounds down. *)
RoundedDown(addr, align) == (addr \div align) * align

(* next_multiple_of, and the bit trick of `alloc` for powers of two. *)
NextMultipleOf(addr, align) == ((addr + align - 1) \div align) * align

(* A thread whose loads cannot be stale: the main thread, and a worker while *)
(* it runs a job.                                                            *)
Synced(t) == t = Main \/ t \in inJob

Disjoint(b, c) == b.hi <= c.lo \/ c.hi <= b.lo

TypeOK ==
    /\ generation \in Nat
    /\ activeStores \in Nat
    /\ threadIdx \in Nat
    /\ arenaPtr \in [Threads -> Nat]
    /\ arenaEnd \in [Threads -> Nat]
    /\ arenaBase \in [Threads -> Nat]
    /\ arenaGen \in [Threads -> Nat]
    /\ noSlab \in [Threads -> BOOLEAN]
    /\ seenGen \in [Threads -> Nat]
    /\ seenActive \in [Threads -> Nat]
    /\ pc \in [Threads -> {"app", "active", "hot", "cold"}]
    /\ call \in [Threads -> Request]
    /\ inJob \in SUBSET (Threads \ {Main})
    /\ phase \in {"idle", "beginning", "proving"}
    /\ live \in SUBSET Block

NoRequest == [size |-> 0, align |-> 1, old |-> NoBlock]

Init ==
    /\ generation = 0
    /\ activeStores = 0
    /\ threadIdx = 0
    /\ arenaPtr = [t \in Threads |-> 0]
    /\ arenaEnd = [t \in Threads |-> 0]
    /\ arenaBase = [t \in Threads |-> 0]
    /\ arenaGen = [t \in Threads |-> 0]
    /\ noSlab = [t \in Threads |-> FALSE]
    /\ seenGen = [t \in Threads |-> 0]
    /\ seenActive = [t \in Threads |-> 0]
    /\ pc = [t \in Threads |-> "app"]
    /\ call = [t \in Threads |-> NoRequest]
    /\ inJob = {}
    /\ phase = "idle"
    /\ live = {}

-----------------------------------------------------------------------------
(* Phases: called by the main thread, with no parallel section running. *)

MainAtRest == pc[Main] = "app" /\ inJob = {}

(* begin_phase, first store.  The blocks of the previous phase are dropped   *)
(* or cloned out by then: that is the contract of the crate.                 *)
BeginPhase ==
    /\ MainAtRest
    /\ phase = "idle"
    /\ generation < MaxGeneration
    /\ generation' = generation + 1
    /\ seenGen' = [seenGen EXCEPT ![Main] = generation + 1]
    /\ phase' = "beginning"
    /\ live' = {}
    /\ UNCHANGED <<activeStores, inJob, locals, seenActive, pc, call>>

(* begin_phase, second store. *)
ActivateArena ==
    /\ phase = "beginning"
    /\ pc[Main] = "app"
    /\ activeStores' = activeStores + 1
    /\ seenActive' = [seenActive EXCEPT ![Main] = activeStores + 1]
    /\ phase' = "proving"
    /\ UNCHANGED <<generation, inJob, locals, seenGen, pc, call, live>>

(* end_phase: its flush_rayon changes nothing here (module RayonFlush). *)
EndPhase ==
    /\ MainAtRest
    /\ phase = "proving"
    /\ activeStores' = activeStores + 1
    /\ seenActive' = [seenActive EXCEPT ![Main] = activeStores + 1]
    /\ phase' = "idle"
    /\ UNCHANGED <<generation, inJob, locals, seenGen, pc, call, live>>

(* Rayon hands a job to a worker: everything the main thread did happens    *)
(* before the job.                                                          *)
StartJob(t) ==
    /\ t \notin inJob \cup {Main}
    /\ phase # "beginning"
    /\ pc[t] = "app"
    /\ inJob' = inJob \cup {t}
    /\ seenGen' = [seenGen EXCEPT ![t] = generation]
    /\ seenActive' = [seenActive EXCEPT ![t] = activeStores]
    /\ UNCHANGED <<generation, activeStores, phase, locals, pc, call, live>>

FinishJob(t) ==
    /\ t \in inJob
    /\ pc[t] = "app"
    /\ inJob' = inJob \ {t}
    /\ UNCHANGED <<generation, activeStores, phase, locals, views, pc, call, live>>

-----------------------------------------------------------------------------
(* alloc, dealloc and realloc. *)

(* A block some thread is reallocating belongs to that call. *)
Free(b) == b \in live /\ \A t \in Threads : call[t].old # b

(* The caller of alloc: the main thread inside begin_phase allocates nothing. *)
Enter(t, request) ==
    /\ pc[t] = "app"
    /\ t = Main => phase # "beginning"
    /\ pc' = [pc EXCEPT ![t] = "active"]
    /\ call' = [call EXCEPT ![t] = request]
    /\ UNCHANGED <<globals, locals, views, live>>

Alloc(t, size, align) ==
    Enter(t, [size |-> size, align |-> align, old |-> NoBlock])

(* realloc to a larger size: alloc, copy, dealloc the old block. *)
ReallocGrow(t, b, size, align) ==
    /\ Free(b) /\ b.owner = t
    /\ size > b.hi - b.lo
    /\ Enter(t, [size |-> size, align |-> align, old |-> b])

(* realloc to a smaller size keeps the pointer. *)
ReallocInPlace(t, b, size) ==
    /\ Free(b) /\ b.owner = t /\ pc[t] = "app"
    /\ size < b.hi - b.lo
    /\ live' = (live \ {b}) \cup {[b EXCEPT !.hi = b.lo + size]}
    /\ UNCHANGED <<globals, locals, views, pc, call>>

(* dealloc of an arena pointer: the allocator does nothing. *)
Dealloc(b) ==
    /\ Free(b)
    /\ live' = live \ {b}
    /\ UNCHANGED <<globals, locals, views, pc, call>>

(* The end of t's call, with the new arena blocks (none: the pointer comes    *)
(* from System); a realloc drops the block it copied from.                    *)
Return(t, blocks) ==
    /\ live' = (live \ {call[t].old}) \cup blocks
    /\ pc' = [pc EXCEPT ![t] = "app"]
    /\ call' = [call EXCEPT ![t] = NoRequest]

(* The block t's request takes when the cursor stands at `from`. *)
Fitted(t, from) ==
    LET lo == NextMultipleOf(from, call[t].align)
    IN  [owner |-> t, lo |-> lo, hi |-> lo + call[t].size, synced |-> Synced(t)]

(* ARENA_ACTIVE.load(Relaxed), and System when it says false. *)
LoadActive(t) ==
    /\ pc[t] = "active"
    /\ \E k \in seenActive[t]..activeStores :
          /\ seenActive' = [seenActive EXCEPT ![t] = k]
          /\ \/ /\ ActiveAt(k)
                /\ pc' = [pc EXCEPT ![t] = "hot"]
                /\ UNCHANGED <<call, live>>
             \/ /\ ~ActiveAt(k)
                /\ Return(t, {})
    /\ UNCHANGED <<globals, locals, seenGen>>

(* GENERATION.load(Relaxed) in t, returning g. *)
LoadGeneration(t, g) ==
    /\ g \in seenGen[t]..generation
    /\ seenGen' = [seenGen EXCEPT ![t] = g]
    /\ UNCHANGED seenActive

(* alloc's fast path: same generation, and the slab has room. *)
HotBump(t, g) ==
    LET b == Fitted(t, arenaPtr[t])
    IN  /\ pc[t] = "hot"
        /\ LoadGeneration(t, g)
        /\ arenaGen[t] = g
        /\ b.hi <= arenaEnd[t]
        /\ arenaPtr' = [arenaPtr EXCEPT ![t] = b.hi]
        /\ Return(t, {b})
        /\ UNCHANGED <<globals, arenaEnd, arenaBase, arenaGen, noSlab, threadIdx>>

HotMiss(t, g) ==
    /\ pc[t] = "hot"
    /\ LoadGeneration(t, g)
    /\ \/ arenaGen[t] # g
       \/ Fitted(t, arenaPtr[t]).hi > arenaEnd[t]
    /\ pc' = [pc EXCEPT ![t] = "cold"]
    /\ UNCHANGED <<globals, locals, call, live>>

(* A faulty ColdSystem: the cold path gives up before it looks at the slab. *)
EagerColdSystem(t, g) ==
    /\ pc[t] = "cold"
    /\ LoadGeneration(t, g)
    /\ Return(t, {})
    /\ UNCHANGED <<globals, locals>>

(* arena_alloc_cold: no slab, or a slab that is full in this generation. *)
ColdSystem(t, g) ==
    /\ pc[t] = "cold"
    /\ LoadGeneration(t, g)
    /\ noSlab[t] \/ arenaGen[t] = g
    /\ Return(t, {})
    /\ UNCHANGED <<globals, locals>>

(* arena_alloc_cold: the thread comes after the last slab was claimed. *)
ColdNoSlab(t, g) ==
    /\ pc[t] = "cold"
    /\ LoadGeneration(t, g)
    /\ ~noSlab[t] /\ arenaGen[t] # g
    /\ arenaBase[t] = 0
    /\ threadIdx >= MaxThreads
    /\ threadIdx' = threadIdx + 1
    /\ noSlab' = [noSlab EXCEPT ![t] = TRUE]
    /\ Return(t, {})
    /\ UNCHANGED <<globals, arenaPtr, arenaEnd, arenaBase, arenaGen>>

(* The thread's slab: its own, or the next unclaimed one. *)
SlabOf(t) == IF arenaBase[t] = 0 THEN SlabBase(threadIdx) ELSE arenaBase[t]

(* A faulty ClaimedIdx: the thread gives an index back. *)
ReleasedIdx(t) == threadIdx - 1

(* A faulty ClaimedIdx: a load of THREAD_IDX in place of the fetch_add. *)
UnclaimedIdx(t) == threadIdx

(* THREAD_IDX.fetch_add(1), by a thread that has no slab yet. *)
ClaimedIdx(t) == IF arenaBase[t] = 0 THEN threadIdx + 1 ELSE threadIdx

(* arena_alloc_cold: claim a slab if t has none, reset the cursor to its      *)
(* base, and allocate there if the request fits an empty slab.                *)
ColdReset(t, g) ==
    LET base == SlabOf(t)
        b == Fitted(t, base)
        fits == b.hi <= base + SlabSize
    IN  /\ pc[t] = "cold"
        /\ LoadGeneration(t, g)
        /\ ~noSlab[t] /\ arenaGen[t] # g
        /\ arenaBase[t] = 0 => threadIdx < MaxThreads
        /\ threadIdx' = ClaimedIdx(t)
        /\ arenaBase' = [arenaBase EXCEPT ![t] = base]
        /\ arenaEnd' = [arenaEnd EXCEPT ![t] = base + SlabSize]
        /\ arenaGen' = [arenaGen EXCEPT ![t] = g]
        /\ arenaPtr' = [arenaPtr EXCEPT ![t] = IF fits THEN b.hi ELSE base]
        /\ Return(t, IF fits THEN {b} ELSE {})
        /\ UNCHANGED <<globals, noSlab>>

-----------------------------------------------------------------------------

PhaseStep == BeginPhase \/ ActivateArena \/ EndPhase

AllocStep(t) ==
    \/ LoadActive(t)
    \/ \E g \in seenGen[t]..generation :
          HotBump(t, g) \/ HotMiss(t, g) \/ ColdSystem(t, g) \/ ColdNoSlab(t, g) \/ ColdReset(t, g)

(* Thread t's own steps, on the blocks it may reallocate. *)
AppStep(t, blocks) ==
    \/ StartJob(t)
    \/ FinishJob(t)
    \/ \E size \in Sizes, align \in Aligns :
          \/ Alloc(t, size, align)
          \/ \E b \in blocks : ReallocGrow(t, b, size, align)
    \/ \E b \in blocks, size \in Sizes : ReallocInPlace(t, b, size)

Next ==
    \/ PhaseStep
    \/ \E t \in Threads : AllocStep(t) \/ AppStep(t, live)
    \/ \E b \in live : Dealloc(b)

Spec == Init /\ [][Next]_vars

-----------------------------------------------------------------------------
(* Properties *)

(* Two blocks that synchronised threads obtained in the current phase never  *)
(* share an address, whoever allocated them and however the lazy resets      *)
(* interleaved: alloc's cursor, the reset of arena_alloc_cold and the slab   *)
(* arithmetic of SLAB_SIZE together.                                         *)
SyncedBlocksDisjoint ==
    \A b, c \in live : b.synced /\ c.synced /\ b # c => Disjoint(b, c)

(* No two threads ever hold the same slab, and a block lies in the slab of    *)
(* the thread that allocated it: the claim by fetch_add in arena_alloc_cold.  *)
SlabsPartitioned ==
    /\ \A t, u \in Threads : t # u /\ arenaBase[t] # 0 => arenaBase[t] # arenaBase[u]
    /\ \A b \in live : arenaBase[b.owner] <= b.lo /\ b.hi <= arenaBase[b.owner] + SlabSize

(* A call of a synchronised thread that ends during a phase with no arena      *)
(* block: the thread has no slab, or no room is left in it for the request.     *)
ServedByArena ==
    \A t \in Threads :
        /\ pc[t] # "app" /\ pc'[t] = "app"
        /\ Synced(t) /\ phase = "proving"
        /\ \A b \in live' \ live : b.owner # t
        => \/ noSlab'[t]
           \/ /\ arenaGen'[t] = generation
              /\ Fitted(t, arenaPtr[t]).hi > arenaEnd'[t] \/ Fitted(t, arenaBase'[t]).hi > arenaEnd'[t]

(* "All allocations until the next end_phase() go to the arena" (begin_phase):  *)
(* while the arena is on, a synchronised thread's call returns a System block   *)
(* only if the thread has no slab, or its slab has no room for the request.     *)
ArenaUsedWhileActive == [][ServedByArena]_vars

(* The inductive invariant behind SyncedBlocksDisjoint and SlabsPartitioned.  *)

(* A thread's cursor stands inside the slab it claimed. *)
CursorsInSlab ==
    \A t \in Threads :
        /\ arenaBase[t] = 0 => arenaPtr[t] = 0 /\ arenaEnd[t] = 0
        /\ arenaBase[t] # 0 =>
              /\ arenaEnd[t] = arenaBase[t] + SlabSize
              /\ arenaBase[t] <= arenaPtr[t] /\ arenaPtr[t] <= arenaEnd[t]
              /\ \E i \in 0..MaxThreads - 1 : i < threadIdx /\ arenaBase[t] = SlabBase(i)

(* A synchronised thread cannot read an old generation. *)
SyncedSeeGeneration ==
    \A t \in Threads :
        /\ seenGen[t] <= generation
        /\ Synced(t) => seenGen[t] = generation

(* The owner of a synchronised block has reset its cursor in this generation, *)
(* can no longer miss the generation, and has moved past the block.           *)
BlocksBelowCursor ==
    \A b \in live : b.synced =>
        /\ arenaGen[b.owner] = generation
        /\ seenGen[b.owner] = generation
        /\ b.hi <= arenaPtr[b.owner]

BlocksInSlab ==
    \A b \in live :
        /\ arenaBase[b.owner] # 0
        /\ arenaBase[b.owner] <= b.lo /\ b.lo < b.hi
        /\ b.hi <= arenaBase[b.owner] + SlabSize

SlabsDistinct ==
    \A t, u \in Threads : t # u /\ arenaBase[t] # 0 => arenaBase[t] # arenaBase[u]

RequestsPositive == \A t \in Threads : pc[t] # "app" => call[t].size > 0

ArenaInv ==
    /\ TypeOK
    /\ CursorsInSlab
    /\ SyncedSeeGeneration
    /\ BlocksBelowCursor
    /\ BlocksInSlab
    /\ SlabsDistinct
    /\ RequestsPositive
    /\ SyncedBlocksDisjoint

(* What ArenaUsedWhileActive needs besides.  A synchronised thread knows that  *)
(* the arena is on, and nothing changes that while its call lasts.             *)
ActiveKnown ==
    /\ ActiveAt(activeStores) <=> phase = "proving"
    /\ phase = "beginning" => inJob = {}
    /\ \A t \in Threads : Synced(t) => seenActive[t] = activeStores

(* It reached the cold path for a reason that still holds. *)
ColdForAReason ==
    \A t \in Threads :
        pc[t] = "cold" /\ Synced(t) =>
            \/ arenaGen[t] # generation
            \/ Fitted(t, arenaPtr[t]).hi > arenaEnd[t]

UseInv == ArenaInv /\ ActiveKnown /\ ColdForAReason

(* What the comment on the GlobalAlloc implementation says of threads that     *)
(* read stale values: they only do one extra system allocation, so no block    *)
(* handed out in the current phase is ever handed out again in it.             *)
StaleLoadsAreHarmless ==
    \A b, c \in live : b # c => Disjoint(b, c)

=============================================================================
