--------------------------- MODULE ZkAllocProofs ---------------------------
(***************************************************************************)
(* Proofs about the arena, for any number of threads, slabs and phases.    *)
(***************************************************************************)
EXTENDS RayonFlush, TLAPS

(* Rounding up to an alignment never moves an address down: next_multiple_of  *)
(* in arena_alloc_cold and the mask of alloc.                                 *)
LEMMA NextMultipleOfBound ==
    ASSUME NEW addr \in Nat, NEW align \in Nat \ {0}
    PROVE  NextMultipleOf(addr, align) \in Nat /\ NextMultipleOf(addr, align) >= addr
<1> DEFINE q == (addr + align - 1) \div align
<1>1. q \in Int /\ (addr + align - 1) = align * q + ((addr + align - 1) % align)
  OBVIOUS
<1>2. (addr + align - 1) % align \in 0..align - 1
  OBVIOUS
<1>3. align * q = q * align /\ q * align \in Int
  BY <1>1
<1> QED
  BY <1>1, <1>2, <1>3 DEF NextMultipleOf

(* Slabs claimed with different indices do not overlap: region + idx * SLAB_SIZE. *)
LEMMA SlabsApart ==
    ASSUME NEW i \in Nat, NEW j \in Nat, i < j
    PROVE  SlabBase(i) + SlabSize <= SlabBase(j) /\ SlabBase(i) \in Nat \ {0} /\ SlabBase(j) \in Nat \ {0}
<1>1. PICK k \in Nat : j = i + 1 + k
  <2>1. j - i - 1 \in Nat /\ j = i + 1 + (j - i - 1)
    OBVIOUS
  <2> QED BY <2>1
<1>2. j * SlabSize = i * SlabSize + SlabSize + k * SlabSize
  BY <1>1, SlabAssumption
<1>3. k * SlabSize \in Nat /\ i * SlabSize \in Nat
  BY SlabAssumption
<1> QED
  BY <1>2, <1>3, SlabAssumption DEF SlabBase

(* The block a request takes starts at the cursor or above it and is not empty. *)
LEMMA FittedBlock ==
    ASSUME TypeOK, RequestsPositive, NEW t \in Threads, pc[t] # "app", NEW from \in Nat
    PROVE  /\ Fitted(t, from) \in Block
           /\ Fitted(t, from).owner = t
           /\ Fitted(t, from).synced = Synced(t)
           /\ from <= Fitted(t, from).lo
           /\ Fitted(t, from).lo < Fitted(t, from).hi
<1> DEFINE b == Fitted(t, from)
           lo == NextMultipleOf(from, call[t].align)
<1>1. call[t].size \in Nat /\ call[t].size > 0 /\ call[t].align \in Nat \ {0}
  BY DEF TypeOK, RequestsPositive, Request
<1>2. lo \in Nat /\ from <= lo
  BY <1>1, NextMultipleOfBound
<1>3. b = [owner |-> t, lo |-> lo, hi |-> lo + call[t].size, synced |-> Synced(t)]
  BY DEF Fitted
<1>4. Synced(t) \in BOOLEAN
  BY DEF Synced
<1> HIDE DEF lo
<1> QED
  BY <1>1, <1>2, <1>3, <1>4 DEF Block

(* Before the first begin_phase no slab is claimed and no block is live. *)
THEOREM InitArenaInv == Init => ArenaInv
<1> SUFFICES ASSUME Init PROVE ArenaInv
  OBVIOUS
<1>1. TypeOK
  BY ThreadsAssumption DEF Init, TypeOK, Request, NoRequest
<1>2. CursorsInSlab /\ BlocksBelowCursor /\ BlocksInSlab /\ SlabsDistinct /\ SyncedBlocksDisjoint
  BY DEF Init, CursorsInSlab, BlocksBelowCursor, BlocksInSlab, SlabsDistinct, SyncedBlocksDisjoint
<1>3. SyncedSeeGeneration /\ RequestsPositive
  BY DEF Init, SyncedSeeGeneration, RequestsPositive
<1> QED
  BY <1>1, <1>2, <1>3 DEF ArenaInv

(* Steps of the phases and of the jobs leave every cursor where it is. *)
LEMMA PhaseKeepsArenaInv ==
    ASSUME ArenaInv,
           PhaseStep \/ \E t \in Threads : StartJob(t) \/ FinishJob(t)
    PROVE  ArenaInv'
<1> USE DEF ArenaInv
<1>1. CASE BeginPhase
  <2> USE <1>1 DEF BeginPhase, locals
  <2>1. TypeOK'
    <3>1. generation' \in Nat
      BY DEF TypeOK
    <3>2. seenGen' \in [Threads -> Nat]
      BY <3>1 DEF TypeOK
    <3>3. live' \in SUBSET Block
      OBVIOUS
    <3> QED
      BY <3>1, <3>2, <3>3 DEF TypeOK
  <2>2. CursorsInSlab' /\ BlocksBelowCursor' /\ BlocksInSlab' /\ SlabsDistinct' /\ SyncedBlocksDisjoint'
    BY DEF CursorsInSlab, BlocksBelowCursor, BlocksInSlab, SlabsDistinct, SyncedBlocksDisjoint
  <2>3. SyncedSeeGeneration' /\ RequestsPositive'
    BY DEF SyncedSeeGeneration, RequestsPositive, TypeOK, Synced, MainAtRest
  <2> QED BY <2>1, <2>2, <2>3
<1>2. CASE ActivateArena \/ EndPhase
  <2> USE <1>2 DEF ActivateArena, EndPhase, locals
  <2>1. TypeOK'
    BY DEF TypeOK
  <2>2. CursorsInSlab' /\ BlocksBelowCursor' /\ BlocksInSlab' /\ SlabsDistinct' /\ SyncedBlocksDisjoint'
    BY DEF CursorsInSlab, BlocksBelowCursor, BlocksInSlab, SlabsDistinct, SyncedBlocksDisjoint
  <2>3. SyncedSeeGeneration' /\ RequestsPositive'
    BY DEF SyncedSeeGeneration, RequestsPositive, Synced
  <2> QED BY <2>1, <2>2, <2>3
<1>3. ASSUME NEW t \in Threads, StartJob(t) PROVE ArenaInv'
  <2> USE <1>3 DEF StartJob, locals
  <2>1. TypeOK'
    BY DEF TypeOK
  <2>2. CursorsInSlab' /\ BlocksInSlab' /\ SlabsDistinct' /\ SyncedBlocksDisjoint'
    BY DEF CursorsInSlab, BlocksInSlab, SlabsDistinct, SyncedBlocksDisjoint
  <2>3. SyncedSeeGeneration' /\ RequestsPositive'
    BY DEF SyncedSeeGeneration, RequestsPositive, Synced, TypeOK
  <2>4. BlocksBelowCursor'
    BY DEF BlocksBelowCursor, TypeOK, Block
  <2> QED BY <2>1, <2>2, <2>3, <2>4
<1>4. ASSUME NEW t \in Threads, FinishJob(t) PROVE ArenaInv'
  <2> USE <1>4 DEF FinishJob, locals, views
  <2>1. TypeOK'
    BY DEF TypeOK
  <2>2. CursorsInSlab' /\ BlocksBelowCursor' /\ BlocksInSlab' /\ SlabsDistinct' /\ SyncedBlocksDisjoint'
    BY DEF CursorsInSlab, BlocksBelowCursor, BlocksInSlab, SlabsDistinct, SyncedBlocksDisjoint
  <2>3. SyncedSeeGeneration' /\ RequestsPositive'
    BY DEF SyncedSeeGeneration, RequestsPositive, Synced
  <2> QED BY <2>1, <2>2, <2>3
<1> QED
  BY <1>1, <1>2, <1>3, <1>4 DEF PhaseStep

(* Entering alloc, dropping a block, shrinking one in place: no cursor moves. *)
LEMMA AppKeepsArenaInv ==
    ASSUME ArenaInv, NEW t \in Threads,
           \/ \E size, align \in Nat \ {0} :
                 \/ Alloc(t, size, align)
                 \/ \E b \in live : ReallocGrow(t, b, size, align)
           \/ \E b \in live, size \in Nat \ {0} : ReallocInPlace(t, b, size)
           \/ \E b \in live : Dealloc(b)
    PROVE  ArenaInv'
<1> USE DEF ArenaInv
<1>1. ASSUME NEW request \in Request, request.size > 0, Enter(t, request) PROVE ArenaInv'
  <2> USE <1>1 DEF Enter, globals, locals, views
  <2>1. TypeOK'
    <3>1. pc' \in [Threads -> {"app", "active", "hot", "cold"}] /\ call' \in [Threads -> Request]
      BY DEF TypeOK
    <3> QED BY <3>1 DEF TypeOK
  <2>2. CursorsInSlab' /\ BlocksBelowCursor' /\ BlocksInSlab' /\ SlabsDistinct' /\ SyncedBlocksDisjoint'
    BY DEF CursorsInSlab, BlocksBelowCursor, BlocksInSlab, SlabsDistinct, SyncedBlocksDisjoint
  <2>3. SyncedSeeGeneration' /\ RequestsPositive'
    BY DEF SyncedSeeGeneration, RequestsPositive, Synced, TypeOK
  <2> QED BY <2>1, <2>2, <2>3
<1>2. ASSUME NEW size \in Nat \ {0}, NEW align \in Nat \ {0}, Alloc(t, size, align) PROVE ArenaInv'
  <2>1. [size |-> size, align |-> align, old |-> NoBlock] \in Request
    BY DEF Request
  <2>2. size > 0
    OBVIOUS
  <2> QED
    BY <1>1, <1>2, <2>1, <2>2 DEF Alloc
<1>3. ASSUME NEW size \in Nat \ {0}, NEW align \in Nat \ {0}, NEW b \in live, ReallocGrow(t, b, size, align)
      PROVE ArenaInv'
  <2>1. [size |-> size, align |-> align, old |-> b] \in Request
    BY DEF Request, TypeOK
  <2>2. size > 0
    OBVIOUS
  <2> QED
    BY <1>1, <1>3, <2>1, <2>2 DEF ReallocGrow
<1>4. ASSUME NEW b \in live, NEW size \in Nat \ {0}, ReallocInPlace(t, b, size) PROVE ArenaInv'
  <2> DEFINE c == [b EXCEPT !.hi = b.lo + size]
  <2> USE <1>4 DEF ReallocInPlace, globals, locals, views
  <2>1. b \in Block /\ size \in Nat \ {0}
    BY DEF TypeOK
  <2>2. /\ c \in Block /\ c.owner = b.owner /\ c.synced = b.synced
        /\ c.lo = b.lo /\ c.lo < c.hi /\ c.hi < b.hi
    BY <2>1 DEF Block
  <2>3. live' = (live \ {b}) \cup {c}
    OBVIOUS
  <2> HIDE DEF c
  <2>4. TypeOK'
    BY <2>2, <2>3 DEF TypeOK
  <2>5. CursorsInSlab' /\ SlabsDistinct' /\ SyncedSeeGeneration' /\ RequestsPositive'
    BY DEF CursorsInSlab, SlabsDistinct, SyncedSeeGeneration, RequestsPositive, Synced
  <2>6. BlocksBelowCursor'
    BY <2>1, <2>2, <2>3 DEF BlocksBelowCursor, TypeOK, Block
  <2>7. BlocksInSlab'
    <3> SUFFICES ASSUME NEW d \in live'
                 PROVE  /\ arenaBase[d.owner] # 0
                        /\ arenaBase[d.owner] <= d.lo /\ d.lo < d.hi
                        /\ d.hi <= arenaBase[d.owner] + SlabSize
      BY DEF BlocksInSlab
    <3>1. CASE d # c
      BY <2>3, <3>1 DEF BlocksInSlab
    <3>2. CASE d = c
      <4>1. b.owner \in Threads /\ arenaBase[b.owner] \in Nat /\ b.lo \in Nat /\ b.hi \in Nat /\ c.hi \in Nat
        BY <2>1, <2>2 DEF TypeOK, Block
      <4>2. /\ arenaBase[b.owner] # 0 /\ arenaBase[b.owner] <= b.lo
            /\ b.hi <= arenaBase[b.owner] + SlabSize
        BY DEF BlocksInSlab
      <4> QED
        BY <2>2, <3>2, <4>1, <4>2, SlabAssumption
    <3> QED BY <3>1, <3>2
  <2>8. SyncedBlocksDisjoint'
    BY <2>1, <2>2, <2>3 DEF SyncedBlocksDisjoint, Disjoint, TypeOK, Block
  <2> QED BY <2>4, <2>5, <2>6, <2>7, <2>8
<1>5. ASSUME NEW b \in live, Dealloc(b) PROVE ArenaInv'
  <2> USE <1>5 DEF Dealloc, globals, locals, views
  <2>1. TypeOK'
    BY DEF TypeOK
  <2>2. CursorsInSlab' /\ BlocksBelowCursor' /\ BlocksInSlab' /\ SlabsDistinct' /\ SyncedBlocksDisjoint'
    BY DEF CursorsInSlab, BlocksBelowCursor, BlocksInSlab, SlabsDistinct, SyncedBlocksDisjoint
  <2>3. SyncedSeeGeneration' /\ RequestsPositive'
    BY DEF SyncedSeeGeneration, RequestsPositive, Synced
  <2> QED BY <2>1, <2>2, <2>3
<1> QED
  BY <1>2, <1>3, <1>4, <1>5

(* What holds after any step that returns from alloc with no new block. *)
LEMMA SystemReturnKeepsArenaInv ==
    ASSUME ArenaInv, NEW t \in Threads,
           Return(t, {}),
           UNCHANGED <<globals, arenaPtr, arenaEnd, arenaBase, arenaGen>>,
           threadIdx' \in {threadIdx, threadIdx + 1},
           noSlab' \in [Threads -> BOOLEAN],
           seenActive' \in [Threads -> Nat],
           seenGen' = seenGen \/ \E g \in seenGen[t]..generation : seenGen' = [seenGen EXCEPT ![t] = g]
    PROVE  ArenaInv'
<1> USE DEF ArenaInv, Return, globals
<1>1. seenGen' \in [Threads -> Nat] /\ \A u \in Threads : seenGen[u] <= seenGen'[u] /\ seenGen'[u] <= generation
  BY DEF TypeOK, SyncedSeeGeneration
<1>2. threadIdx' \in Nat /\ threadIdx <= threadIdx'
  BY DEF TypeOK
<1>3. TypeOK'
  <2>1. call' \in [Threads -> Request] /\ pc' \in [Threads -> {"app", "active", "hot", "cold"}]
    BY DEF TypeOK, Request, NoRequest
  <2> QED BY <1>1, <1>2, <2>1 DEF TypeOK
<1>4. CursorsInSlab'
  <2>1. \A i \in 0..MaxThreads - 1 : i < threadIdx => i < threadIdx'
    BY <1>2, SlabAssumption DEF TypeOK
  <2> QED
    BY <2>1 DEF CursorsInSlab
<1>5. SlabsDistinct' /\ RequestsPositive'
  BY DEF SlabsDistinct, RequestsPositive, TypeOK
<1>6. SyncedSeeGeneration'
  <2> SUFFICES ASSUME NEW u \in Threads
               PROVE  seenGen'[u] <= generation /\ (Synced(u) => seenGen'[u] = generation)
    BY DEF SyncedSeeGeneration, Synced
  <2>1. seenGen[u] \in Nat /\ seenGen'[u] \in Nat /\ generation \in Nat
    BY <1>1 DEF TypeOK
  <2> QED
    BY <1>1, <2>1 DEF SyncedSeeGeneration
<1>7. BlocksBelowCursor'
  <2> SUFFICES ASSUME NEW b \in live, b.synced
               PROVE  /\ arenaGen[b.owner] = generation
                      /\ seenGen'[b.owner] = generation
                      /\ b.hi <= arenaPtr[b.owner]
    BY DEF BlocksBelowCursor
  <2>1. b.owner \in Threads /\ seenGen[b.owner] \in Nat /\ seenGen'[b.owner] \in Nat /\ generation \in Nat
    BY <1>1 DEF TypeOK, Block
  <2> QED
    BY <1>1, <2>1 DEF BlocksBelowCursor
<1>8. BlocksInSlab' /\ SyncedBlocksDisjoint'
  BY DEF BlocksInSlab, SyncedBlocksDisjoint
<1> QED
  BY <1>3, <1>4, <1>5, <1>6, <1>7, <1>8

(* LoadActive either stays inside alloc or returns from System. *)
LEMMA LoadActiveKeepsArenaInv ==
    ASSUME ArenaInv, NEW t \in Threads, LoadActive(t)
    PROVE  ArenaInv'
<1> USE DEF ArenaInv
<1>1. PICK k \in seenActive[t]..activeStores :
          /\ seenActive' = [seenActive EXCEPT ![t] = k]
          /\ \/ /\ pc' = [pc EXCEPT ![t] = "hot"]
                /\ UNCHANGED <<call, live>>
             \/ Return(t, {})
  BY DEF LoadActive
<1>2. seenActive' \in [Threads -> Nat]
  BY <1>1 DEF TypeOK
<1>3. pc[t] = "active" /\ UNCHANGED <<globals, locals, seenGen>>
  BY DEF LoadActive
<1>4. CASE Return(t, {})
  BY <1>2, <1>3, <1>4, SystemReturnKeepsArenaInv DEF locals, TypeOK
<1>5. CASE pc' = [pc EXCEPT ![t] = "hot"] /\ UNCHANGED <<call, live>>
  <2> USE <1>3, <1>5 DEF globals, locals
  <2>1. TypeOK'
    BY <1>2 DEF TypeOK
  <2>2. CursorsInSlab' /\ BlocksBelowCursor' /\ BlocksInSlab' /\ SlabsDistinct' /\ SyncedBlocksDisjoint'
    BY DEF CursorsInSlab, BlocksBelowCursor, BlocksInSlab, SlabsDistinct, SyncedBlocksDisjoint
  <2>3. SyncedSeeGeneration' /\ RequestsPositive'
    BY DEF SyncedSeeGeneration, RequestsPositive, Synced, TypeOK
  <2> QED BY <2>1, <2>2, <2>3
<1> QED
  BY <1>1, <1>4, <1>5

(* A load of GENERATION moves the thread's view forward, and a synchronised    *)
(* thread, like the owner of a synchronised block, reads the current value.    *)
LEMMA LoadGenerationSees ==
    ASSUME ArenaInv, NEW t \in Threads, NEW g, LoadGeneration(t, g)
    PROVE  /\ g \in Nat /\ g <= generation
           /\ seenGen' \in [Threads -> Nat] /\ seenActive' \in [Threads -> Nat]
           /\ seenGen' = [seenGen EXCEPT ![t] = g]
           /\ Synced(t) => g = generation
           /\ \A b \in live : b.synced /\ b.owner = t => g = generation
           /\ \A u \in Threads : seenGen'[u] <= generation /\ (seenGen[u] = generation => seenGen'[u] = generation)
<1> USE DEF ArenaInv, LoadGeneration
<1>1. seenGen[t] \in Nat /\ generation \in Nat /\ seenGen[t] <= g /\ g \in Int /\ g <= generation
  BY DEF TypeOK
<1>2. g \in Nat /\ seenGen' \in [Threads -> Nat] /\ seenActive' \in [Threads -> Nat]
  BY <1>1 DEF TypeOK
<1>3. seenGen[t] = generation => g = generation
  BY <1>1
<1>4. Synced(t) => g = generation
  BY <1>3 DEF SyncedSeeGeneration
<1>5. \A b \in live : b.synced /\ b.owner = t => g = generation
  BY <1>3 DEF BlocksBelowCursor
<1>6. \A u \in Threads : seenGen'[u] <= generation /\ (seenGen[u] = generation => seenGen'[u] = generation)
  BY <1>1, <1>3 DEF SyncedSeeGeneration, TypeOK
<1> QED
  BY <1>1, <1>2, <1>4, <1>5, <1>6

(* A miss on the fast path only records the generation it read. *)
LEMMA HotMissKeepsArenaInv ==
    ASSUME ArenaInv, NEW t \in Threads, NEW g, HotMiss(t, g)
    PROVE  ArenaInv'
<1> USE DEF ArenaInv
<1>1. LoadGeneration(t, g) /\ pc[t] = "hot" /\ pc' = [pc EXCEPT ![t] = "cold"]
      /\ UNCHANGED <<globals, locals, call, live>>
  BY DEF HotMiss
<1>2. /\ seenGen' \in [Threads -> Nat] /\ seenActive' \in [Threads -> Nat]
      /\ \A u \in Threads : seenGen'[u] <= generation /\ (seenGen[u] = generation => seenGen'[u] = generation)
  BY <1>1, LoadGenerationSees
<1> USE <1>1 DEF globals, locals
<1>3. TypeOK'
  BY <1>2 DEF TypeOK
<1>4. CursorsInSlab' /\ BlocksInSlab' /\ SlabsDistinct' /\ SyncedBlocksDisjoint' /\ RequestsPositive'
  BY DEF CursorsInSlab, BlocksInSlab, SlabsDistinct, SyncedBlocksDisjoint, RequestsPositive, TypeOK
<1>5. SyncedSeeGeneration'
  BY <1>2 DEF SyncedSeeGeneration, Synced
<1>6. BlocksBelowCursor'
  <2>1. \A b \in live : b.owner \in Threads
    BY DEF TypeOK, Block
  <2> QED BY <1>2, <2>1 DEF BlocksBelowCursor
<1> QED BY <1>3, <1>4, <1>5, <1>6

(* The cold path that falls back on System. *)
LEMMA ColdReturnKeepsArenaInv ==
    ASSUME ArenaInv, NEW t \in Threads, NEW g, ColdSystem(t, g) \/ ColdNoSlab(t, g)
    PROVE  ArenaInv'
<1>1. LoadGeneration(t, g) /\ Return(t, {}) /\ UNCHANGED <<globals, arenaPtr, arenaEnd, arenaBase, arenaGen>>
  BY DEF ColdSystem, ColdNoSlab, locals
<1>2. threadIdx' \in {threadIdx, threadIdx + 1} /\ noSlab' \in [Threads -> BOOLEAN]
  BY DEF ColdSystem, ColdNoSlab, locals, ArenaInv, TypeOK
<1>3. seenActive' \in [Threads -> Nat] /\ g \in seenGen[t]..generation /\ seenGen' = [seenGen EXCEPT ![t] = g]
  BY <1>1, LoadGenerationSees DEF LoadGeneration
<1> QED
  BY <1>1, <1>2, <1>3, SystemReturnKeepsArenaInv

(* Two different slab bases are a slab apart. *)
LEMMA BasesApart ==
    ASSUME NEW p, NEW q, p # q,
           NEW i \in 0..MaxThreads - 1, NEW j \in 0..MaxThreads - 1,
           p = SlabBase(i), q = SlabBase(j)
    PROVE  p + SlabSize <= q \/ q + SlabSize <= p
<1>1. i \in Nat /\ j \in Nat /\ i # j
  BY SlabAssumption
<1>2. CASE i < j
  BY <1>1, <1>2, SlabsApart
<1>3. CASE j < i
  BY <1>1, <1>3, SlabsApart
<1> QED
  BY <1>1, <1>2, <1>3

(* The step that hands out a new block b: t's cursor ends at b's end, its base  *)
(* is in place, no synchronised block of t lies above b's start, and every      *)
(* other thread's base and cursor are untouched.                                *)
LEMMA NewBlockKeepsBlocks ==
    ASSUME ArenaInv, NEW t \in Threads, NEW g, LoadGeneration(t, g),
           NEW blocks \in SUBSET Block,
           live' \subseteq live \cup blocks,
           CursorsInSlab', SlabsDistinct', TypeOK',
           UNCHANGED globals,
           arenaGen'[t] = g, arenaBase'[t] # 0,
           \A u \in Threads \ {t} : /\ arenaBase'[u] = arenaBase[u]
                                   /\ arenaPtr'[u] = arenaPtr[u]
                                   /\ arenaGen'[u] = arenaGen[u],
           \A c \in live : c.owner = t => arenaBase'[t] = arenaBase[t],
           \A c \in live : c.owner = t /\ c.synced => c.hi <= arenaPtr'[t] /\ \A b \in blocks : c.hi <= b.lo,
           \A b \in blocks : /\ b.owner = t /\ b.synced = Synced(t)
                            /\ arenaBase'[t] <= b.lo /\ b.lo < b.hi
                            /\ b.hi = arenaPtr'[t],
           \A b, c \in blocks : b = c
    PROVE  BlocksBelowCursor' /\ BlocksInSlab' /\ SyncedBlocksDisjoint'
<1> USE DEF ArenaInv, globals
<1>1. \A c \in live \cup blocks : c.owner \in Threads /\ c.lo \in Nat /\ c.hi \in Nat /\ c.synced \in BOOLEAN
  BY DEF TypeOK, Block
<1>2. /\ g \in Nat /\ (Synced(t) => g = generation)
      /\ \A c \in live : c.synced /\ c.owner = t => g = generation
      /\ seenGen' = [seenGen EXCEPT ![t] = g]
      /\ \A u \in Threads : seenGen[u] = generation => seenGen'[u] = generation
  BY LoadGenerationSees
<1>3. seenGen'[t] = g
  BY <1>2 DEF TypeOK
<1>4. BlocksBelowCursor'
  <2> SUFFICES ASSUME NEW c \in live', c.synced
               PROVE  /\ arenaGen'[c.owner] = generation
                      /\ seenGen'[c.owner] = generation
                      /\ c.hi <= arenaPtr'[c.owner]
    BY DEF BlocksBelowCursor
  <2>1. CASE c \in blocks
    BY <1>1, <1>2, <1>3, <2>1
  <2>2. CASE c \in live /\ c.owner = t
    BY <1>1, <1>2, <1>3, <2>2
  <2>3. CASE c \in live /\ c.owner # t
    BY <1>1, <1>2, <2>3 DEF BlocksBelowCursor
  <2> QED BY <2>1, <2>2, <2>3
<1>5. BlocksInSlab'
  <2> SUFFICES ASSUME NEW c \in live'
               PROVE  /\ arenaBase'[c.owner] # 0
                      /\ arenaBase'[c.owner] <= c.lo /\ c.lo < c.hi
                      /\ c.hi <= arenaBase'[c.owner] + SlabSize
    BY DEF BlocksInSlab
  <2>1. CASE c \in blocks
    <3>1. arenaPtr'[t] <= arenaEnd'[t] /\ arenaEnd'[t] = arenaBase'[t] + SlabSize
      BY DEF CursorsInSlab
    <3>2. c.hi <= arenaBase'[t] + SlabSize
      BY <2>1, <3>1
    <3> QED BY <2>1, <3>2
  <2>2. CASE c \in live
    <3>1. arenaBase'[c.owner] = arenaBase[c.owner]
      BY <1>1, <2>2
    <3> QED BY <2>2, <3>1 DEF BlocksInSlab
  <2> QED BY <2>1, <2>2
<1>6. SyncedBlocksDisjoint'
  <2> SUFFICES ASSUME NEW b \in live', NEW c \in live', b.synced, c.synced, b # c
               PROVE  Disjoint(b, c)
    BY DEF SyncedBlocksDisjoint, Disjoint
  <2>0. b \in live \cup blocks /\ c \in live \cup blocks
    OBVIOUS
  <2>1. CASE b.owner # c.owner
    <3>1. PICK i \in 0..MaxThreads - 1 : arenaBase'[b.owner] = SlabBase(i)
      BY <1>1, <1>5, <2>0 DEF CursorsInSlab, BlocksInSlab
    <3>2. PICK j \in 0..MaxThreads - 1 : arenaBase'[c.owner] = SlabBase(j)
      BY <1>1, <1>5, <2>0 DEF CursorsInSlab, BlocksInSlab
    <3>3. arenaBase'[b.owner] # arenaBase'[c.owner]
      BY <1>1, <1>5, <2>0, <2>1 DEF SlabsDistinct, BlocksInSlab
    <3>4. \/ arenaBase'[b.owner] + SlabSize <= arenaBase'[c.owner]
          \/ arenaBase'[c.owner] + SlabSize <= arenaBase'[b.owner]
      BY <3>1, <3>2, <3>3, BasesApart
    <3>5. arenaBase'[b.owner] \in Nat /\ arenaBase'[c.owner] \in Nat
      BY <1>1, <2>0 DEF TypeOK
    <3>6. /\ arenaBase'[b.owner] <= b.lo /\ b.hi <= arenaBase'[b.owner] + SlabSize
          /\ arenaBase'[c.owner] <= c.lo /\ c.hi <= arenaBase'[c.owner] + SlabSize
      BY <1>5 DEF BlocksInSlab
    <3> QED
      BY <1>1, <2>0, <3>4, <3>5, <3>6, SlabAssumption DEF Disjoint
  <2>2. CASE b \in live /\ c \in live
    BY <2>2 DEF SyncedBlocksDisjoint
  <2>3. CASE b \in blocks /\ c \in live /\ c.owner = t
    BY <2>3 DEF Disjoint
  <2>4. CASE c \in blocks /\ b \in live /\ b.owner = t
    BY <2>4 DEF Disjoint
  <2> QED
    BY <2>0, <2>1, <2>2, <2>3, <2>4
<1> QED BY <1>4, <1>5, <1>6

(* The bump of the fast path. *)
LEMMA HotBumpKeepsArenaInv ==
    ASSUME ArenaInv, NEW t \in Threads, NEW g, HotBump(t, g)
    PROVE  ArenaInv'
<1> USE DEF ArenaInv
<1> DEFINE b == Fitted(t, arenaPtr[t])
<1>1. /\ pc[t] = "hot" /\ LoadGeneration(t, g) /\ arenaGen[t] = g
      /\ b.hi <= arenaEnd[t] /\ arenaPtr' = [arenaPtr EXCEPT ![t] = b.hi]
      /\ Return(t, {b})
      /\ UNCHANGED <<globals, arenaEnd, arenaBase, arenaGen, noSlab, threadIdx>>
  BY DEF HotBump
<1>2. /\ b \in Block /\ b.owner = t /\ b.synced = Synced(t)
      /\ arenaPtr[t] <= b.lo /\ b.lo < b.hi
  BY <1>1, FittedBlock DEF TypeOK
<1> HIDE DEF b
<1>3. b.lo \in Nat /\ b.hi \in Nat /\ arenaPtr[t] \in Nat /\ arenaEnd[t] \in Nat /\ arenaBase[t] \in Nat
  BY <1>2 DEF Block, TypeOK
<1>4. arenaBase[t] # 0 /\ arenaBase[t] <= arenaPtr[t] /\ arenaEnd[t] = arenaBase[t] + SlabSize
  BY <1>1, <1>2, <1>3 DEF CursorsInSlab
<1>5. /\ seenGen' \in [Threads -> Nat] /\ seenActive' \in [Threads -> Nat]
      /\ \A u \in Threads : seenGen'[u] <= generation /\ (seenGen[u] = generation => seenGen'[u] = generation)
  BY <1>1, LoadGenerationSees
<1>6. arenaPtr' \in [Threads -> Nat] /\ arenaPtr'[t] = b.hi /\ \A u \in Threads \ {t} : arenaPtr'[u] = arenaPtr[u]
  BY <1>1, <1>3 DEF TypeOK
<1>7. /\ live' \subseteq live \cup {b}
      /\ pc' = [pc EXCEPT ![t] = "app"] /\ call' = [call EXCEPT ![t] = NoRequest]
  BY <1>1 DEF Return
<1>8. TypeOK'
  <2>1. call' \in [Threads -> Request] /\ pc' \in [Threads -> {"app", "active", "hot", "cold"}]
    BY <1>7 DEF TypeOK, Request, NoRequest
  <2>2. live' \in SUBSET Block
    BY <1>2, <1>7 DEF TypeOK
  <2> QED BY <1>1, <1>5, <1>6, <2>1, <2>2 DEF TypeOK, globals
<1>9. CursorsInSlab' /\ SlabsDistinct'
  BY <1>1, <1>2, <1>3, <1>4, <1>6 DEF CursorsInSlab, SlabsDistinct
<1>10. RequestsPositive' /\ SyncedSeeGeneration'
  BY <1>1, <1>5, <1>7 DEF RequestsPositive, SyncedSeeGeneration, Synced, globals, TypeOK
<1>11. \A c \in live : c.owner = t /\ c.synced => c.hi <= arenaPtr'[t] /\ c.hi <= b.lo
  <2>1. \A c \in live : c.hi \in Nat
    BY DEF TypeOK, Block
  <2> QED BY <1>2, <1>3, <1>6, <2>1 DEF BlocksBelowCursor
<1>12. BlocksBelowCursor' /\ BlocksInSlab' /\ SyncedBlocksDisjoint'
  <2> DEFINE blocks == {b}
  <2>1. /\ blocks \in SUBSET Block /\ live' \subseteq live \cup blocks
        /\ \A c \in live : c.owner = t /\ c.synced => c.hi <= arenaPtr'[t] /\ \A d \in blocks : c.hi <= d.lo
        /\ \A d \in blocks : /\ d.owner = t /\ d.synced = Synced(t)
                             /\ arenaBase[t] <= d.lo /\ d.lo < d.hi
                             /\ d.hi = arenaPtr'[t]
        /\ \A c, d \in blocks : c = d
    BY <1>2, <1>3, <1>4, <1>6, <1>7, <1>11
  <2> HIDE DEF blocks
  <2> QED
    BY <1>1, <1>4, <1>6, <1>8, <1>9, <2>1, NewBlockKeepsBlocks
<1> QED BY <1>8, <1>9, <1>10, <1>12

(* The lazy reset: the claim of a slab, and the block at its base. *)
LEMMA ColdResetKeepsArenaInv ==
    ASSUME ArenaInv, NEW t \in Threads, NEW g, ColdReset(t, g)
    PROVE  ArenaInv'
<1> USE DEF ArenaInv
<1> DEFINE base == SlabOf(t)
           b == Fitted(t, base)
           fits == b.hi <= base + SlabSize
           blocks == IF fits THEN {b} ELSE {}
<1>1. /\ pc[t] = "cold" /\ LoadGeneration(t, g) /\ ~noSlab[t] /\ arenaGen[t] # g
      /\ arenaBase[t] = 0 => threadIdx < MaxThreads
      /\ threadIdx' = IF arenaBase[t] = 0 THEN threadIdx + 1 ELSE threadIdx
      /\ arenaBase' = [arenaBase EXCEPT ![t] = base]
      /\ arenaEnd' = [arenaEnd EXCEPT ![t] = base + SlabSize]
      /\ arenaGen' = [arenaGen EXCEPT ![t] = g]
      /\ arenaPtr' = [arenaPtr EXCEPT ![t] = IF fits THEN b.hi ELSE base]
      /\ Return(t, blocks)
      /\ UNCHANGED <<globals, noSlab>>
  BY DEF ColdReset, ClaimedIdx
<1>2. PICK i \in 0..MaxThreads - 1 : i < threadIdx' /\ base = SlabBase(i) /\ (arenaBase[t] = 0 => i = threadIdx)
  <2>1. CASE arenaBase[t] = 0
    BY <1>1, <2>1, SlabAssumption DEF SlabOf, TypeOK
  <2>2. CASE arenaBase[t] # 0
    BY <1>1, <2>2 DEF SlabOf, CursorsInSlab
  <2> QED BY <2>1, <2>2
<1>3. base \in Nat \ {0}
  <2>1. i \in Nat /\ i + 1 \in Nat /\ i < i + 1
    BY SlabAssumption
  <2>2. SlabBase(i) \in Nat \ {0}
    BY <2>1, SlabsApart
  <2> QED BY <1>2, <2>2
<1> HIDE DEF base
<1>4. /\ b \in Block /\ b.owner = t /\ b.synced = Synced(t)
      /\ base <= b.lo /\ b.lo < b.hi
  BY <1>1, <1>3, FittedBlock
<1> HIDE DEF b
<1>5. b.lo \in Nat /\ b.hi \in Nat
  BY <1>4 DEF Block
<1>6. /\ g \in Nat /\ seenGen' \in [Threads -> Nat] /\ seenActive' \in [Threads -> Nat]
      /\ \A u \in Threads : seenGen'[u] <= generation /\ (seenGen[u] = generation => seenGen'[u] = generation)
      /\ \A c \in live : c.synced /\ c.owner = t => g = generation
  BY <1>1, LoadGenerationSees
<1>7. /\ arenaPtr' \in [Threads -> Nat] /\ arenaBase' \in [Threads -> Nat]
      /\ arenaEnd' \in [Threads -> Nat] /\ arenaGen' \in [Threads -> Nat] /\ threadIdx' \in Nat
      /\ arenaPtr'[t] = (IF fits THEN b.hi ELSE base)
      /\ arenaBase'[t] = base /\ arenaEnd'[t] = base + SlabSize /\ arenaGen'[t] = g
  BY <1>1, <1>3, <1>5, <1>6, SlabAssumption DEF TypeOK
<1>8. \A u \in Threads \ {t} : /\ arenaBase'[u] = arenaBase[u] /\ arenaPtr'[u] = arenaPtr[u]
                              /\ arenaEnd'[u] = arenaEnd[u] /\ arenaGen'[u] = arenaGen[u]
  BY <1>1 DEF TypeOK
<1>9. /\ live' \subseteq live \cup blocks
      /\ pc' = [pc EXCEPT ![t] = "app"] /\ call' = [call EXCEPT ![t] = NoRequest]
  BY <1>1 DEF Return
<1>10. TypeOK'
  <2>1. call' \in [Threads -> Request] /\ pc' \in [Threads -> {"app", "active", "hot", "cold"}]
    BY <1>9 DEF TypeOK, Request, NoRequest
  <2>2. live' \in SUBSET Block
    BY <1>4, <1>9 DEF TypeOK
  <2> QED BY <1>1, <1>6, <1>7, <2>1, <2>2 DEF TypeOK, globals
<1>11. CursorsInSlab'
  <2> SUFFICES ASSUME NEW u \in Threads
               PROVE  /\ arenaBase'[u] = 0 => arenaPtr'[u] = 0 /\ arenaEnd'[u] = 0
                      /\ arenaBase'[u] # 0 =>
                            /\ arenaEnd'[u] = arenaBase'[u] + SlabSize
                            /\ arenaBase'[u] <= arenaPtr'[u] /\ arenaPtr'[u] <= arenaEnd'[u]
                            /\ \E j \in 0..MaxThreads - 1 : j < threadIdx' /\ arenaBase'[u] = SlabBase(j)
    BY DEF CursorsInSlab
  <2>1. CASE u = t
    BY <1>2, <1>3, <1>4, <1>5, <1>7, <2>1, SlabAssumption
  <2>2. CASE u # t
    <3>1. \A j \in 0..MaxThreads - 1 : j < threadIdx => j < threadIdx'
      BY <1>1, SlabAssumption DEF TypeOK
    <3> QED BY <1>8, <2>2, <3>1 DEF CursorsInSlab
  <2> QED BY <2>1, <2>2
<1>12. SlabsDistinct'
  <2> SUFFICES ASSUME NEW u \in Threads \ {t}
               PROVE  arenaBase'[u] # base
    BY <1>3, <1>7, <1>8 DEF SlabsDistinct
  <2>1. CASE arenaBase[t] # 0
    BY <1>8, <2>1 DEF SlabsDistinct, SlabOf, base
  <2>2. CASE arenaBase[t] = 0 /\ arenaBase[u] # 0
    <3>1. PICK j \in 0..MaxThreads - 1 : j < threadIdx /\ arenaBase[u] = SlabBase(j)
      BY <2>2 DEF CursorsInSlab
    <3>2. i = threadIdx /\ j \in Nat /\ i \in Nat /\ j < i
      BY <1>2, <2>2, <3>1, SlabAssumption DEF TypeOK
    <3>3. SlabBase(j) + SlabSize <= SlabBase(i) /\ SlabBase(j) \in Nat /\ SlabBase(i) \in Nat
      BY <3>2, SlabsApart
    <3> QED BY <1>2, <1>8, <3>1, <3>3, SlabAssumption
  <2>3. CASE arenaBase[u] = 0
    BY <1>3, <1>8, <2>3
  <2> QED BY <2>1, <2>2, <2>3
<1>13. RequestsPositive' /\ SyncedSeeGeneration'
  BY <1>1, <1>6, <1>9 DEF RequestsPositive, SyncedSeeGeneration, Synced, globals, TypeOK
<1>14. \A c \in live : c.owner = t => arenaBase'[t] = arenaBase[t] /\ ~c.synced
  <2> SUFFICES ASSUME NEW c \in live, c.owner = t
               PROVE  arenaBase'[t] = arenaBase[t] /\ ~c.synced
    OBVIOUS
  <2>1. arenaBase'[t] = arenaBase[t]
    BY <1>7 DEF BlocksInSlab, SlabOf, base
  <2>2. c.synced => arenaGen[t] = generation /\ g = generation
    BY <1>6 DEF BlocksBelowCursor
  <2> QED BY <1>1, <2>1, <2>2
<1>15. BlocksBelowCursor' /\ BlocksInSlab' /\ SyncedBlocksDisjoint'
  <2>1. /\ blocks \in SUBSET Block
        /\ \A d \in blocks : /\ d.owner = t /\ d.synced = Synced(t)
                             /\ arenaBase'[t] <= d.lo /\ d.lo < d.hi
                             /\ d.hi = arenaPtr'[t]
        /\ \A c, d \in blocks : c = d
    BY <1>4, <1>7
  <2>2. arenaBase'[t] # 0
    BY <1>3, <1>7
  <2> HIDE DEF blocks
  <2>3. /\ \A c \in live : c.owner = t => arenaBase'[t] = arenaBase[t]
        /\ \A c \in live : c.owner = t /\ c.synced => c.hi <= arenaPtr'[t] /\ \A d \in blocks : c.hi <= d.lo
    BY <1>14
  <2>4. LoadGeneration(t, g) /\ UNCHANGED globals /\ arenaGen'[t] = g
    BY <1>1, <1>7
  <2>5. live' \subseteq live \cup blocks
    BY <1>9
  <2> QED
    BY <1>8, <1>10, <1>11, <1>12, <2>1, <2>2, <2>3, <2>4, <2>5, NewBlockKeepsBlocks
<1> QED BY <1>10, <1>11, <1>12, <1>13, <1>15

(* ArenaInv is inductive. *)
THEOREM NextArenaInv == ArenaInv /\ [Next]_vars => ArenaInv'
<1> SUFFICES ASSUME ArenaInv, [Next]_vars PROVE ArenaInv'
  OBVIOUS
<1>1. CASE PhaseStep
  BY <1>1, PhaseKeepsArenaInv
<1>2. ASSUME NEW t \in Threads, AllocStep(t) PROVE ArenaInv'
  <2>1. CASE LoadActive(t)
    BY <2>1, LoadActiveKeepsArenaInv
  <2>2. ASSUME NEW g, HotBump(t, g) PROVE ArenaInv'
    BY <2>2, HotBumpKeepsArenaInv
  <2>3. ASSUME NEW g, HotMiss(t, g) PROVE ArenaInv'
    BY <2>3, HotMissKeepsArenaInv
  <2>4. ASSUME NEW g, ColdSystem(t, g) \/ ColdNoSlab(t, g) PROVE ArenaInv'
    BY <2>4, ColdReturnKeepsArenaInv
  <2>5. ASSUME NEW g, ColdReset(t, g) PROVE ArenaInv'
    BY <2>5, ColdResetKeepsArenaInv
  <2> QED
    BY <1>2, <2>1, <2>2, <2>3, <2>4, <2>5 DEF AllocStep
<1>3. ASSUME NEW t \in Threads, AppStep(t, live) PROVE ArenaInv'
  BY <1>3, PhaseKeepsArenaInv, AppKeepsArenaInv, LayoutAssumption DEF AppStep
<1>4. ASSUME NEW b \in live, Dealloc(b) PROVE ArenaInv'
  BY <1>4, AppKeepsArenaInv, ThreadsAssumption
<1>5. CASE UNCHANGED vars
  BY <1>5 DEF vars, globals, locals, views, ArenaInv, TypeOK, CursorsInSlab, SyncedSeeGeneration, Synced,
     BlocksBelowCursor, BlocksInSlab, SlabsDistinct, RequestsPositive, SyncedBlocksDisjoint
<1> QED
  BY <1>1, <1>2, <1>3, <1>4, <1>5 DEF Next

(* Type correctness of the arena, for any number of threads, slabs and phases.   *)
THEOREM ArenaTypeCorrect == Spec => []TypeOK
<1>1. ArenaInv => TypeOK
  BY DEF ArenaInv
<1> QED
  BY <1>1, InitArenaInv, NextArenaInv, PTL DEF Spec

(* No address is handed out twice in a phase to synchronised threads. *)
THEOREM ArenaBlocksDisjoint == Spec => []SyncedBlocksDisjoint
<1>1. ArenaInv => SyncedBlocksDisjoint
  BY DEF ArenaInv
<1> QED
  BY <1>1, InitArenaInv, NextArenaInv, PTL DEF Spec

(* No two threads share a slab, and no block leaves its owner's slab. *)
THEOREM ArenaSlabsPartitioned == Spec => []SlabsPartitioned
<1>1. ArenaInv => SlabsPartitioned
  BY DEF ArenaInv, SlabsPartitioned, SlabsDistinct, BlocksInSlab
<1> QED
  BY <1>1, InitArenaInv, NextArenaInv, PTL DEF Spec

-----------------------------------------------------------------------------

(* The stores to ARENA_ACTIVE whose value t may know after a step. *)
Views(t) == {seenActive[t]} \cup (seenActive[t]..activeStores)

(* What any step of an allocation does: it goes on, or it returns with at most *)
(* one block, of its thread; the system serves it if the arena is off for it. *)
LEMMA AllocStepIs ==
    ASSUME ArenaInv, NEW t \in Threads, AllocStep(t)
    PROVE  /\ UNCHANGED globals /\ pc[t] # "app"
           /\ \E k \in Views(t) : seenActive' = [seenActive EXCEPT ![t] = k]
           /\ \/ /\ pc' \in {[pc EXCEPT ![t] = "hot"], [pc EXCEPT ![t] = "cold"]}
                 /\ UNCHANGED <<call, live>>
                 /\ pc[t] = "active" => \E k \in Views(t) : ActiveAt(k)
              \/ \E blocks \in SUBSET Block :
                    /\ Return(t, blocks)
                    /\ \A b \in blocks : b.owner = t /\ b.synced = Synced(t)
                    /\ \A b, c \in blocks : b = c
                    /\ pc[t] = "active" => blocks = {}
<1>1. CASE LoadActive(t)
  <2>1. PICK k \in seenActive[t]..activeStores :
          /\ seenActive' = [seenActive EXCEPT ![t] = k]
          /\ \/ ActiveAt(k) /\ pc' = [pc EXCEPT ![t] = "hot"] /\ UNCHANGED <<call, live>>
             \/ ~ActiveAt(k) /\ Return(t, {})
    BY <1>1 DEF LoadActive
  <2>2. UNCHANGED globals /\ pc[t] = "active"
    BY <1>1 DEF LoadActive
  <2>3. k \in Views(t)
    BY DEF Views
  <2> QED
    BY <2>1, <2>2, <2>3
<1>2. ASSUME NEW g, LoadGeneration(t, g)
      PROVE  \E k \in Views(t) : seenActive' = [seenActive EXCEPT ![t] = k]
  <2>1. seenActive' = [seenActive EXCEPT ![t] = seenActive[t]]
    BY <1>2 DEF LoadGeneration, ArenaInv, TypeOK
  <2> QED
    BY <2>1 DEF Views
<1>3. ASSUME NEW g, HotMiss(t, g)
      PROVE  /\ UNCHANGED <<globals, call, live>> /\ LoadGeneration(t, g)
             /\ pc[t] = "hot" /\ pc' = [pc EXCEPT ![t] = "cold"]
  BY <1>3 DEF HotMiss
<1>4. ASSUME NEW g, ColdSystem(t, g) \/ ColdNoSlab(t, g)
      PROVE  UNCHANGED globals /\ LoadGeneration(t, g) /\ pc[t] = "cold" /\ Return(t, {})
  BY <1>4 DEF ColdSystem, ColdNoSlab
<1>5. ASSUME NEW b \in Block, b.owner = t, b.synced = Synced(t)
      PROVE  /\ {b} \in SUBSET Block /\ {} \in SUBSET Block
             /\ \A c \in {b} : c.owner = t /\ c.synced = Synced(t)
             /\ \A c, d \in {b} : c = d
  BY <1>5
<1>6. ASSUME NEW g, HotBump(t, g)
      PROVE  /\ UNCHANGED globals /\ LoadGeneration(t, g) /\ pc[t] = "hot"
             /\ \E b \in Block : b.owner = t /\ b.synced = Synced(t) /\ Return(t, {b})
  <2> DEFINE b == Fitted(t, arenaPtr[t])
  <2>1. UNCHANGED globals /\ LoadGeneration(t, g) /\ pc[t] = "hot" /\ Return(t, {b})
    BY <1>6 DEF HotBump
  <2>2. arenaPtr[t] \in Nat
    BY DEF ArenaInv, TypeOK
  <2>3. b \in Block /\ b.owner = t /\ b.synced = Synced(t)
    BY <2>1, <2>2, FittedBlock DEF ArenaInv
  <2> QED
    BY <2>1, <2>3
<1>7. ASSUME NEW g, ColdReset(t, g)
      PROVE  /\ UNCHANGED globals /\ LoadGeneration(t, g) /\ pc[t] = "cold"
             /\ Return(t, {}) \/ \E b \in Block : b.owner = t /\ b.synced = Synced(t) /\ Return(t, {b})
  <2> DEFINE base == SlabOf(t)
             b == Fitted(t, base)
             fits == b.hi <= base + SlabSize
  <2>1. /\ UNCHANGED globals /\ LoadGeneration(t, g) /\ pc[t] = "cold"
        /\ Return(t, IF fits THEN {b} ELSE {})
    BY <1>7 DEF ColdReset
  <2>2. base \in Nat
    BY SlabAssumption DEF SlabOf, SlabBase, ArenaInv, TypeOK
  <2>3. b \in Block /\ b.owner = t /\ b.synced = Synced(t)
    BY <2>1, <2>2, FittedBlock DEF ArenaInv
  <2> HIDE DEF b, fits
  <2> QED
    BY <2>1, <2>3
<1>8. CASE LoadActive(t)
  BY <1>1, <1>8
<1>9. ASSUME NEW g, HotBump(t, g) \/ HotMiss(t, g) \/ ColdSystem(t, g) \/ ColdNoSlab(t, g) \/ ColdReset(t, g)
      PROVE  /\ UNCHANGED globals /\ pc[t] # "app" /\ pc[t] # "active" /\ LoadGeneration(t, g)
             /\ \/ pc' = [pc EXCEPT ![t] = "cold"] /\ UNCHANGED <<call, live>>
                \/ Return(t, {})
                \/ \E b \in Block : b.owner = t /\ b.synced = Synced(t) /\ Return(t, {b})
  BY <1>3, <1>4, <1>6, <1>7, <1>9
<1>10. CASE \E g \in seenGen[t]..generation :
              HotBump(t, g) \/ HotMiss(t, g) \/ ColdSystem(t, g) \/ ColdNoSlab(t, g) \/ ColdReset(t, g)
  <2>1. PICK g : HotBump(t, g) \/ HotMiss(t, g) \/ ColdSystem(t, g) \/ ColdNoSlab(t, g) \/ ColdReset(t, g)
    BY <1>10
  <2>2. /\ UNCHANGED globals /\ pc[t] # "app" /\ pc[t] # "active"
        /\ \E k \in Views(t) : seenActive' = [seenActive EXCEPT ![t] = k]
    BY <1>2, <1>9, <2>1
  <2>3. CASE pc' = [pc EXCEPT ![t] = "cold"] /\ UNCHANGED <<call, live>>
    BY <2>2, <2>3
  <2>4. CASE Return(t, {})
    <3>1. \E blocks \in SUBSET Block :
             /\ Return(t, blocks)
             /\ \A b \in blocks : b.owner = t /\ b.synced = Synced(t)
             /\ \A b, c \in blocks : b = c
      BY <2>4
    <3> QED BY <2>2, <3>1
  <2>5. ASSUME NEW b \in Block, b.owner = t, b.synced = Synced(t), Return(t, {b})
        PROVE  \E blocks \in SUBSET Block :
                    /\ Return(t, blocks)
                    /\ \A c \in blocks : c.owner = t /\ c.synced = Synced(t)
                    /\ \A c, d \in blocks : c = d
    BY <1>5, <2>5
  <2> QED
    BY <1>9, <2>1, <2>2, <2>3, <2>4, <2>5
<1> QED
  BY <1>8, <1>10 DEF AllocStep

-----------------------------------------------------------------------------
(* The arena is used while it is on (ArenaUsedWhileActive).                    *)

(* Before the first phase. *)
LEMMA InitUseInv == Init => UseInv
<1> SUFFICES ASSUME Init PROVE UseInv
  OBVIOUS
<1>1. ~ActiveAt(0)
  BY DEF ActiveAt
<1>2. ActiveKnown /\ ColdForAReason
  BY <1>1 DEF Init, ActiveKnown, ColdForAReason
<1> QED
  BY <1>2, InitArenaInv DEF UseInv

(* The stores of begin_phase and end_phase are made when no job runs. *)
LEMMA PhaseKeepsUseInv ==
    ASSUME UseInv, PhaseStep
    PROVE  ActiveKnown' /\ ColdForAReason'
<1>1. ArenaInv /\ ActiveKnown /\ inJob' = inJob /\ inJob = {} /\ pc' = pc /\ pc[Main] = "app"
      /\ Main \in Threads /\ activeStores \in Nat /\ seenActive \in [Threads -> Nat]
  BY ThreadsAssumption DEF UseInv, ArenaInv, TypeOK, ActiveKnown, PhaseStep, BeginPhase, ActivateArena, EndPhase, MainAtRest
<1>2. \A t \in Threads : Synced(t)' => t = Main
  BY <1>1 DEF Synced
<1>3. ColdForAReason'
  BY <1>1, <1>2 DEF ColdForAReason
<1>4. CASE BeginPhase
  <2>1. UNCHANGED <<activeStores, seenActive, inJob>> /\ phase = "idle" /\ phase' = "beginning"
    BY <1>4 DEF BeginPhase
  <2> QED BY <1>1, <1>3, <2>1 DEF ActiveKnown, Synced
<1>5. CASE ActivateArena \/ EndPhase
  <2>1. /\ activeStores' = activeStores + 1 /\ seenActive' = [seenActive EXCEPT ![Main] = activeStores + 1]
        /\ (phase = "beginning" /\ phase' = "proving") \/ (phase = "proving" /\ phase' = "idle")
    BY <1>5 DEF ActivateArena, EndPhase
  <2>2. seenActive'[Main] = activeStores'
    BY <1>1, <2>1
  <2>3. ActiveAt(activeStores') <=> ~ActiveAt(activeStores)
    BY <1>1, <2>1 DEF ActiveAt
  <2>4. ActiveAt(activeStores') <=> phase' = "proving"
    BY <1>1, <2>1, <2>3 DEF ActiveKnown
  <2> QED BY <1>1, <1>2, <1>3, <2>1, <2>2, <2>4 DEF ActiveKnown
<1> QED
  BY <1>3, <1>4, <1>5 DEF PhaseStep

(* Steps outside the calls of the allocator. *)
LEMMA AppKeepsUseInv ==
    ASSUME UseInv, NEW t \in Threads,
           AppStep(t, live) \/ (\E b \in live : Dealloc(b)) \/ UNCHANGED vars
    PROVE  ActiveKnown' /\ ColdForAReason'
<1>1. /\ ArenaInv /\ ActiveKnown /\ ColdForAReason
      /\ pc \in [Threads -> {"app", "active", "hot", "cold"}] /\ call \in [Threads -> Request]
      /\ seenActive \in [Threads -> Nat] /\ inJob \in SUBSET (Threads \ {Main})
  BY DEF UseInv, ArenaInv, TypeOK
<1>2. CASE StartJob(t) \/ FinishJob(t)
  <2>1. /\ UNCHANGED <<generation, activeStores, phase, pc, call, arenaGen, arenaPtr, arenaEnd>>
        /\ phase = "beginning" => inJob' = {}
        /\ pc[t] = "app" /\ inJob' \in {inJob \cup {t}, inJob \ {t}}
    BY <1>1, <1>2 DEF StartJob, FinishJob, locals, ActiveKnown
  <2>2. \A u \in Threads : Synced(u)' => seenActive'[u] = activeStores
    BY <1>1, <1>2 DEF StartJob, FinishJob, views, Synced, ActiveKnown
  <2>3. ActiveKnown'
    BY <1>1, <2>1, <2>2 DEF ActiveKnown
  <2>4. ColdForAReason'
    BY <1>1, <2>1 DEF ColdForAReason, Synced, Fitted
  <2> QED BY <2>3, <2>4
<1>3. ASSUME NEW request, Enter(t, request)
      PROVE  ActiveKnown' /\ ColdForAReason'
  <2>1. /\ UNCHANGED <<generation, activeStores, phase, inJob, seenActive, arenaGen, arenaPtr, arenaEnd>>
        /\ pc' = [pc EXCEPT ![t] = "active"] /\ call' = [call EXCEPT ![t] = request]
    BY <1>3 DEF Enter, globals, locals, views
  <2>2. ActiveKnown'
    BY <1>1, <2>1 DEF ActiveKnown, Synced
  <2>3. \A u \in Threads : pc'[u] = "cold" => u # t /\ pc[u] = "cold" /\ call'[u] = call[u]
    BY <1>1, <2>1
  <2>4. ColdForAReason'
    BY <1>1, <2>1, <2>3 DEF ColdForAReason, Synced, Fitted
  <2> QED BY <2>2, <2>4
<1>4. CASE \/ (\E b \in live, size \in Sizes : ReallocInPlace(t, b, size))
           \/ (\E b \in live : Dealloc(b))
           \/ UNCHANGED vars
  <2>1. UNCHANGED <<generation, activeStores, phase, inJob, seenActive, pc, call, arenaGen, arenaPtr, arenaEnd>>
    BY <1>4 DEF ReallocInPlace, Dealloc, vars, globals, locals, views
  <2>2. ActiveKnown' /\ ColdForAReason'
    BY <1>1, <2>1 DEF ActiveKnown, ColdForAReason, Synced, Fitted
  <2> QED BY <2>2
<1> QED
  BY <1>2, <1>3, <1>4 DEF AppStep, Alloc, ReallocGrow

(* A call that reaches the cold path missed for the generation or for room. *)
LEMMA AllocKeepsUseInv ==
    ASSUME UseInv, NEW t \in Threads, AllocStep(t)
    PROVE  ActiveKnown' /\ ColdForAReason'
<1>1. /\ ArenaInv /\ TypeOK /\ ActiveKnown /\ ColdForAReason
      /\ activeStores \in Nat
  BY DEF UseInv, ArenaInv, TypeOK
<1>2. UNCHANGED <<generation, activeStores, phase, inJob>>
  BY <1>1, AllocStepIs DEF globals
<1>3. ActiveKnown'
  <2>1. PICK k \in Views(t) : seenActive' = [seenActive EXCEPT ![t] = k]
    BY <1>1, AllocStepIs
  <2>2. Synced(t) => k = activeStores
    BY <1>1, <2>1 DEF Views, ActiveKnown
  <2>3. \A u \in Threads : Synced(u) => seenActive'[u] = activeStores
    BY <1>1, <2>1, <2>2 DEF ActiveKnown, TypeOK
  <2> QED BY <1>1, <1>2, <2>3 DEF ActiveKnown, Synced
<1>4. ASSUME NEW g, HotMiss(t, g) PROVE ColdForAReason'
  <2>1. /\ g \in seenGen[t]..generation /\ pc' = [pc EXCEPT ![t] = "cold"]
        /\ arenaGen[t] # g \/ Fitted(t, arenaPtr[t]).hi > arenaEnd[t]
        /\ UNCHANGED <<generation, inJob, call, arenaGen, arenaPtr, arenaEnd>>
    BY <1>4 DEF HotMiss, LoadGeneration, globals, locals
  <2>2. Synced(t) => g = generation
    BY <1>1, <1>4, LoadGenerationSees DEF HotMiss
  <2>3. \A u \in Threads \ {t} : pc'[u] = pc[u]
    BY <1>1, <2>1 DEF TypeOK
  <2>4. \A u \in Threads : pc'[u] = "cold" /\ Synced(u) =>
            arenaGen[u] # generation \/ Fitted(u, arenaPtr[u]).hi > arenaEnd[u]
    BY <1>1, <2>1, <2>2, <2>3 DEF ColdForAReason
  <2> QED BY <2>1, <2>4 DEF ColdForAReason, Synced, Fitted
<1>5. ASSUME pc'[t] # "cold",
             \A u \in Threads \ {t} : /\ pc'[u] = pc[u] /\ call'[u] = call[u]
                                     /\ arenaGen'[u] = arenaGen[u] /\ arenaPtr'[u] = arenaPtr[u]
                                     /\ arenaEnd'[u] = arenaEnd[u]
      PROVE  ColdForAReason'
  BY <1>1, <1>2, <1>5 DEF ColdForAReason, Synced, Fitted
<1>6. ASSUME LoadActive(t) PROVE ColdForAReason'
  <2>1. /\ UNCHANGED <<arenaGen, arenaPtr, arenaEnd>>
        /\ \/ pc' = [pc EXCEPT ![t] = "hot"] /\ call' = call
           \/ pc' = [pc EXCEPT ![t] = "app"] /\ call' = [call EXCEPT ![t] = NoRequest]
    BY <1>6 DEF LoadActive, Return, locals
  <2> QED BY <1>1, <1>5, <2>1 DEF TypeOK
<1>7. ASSUME NEW g, HotBump(t, g) \/ ColdSystem(t, g) \/ ColdNoSlab(t, g) \/ ColdReset(t, g)
      PROVE  ColdForAReason'
  <2>1. pc' = [pc EXCEPT ![t] = "app"] /\ call' = [call EXCEPT ![t] = NoRequest]
    BY <1>7 DEF HotBump, ColdSystem, ColdNoSlab, ColdReset, Return
  <2>2. \A u \in Threads \ {t} : arenaGen'[u] = arenaGen[u] /\ arenaPtr'[u] = arenaPtr[u] /\ arenaEnd'[u] = arenaEnd[u]
    BY <1>1, <1>7 DEF HotBump, ColdSystem, ColdNoSlab, ColdReset, locals, TypeOK
  <2> QED BY <1>1, <1>5, <2>1, <2>2 DEF TypeOK
<1> QED
  BY <1>3, <1>4, <1>6, <1>7 DEF AllocStep

(* Every step of an allocation, of a job and of a phase keeps UseInv. *)
LEMMA NextUseInv == UseInv /\ [Next]_vars => UseInv'
<1> SUFFICES ASSUME UseInv, [Next]_vars PROVE UseInv'
  OBVIOUS
<1>1. ArenaInv'
  BY NextArenaInv DEF UseInv
<1>2. ActiveKnown' /\ ColdForAReason'
  BY PhaseKeepsUseInv, AllocKeepsUseInv, AppKeepsUseInv, ThreadsAssumption DEF Next
<1> QED
  BY <1>1, <1>2 DEF UseInv

(* A call ends by its own last step only. *)
LEMMA OnlyReturnEnds ==
    ASSUME UseInv, [Next]_vars, NEW t \in Threads, pc[t] # "app", pc'[t] = "app"
    PROVE  AllocStep(t)
<1>1. /\ ArenaInv /\ pc \in [Threads -> {"app", "active", "hot", "cold"}]
  BY DEF UseInv, ArenaInv, TypeOK
<1>2. PhaseStep => pc' = pc
  BY DEF PhaseStep, BeginPhase, ActivateArena, EndPhase
<1>3. ASSUME NEW u \in Threads, AllocStep(u) PROVE u = t
  BY <1>1, <1>3, AllocStepIs DEF Return
<1>4. ASSUME NEW u \in Threads, AppStep(u, live) PROVE FALSE
  <2>1. pc' = pc \/ pc' = [pc EXCEPT ![u] = "active"]
    BY <1>4 DEF AppStep, StartJob, FinishJob, Alloc, ReallocGrow, Enter, ReallocInPlace
  <2> QED BY <1>1, <2>1
<1>5. (\E b \in live : Dealloc(b)) => pc' = pc
  BY DEF Dealloc
<1>6. UNCHANGED vars => pc' = pc
  BY DEF vars
<1> QED
  BY <1>2, <1>3, <1>4, <1>5, <1>6 DEF Next

(* The blocks of a synchronised thread in this phase lie below its cursor. *)
LEMMA StepIsServed == UseInv /\ [Next]_vars => ServedByArena
<1> SUFFICES ASSUME UseInv, [Next]_vars, NEW t \in Threads,
                    pc[t] # "app", pc'[t] = "app", Synced(t), phase = "proving",
                    \A b \in live' \ live : b.owner # t
             PROVE  \/ noSlab'[t]
                    \/ /\ arenaGen'[t] = generation
                       /\ \/ Fitted(t, arenaPtr[t]).hi > arenaEnd'[t]
                          \/ Fitted(t, arenaBase'[t]).hi > arenaEnd'[t]
  BY DEF ServedByArena
<1>1. /\ ArenaInv /\ TypeOK /\ RequestsPositive /\ ActiveKnown /\ ColdForAReason /\ BlocksBelowCursor
  BY DEF UseInv, ArenaInv
<1>2. AllocStep(t)
  BY OnlyReturnEnds
<1>3. ~LoadActive(t)
  <2>1. seenActive[t] = activeStores /\ ActiveAt(activeStores) /\ activeStores \in Nat
    BY <1>1 DEF ActiveKnown, TypeOK
  <2>2. \A k \in seenActive[t]..activeStores : k = activeStores
    BY <2>1
  <2>3. LoadActive(t) => pc' = [pc EXCEPT ![t] = "hot"]
    BY <2>1, <2>2 DEF LoadActive
  <2> QED BY <1>1, <2>3 DEF TypeOK
<1>4. ASSUME NEW b \in Block, b.owner = t, b.synced, b \in live' PROVE b \in live
  BY <1>4
<1>5. ASSUME NEW g, LoadGeneration(t, g) PROVE g = generation
  BY <1>1, <1>5, LoadGenerationSees
<1>6. ASSUME NEW g, HotBump(t, g) PROVE FALSE
  <2> DEFINE b == Fitted(t, arenaPtr[t])
  <2>1. /\ b \in Block /\ b.owner = t /\ b.synced = Synced(t)
        /\ arenaPtr[t] <= b.lo /\ b.lo < b.hi
    BY <1>1, FittedBlock DEF TypeOK
  <2>2. Return(t, {b})
    BY <1>6 DEF HotBump
  <2> HIDE DEF b
  <2>3. b \in live' /\ b.lo \in Nat /\ b.hi \in Nat /\ arenaPtr[t] \in Nat
    BY <1>1, <2>1, <2>2 DEF Return, Block, TypeOK
  <2>4. b.hi <= arenaPtr[t]
    BY <1>1, <1>4, <2>1, <2>3 DEF BlocksBelowCursor
  <2> QED BY <2>1, <2>3, <2>4
<1>7. ASSUME NEW g, HotMiss(t, g) PROVE FALSE
  BY <1>1, <1>7 DEF HotMiss, TypeOK
<1>8. ASSUME NEW g, ColdSystem(t, g)
      PROVE  noSlab'[t] \/ (arenaGen'[t] = generation /\ Fitted(t, arenaPtr[t]).hi > arenaEnd'[t])
  <2>1. /\ pc[t] = "cold" /\ LoadGeneration(t, g) /\ (noSlab[t] \/ arenaGen[t] = g)
        /\ UNCHANGED <<noSlab, arenaGen, arenaEnd>>
    BY <1>8 DEF ColdSystem, locals
  <2> QED BY <1>1, <1>5, <2>1 DEF ColdForAReason
<1>9. ASSUME NEW g, ColdNoSlab(t, g) PROVE noSlab'[t]
  BY <1>1, <1>9 DEF ColdNoSlab, TypeOK
<1>10. ASSUME NEW g, ColdReset(t, g)
       PROVE  arenaGen'[t] = generation /\ Fitted(t, arenaBase'[t]).hi > arenaEnd'[t]
  <2> DEFINE base == SlabOf(t)
             b == Fitted(t, base)
             fits == b.hi <= base + SlabSize
  <2>1. /\ LoadGeneration(t, g) /\ arenaGen[t] # g
        /\ arenaBase' = [arenaBase EXCEPT ![t] = base]
        /\ arenaEnd' = [arenaEnd EXCEPT ![t] = base + SlabSize]
        /\ arenaGen' = [arenaGen EXCEPT ![t] = g]
        /\ Return(t, IF fits THEN {b} ELSE {})
    BY <1>10 DEF ColdReset
  <2>2. base \in Nat
    BY <1>1, SlabAssumption DEF SlabOf, SlabBase, TypeOK
  <2>3. b \in Block /\ b.owner = t /\ b.synced = Synced(t)
    BY <1>1, <2>2, FittedBlock
  <2> HIDE DEF base
  <2>4. arenaBase'[t] = base /\ arenaEnd'[t] = base + SlabSize /\ arenaGen'[t] = g /\ g = generation
    BY <1>1, <1>5, <2>1 DEF TypeOK
  <2>5. ~fits
    <3>1. ASSUME fits PROVE b \in live'
      BY <2>1, <3>1 DEF Return
    <3>2. b \in live => arenaGen[t] = generation
      BY <1>1, <2>3 DEF BlocksBelowCursor
    <3> QED BY <1>4, <2>1, <2>3, <2>4, <3>1, <3>2
  <2>6. b.hi \in Nat /\ base + SlabSize \in Nat
    BY <2>2, <2>3, SlabAssumption DEF Block
  <2> QED
    BY <2>4, <2>5, <2>6
<1> QED
  BY <1>2, <1>3, <1>6, <1>7, <1>8, <1>9, <1>10 DEF AllocStep

(* While the arena is on, a synchronised thread is served by it as long as its   *)
(* slab has room.                                                               *)
THEOREM ArenaIsUsed == Spec => ArenaUsedWhileActive
  BY InitUseInv, NextUseInv, StepIsServed, PTL DEF Spec, ArenaUsedWhileActive

-----------------------------------------------------------------------------
(* The queue of rayon (RayonFlush).                                           *)

(* The tail, when nothing of the phase or of the tail changes and no push is    *)
(* undone: what every step that is neither a phase's nor the growth's relies on. *)
LEMMA TailStays ==
    ASSUME QueueInv,
           UNCHANGED <<tail, tailGen, generation, phase>>,
           Pushes' \in Int, Pushes' >= Pushes,
           tail \in Block => tail \in live' /\ call'[Main].old # tail
    PROVE  TailIsLive'
<1>1. Pushes \in Int /\ BlockCap \in Int
  BY QueueAssumption DEF QueueInv, QueueTypes, Pushes
<1>2. phase = "idle" /\ Pushes >= BlockCap => Pushes' >= BlockCap
  BY <1>1
<1> QED
  BY <1>2 DEF QueueInv, TailIsLive

(* The program starts outside any phase, before rayon has a pool. *)
THEOREM InitQueueInv == QueueInit => QueueInv
<1> SUFFICES ASSUME QueueInit PROVE QueueInv
  OBVIOUS
<1>1. ArenaInv
  BY InitArenaInv DEF QueueInit
<1>2. QueueTypes /\ GrowingIsACall /\ TailIsLive
  <2>1. used = 0 /\ flushing = 0 /\ growing = FALSE /\ phase = "idle" /\ tail = NoPool
    BY DEF QueueInit, Init
  <2>2. 0 \in 0..BlockCap - 1
    BY QueueAssumption
  <2> QED
    BY <2>1, <2>2, NoTailAssumption DEF QueueTypes, GrowingIsACall, TailIsLive
<1>3. MainKnows
  <2>1. ~ActiveAt(0)
    BY DEF ActiveAt
  <2> QED
    BY <2>1, ThreadsAssumption DEF QueueInit, Init, MainKnows
<1>4. OwnersKnown
  BY DEF QueueInit, Init, OwnersKnown, NoRequest
<1> QED
  BY <1>1, <1>2, <1>3, <1>4 DEF QueueInv

(* The joins, the program's and the flush's: a push never empties a tail. *)
LEMMA JoinKeepsQueueInv ==
    ASSUME QueueInv, Join,
           flushing' = flushing \/ (flushing > 0 /\ flushing' = flushing - 1)
    PROVE  QueueInv'
<1>1. /\ ArenaInv /\ QueueTypes /\ MainKnows /\ OwnersKnown /\ GrowingIsACall /\ TailIsLive
      /\ used \in 0..BlockCap - 1 /\ flushing \in Nat /\ BlockCap \in Nat
      /\ pc[Main] = "app" /\ phase # "beginning" /\ Main \in Threads
  BY QueueAssumption, ThreadsAssumption DEF QueueInv, QueueTypes, Join, MainAtRest
<1>2. ~growing
  BY <1>1 DEF GrowingIsACall
<1>3. flushing' \in Nat /\ (phase # "idle" => flushing' = 0)
  BY <1>1 DEF QueueTypes
<1>4. CASE PushInPlace
  <2>1. /\ used' = used + 1 /\ used + 1 < BlockCap
        /\ UNCHANGED <<tail, tailGen, growing, generation, activeStores, threadIdx, arenaPtr, arenaEnd,
                       arenaBase, arenaGen, noSlab, seenGen, seenActive, pc, call, inJob, phase, live>>
    BY <1>4 DEF PushInPlace, vars, globals, locals, views
  <2>2. ArenaInv'
    <3>1. UNCHANGED vars
      BY <2>1 DEF vars, globals, locals, views
    <3> QED BY <1>1, <3>1, NextArenaInv
  <2>3. QueueTypes' /\ GrowingIsACall'
    BY <1>1, <1>2, <1>3, <2>1 DEF QueueTypes, GrowingIsACall
  <2>4. MainKnows' /\ OwnersKnown'
    BY <1>1, <2>1 DEF MainKnows, OwnersKnown
  <2>5. TailIsLive'
    <3>0. ~growing'
      BY <1>2, <2>1
    <3>1. Pushes' \in Int /\ Pushes' >= Pushes
      <4>1. Pushes = used + flushing
        BY <1>1, <1>2 DEF Pushes
      <4>2. Pushes' = used' + flushing'
        BY <1>1, <2>1, <3>0 DEF Pushes
      <4> QED
        BY <1>1, <2>1, <4>1, <4>2
    <3>2. tail \in Block => tail \in live' /\ call'[Main].old # tail
      BY <1>1, <2>1 DEF TailIsLive
    <3> QED BY <2>1, <3>1, <3>2, TailStays
  <2> QED BY <2>2, <2>3, <2>4, <2>5 DEF QueueInv
<1>5. CASE PushGrows
  <2> DEFINE request == [size |-> BlockSize, align |-> 1, old |-> NoBlock]
  <2>1. /\ Alloc(Main, BlockSize, 1) /\ growing' = TRUE
        /\ tail = NoPool \/ used + 1 = BlockCap
        /\ pc' = [pc EXCEPT ![Main] = "active"] /\ call' = [call EXCEPT ![Main] = request]
        /\ UNCHANGED <<tail, tailGen, used, generation, activeStores, phase, inJob, seenGen, seenActive, live>>
    BY <1>5 DEF PushGrows, Alloc, Enter, globals, views
  <2>2. ArenaInv'
    <3>1. BlockSize \in Nat \ {0} /\ 1 \in Nat \ {0}
      BY QueueAssumption
    <3> QED BY <1>1, <2>1, <3>1, AppKeepsArenaInv
  <2>3. /\ pc'[Main] = "active" /\ call'[Main] = request
        /\ \A t \in Threads : t # Main => call'[t] = call[t]
    BY <1>1, <2>1 DEF ArenaInv, TypeOK
  <2>4. QueueTypes' /\ GrowingIsACall'
    BY <1>1, <1>3, <2>1, <2>3 DEF QueueTypes, GrowingIsACall
  <2>5. MainKnows'
    BY <1>1, <2>1, <2>3 DEF MainKnows
  <2>6. OwnersKnown'
    BY <1>1, <2>1, <2>3 DEF OwnersKnown
  <2>7. TailIsLive'
    <3>0. growing'
      BY <2>1
    <3>1. Pushes' \in Int /\ Pushes' >= Pushes
      <4>1. Pushes = used + flushing
        BY <1>1, <1>2 DEF Pushes
      <4>2. Pushes' = used + flushing' + 1
        BY <1>1, <2>1, <3>0 DEF Pushes
      <4> QED
        BY <1>1, <2>1, <4>1, <4>2
    <3>2. tail \in Block => tail \in live' /\ call'[Main].old # tail
      BY <1>1, <2>1, <2>3, NoTailAssumption DEF TailIsLive
    <3> QED BY <2>1, <3>1, <3>2, TailStays
  <2> QED BY <2>2, <2>4, <2>5, <2>6, <2>7 DEF QueueInv
<1> QED
  BY <1>4, <1>5 DEF Join

(* The store of end_phase: from then on the flush has at least a block of jobs *)
(* to push, whatever the tail already holds.                                  *)
LEMMA EndPhaseKeepsQueueInv ==
    ASSUME QueueInv, EndPhaseFlush
    PROVE  QueueInv'
<1>1. /\ ArenaInv /\ QueueTypes /\ MainKnows /\ OwnersKnown /\ GrowingIsACall /\ TailIsLive
      /\ used \in 0..BlockCap - 1 /\ Main \in Threads /\ activeStores \in Nat
  BY ThreadsAssumption DEF QueueInv, QueueTypes, ArenaInv, TypeOK
<1>2. /\ EndPhase /\ flushing' = FlushJobs
      /\ pc[Main] = "app" /\ phase = "proving" /\ phase' = "idle" /\ activeStores' = activeStores + 1
      /\ seenActive' = [seenActive EXCEPT ![Main] = activeStores + 1]
      /\ UNCHANGED <<tail, tailGen, used, growing, generation, pc, call, live>>
  BY DEF EndPhaseFlush, FlushCount, EndPhase, MainAtRest
<1>3. ArenaInv'
  BY <1>1, <1>2, NextArenaInv DEF Next, PhaseStep
<1>4. QueueTypes' /\ GrowingIsACall' /\ OwnersKnown'
  BY <1>1, <1>2, QueueAssumption DEF QueueTypes, GrowingIsACall, OwnersKnown
<1>5. MainKnows'
  <2>1. seenActive'[Main] = activeStores'
    BY <1>1, <1>2 DEF ArenaInv, TypeOK
  <2>2. ~ActiveAt(activeStores')
    BY <1>1, <1>2 DEF MainKnows, ActiveAt
  <2> QED BY <1>2, <2>1, <2>2 DEF MainKnows
<1>6. TailIsLive'
  <2>1. Pushes' >= BlockCap
    BY <1>1, <1>2, QueueAssumption, FlushAssumption DEF Pushes, GrowingIsACall
  <2> QED BY <1>1, <1>2, <2>1 DEF TailIsLive
<1> QED
  BY <1>3, <1>4, <1>5, <1>6 DEF QueueInv

(* begin_phase: the flush is over, so that the tail is no block of the arena. *)
LEMMA BeginKeepsQueueInv ==
    ASSUME QueueInv, flushing = 0, BeginPhase \/ ActivateArena, UNCHANGED queue
    PROVE  QueueInv'
<1>1. /\ ArenaInv /\ QueueTypes /\ MainKnows /\ OwnersKnown /\ GrowingIsACall /\ TailIsLive
      /\ used \in 0..BlockCap - 1 /\ Main \in Threads /\ activeStores \in Nat /\ BlockCap \in Nat
  BY ThreadsAssumption, QueueAssumption DEF QueueInv, QueueTypes, ArenaInv, TypeOK
<1>2. ArenaInv'
  BY <1>1, NextArenaInv DEF Next, PhaseStep
<1>3. UNCHANGED <<tail, tailGen, used, growing, flushing>>
  BY DEF queue
<1>4. CASE BeginPhase
  <2>1. /\ pc[Main] = "app" /\ phase = "idle" /\ phase' = "beginning" /\ live' = {}
        /\ UNCHANGED <<activeStores, seenActive, pc, call>>
    BY <1>4 DEF BeginPhase, MainAtRest
  <2>2. tail \notin Block
    <3>1. Pushes < BlockCap
      BY <1>1, <2>1 DEF Pushes, GrowingIsACall
    <3>2. Pushes \in Int
      BY <1>1 DEF Pushes
    <3> QED BY <1>1, <2>1, <3>1, <3>2 DEF TailIsLive
  <2>3. QueueTypes' /\ GrowingIsACall' /\ TailIsLive'
    BY <1>1, <1>3, <2>1, <2>2 DEF QueueTypes, GrowingIsACall, TailIsLive
  <2>4. MainKnows' /\ OwnersKnown'
    BY <1>1, <2>1 DEF MainKnows, OwnersKnown
  <2> QED BY <1>2, <2>3, <2>4 DEF QueueInv
<1>5. CASE ActivateArena
  <2>1. /\ pc[Main] = "app" /\ phase = "beginning" /\ phase' = "proving" /\ activeStores' = activeStores + 1
        /\ seenActive' = [seenActive EXCEPT ![Main] = activeStores + 1]
        /\ UNCHANGED <<generation, pc, call, live>>
    BY <1>5 DEF ActivateArena
  <2>2. QueueTypes' /\ GrowingIsACall' /\ OwnersKnown'
    BY <1>1, <1>3, <2>1 DEF QueueTypes, GrowingIsACall, OwnersKnown
  <2>3. TailIsLive'
    BY <1>1, <1>3, <2>1 DEF TailIsLive
  <2>4. MainKnows'
    <3>1. seenActive'[Main] = activeStores'
      BY <1>1, <2>1 DEF ArenaInv, TypeOK
    <3>2. ActiveAt(activeStores')
      BY <1>1, <2>1 DEF MainKnows, ActiveAt
    <3> QED BY <2>1, <3>1, <3>2 DEF MainKnows
  <2> QED BY <1>2, <2>2, <2>3, <2>4 DEF QueueInv
<1> QED
  BY <1>4, <1>5

(* Outside a phase the system serves the main thread, which knows the arena is off. *)
LEMMA IdleMeansSystem ==
    ASSUME QueueInv, AllocStep(Main)
    PROVE  /\ seenActive' = [seenActive EXCEPT ![Main] = activeStores]
           /\ phase = "idle" \/ phase = "proving"
           /\ phase = "idle" => Return(Main, {})
<1>1. /\ ArenaInv /\ MainKnows /\ Main \in Threads /\ activeStores \in Nat
      /\ seenActive[Main] = activeStores
  BY ThreadsAssumption DEF QueueInv, MainKnows, ArenaInv, TypeOK
<1>2. \A k \in Views(Main) : k = activeStores
  BY <1>1 DEF Views
<1>3. /\ pc[Main] # "app"
      /\ \E k \in Views(Main) : seenActive' = [seenActive EXCEPT ![Main] = k]
      /\ \/ pc[Main] = "active" => \E k \in Views(Main) : ActiveAt(k)
         \/ \E blocks \in SUBSET Block : Return(Main, blocks) /\ (pc[Main] = "active" => blocks = {})
  BY <1>1, AllocStepIs
<1>4. phase = "idle" => pc[Main] = "active" /\ ~ActiveAt(activeStores)
  BY <1>1, <1>3 DEF MainKnows
<1>5. phase = "idle" \/ phase = "proving"
  BY <1>1, <1>3 DEF MainKnows, ArenaInv, TypeOK
<1> QED
  BY <1>2, <1>3, <1>4, <1>5

(* A step of an allocation, queue apart: the main thread's knowledge of the     *)
(* arena and the owners of the blocks.                                         *)
LEMMA AllocKeepsOwners ==
    ASSUME QueueInv, NEW t \in Threads, AllocStep(t)
    PROVE  ArenaInv' /\ MainKnows' /\ OwnersKnown'
<1>1. ArenaInv /\ MainKnows /\ OwnersKnown /\ Main \in Threads
  BY ThreadsAssumption DEF QueueInv
<1>2. ArenaInv'
  BY <1>1, NextArenaInv DEF Next
<1>3. UNCHANGED <<generation, activeStores, phase, inJob>>
  BY <1>1, AllocStepIs DEF globals
<1>4. MainKnows'
  <2>1. CASE t # Main
    <3>1. seenActive'[Main] = seenActive[Main]
      BY <1>1, <2>1, AllocStepIs DEF ArenaInv, TypeOK
    <3>2. pc'[Main] = pc[Main]
      BY <1>1, <2>1, AllocStepIs DEF Return, ArenaInv, TypeOK
    <3> QED BY <1>1, <1>3, <3>1, <3>2 DEF MainKnows
  <2>2. CASE t = Main
    <3>1. /\ seenActive' = [seenActive EXCEPT ![Main] = activeStores]
          /\ phase = "idle" \/ phase = "proving"
          /\ phase = "idle" => Return(Main, {})
      BY <2>2, IdleMeansSystem
    <3>2. seenActive'[Main] = activeStores
      BY <1>1, <3>1 DEF ArenaInv, TypeOK
    <3>3. phase = "idle" => pc'[Main] = "app"
      BY <1>1, <3>1 DEF Return, ArenaInv, TypeOK
    <3> QED BY <1>1, <1>3, <3>1, <3>2, <3>3 DEF MainKnows
  <2> QED BY <2>1, <2>2
<1>5. OwnersKnown'
  <2>1. CASE UNCHANGED <<call, live>>
    BY <1>1, <2>1 DEF OwnersKnown
  <2>2. ASSUME NEW blocks \in SUBSET Block, Return(t, blocks),
               \A b \in blocks : b.owner = t /\ b.synced = Synced(t)
        PROVE  OwnersKnown'
    <3>1. live' \subseteq live \cup blocks /\ call' = [call EXCEPT ![t] = NoRequest]
      BY <2>2 DEF Return
    <3>2. \A u \in Threads : call'[u].old = NoBlock \/ call'[u].old.owner = u
      BY <1>1, <3>1 DEF OwnersKnown, ArenaInv, TypeOK, NoRequest
    <3>3. \A b \in live' : b.owner = Main => b.synced
      BY <1>1, <2>2, <3>1 DEF OwnersKnown, Synced
    <3> QED BY <3>2, <3>3 DEF OwnersKnown
  <2> QED BY <1>1, <2>1, <2>2, AllocStepIs
<1> QED
  BY <1>2, <1>4, <1>5

(* The allocation of a queue block goes on, or returns the new tail. *)
LEMMA GrowKeepsQueueInv ==
    ASSUME QueueInv, GrowStep
    PROVE  QueueInv'
<1>1. /\ ArenaInv /\ QueueTypes /\ MainKnows /\ OwnersKnown /\ GrowingIsACall /\ TailIsLive
      /\ Main \in Threads /\ BlockCap \in Nat \ {0, 1} /\ BlockCap \in Nat
  BY ThreadsAssumption, QueueAssumption DEF QueueInv
<1>2. /\ growing /\ AllocStep(Main) /\ flushing' = flushing
      /\ pc[Main] # "app" /\ call[Main].old = NoBlock
  BY <1>1 DEF GrowStep, GrowingIsACall
<1>3. ArenaInv' /\ MainKnows' /\ OwnersKnown'
  BY <1>1, <1>2, AllocKeepsOwners
<1>4. /\ phase = "idle" \/ phase = "proving"
      /\ phase = "idle" => Return(Main, {})
  BY <1>2, IdleMeansSystem
<1>5. UNCHANGED <<generation, activeStores, phase, inJob>>
  BY <1>1, <1>2, AllocStepIs DEF globals
<1>6. CASE pc' \in {[pc EXCEPT ![Main] = "hot"], [pc EXCEPT ![Main] = "cold"]} /\ UNCHANGED <<call, live>>
  <2>1. pc'[Main] # "app"
    BY <1>1, <1>6 DEF ArenaInv, TypeOK
  <2>2. UNCHANGED <<tail, tailGen, used, growing>>
    BY <2>1 DEF GrowStep
  <2>3. QueueTypes' /\ GrowingIsACall'
    BY <1>1, <1>2, <1>5, <1>6, <2>1, <2>2 DEF QueueTypes, GrowingIsACall
  <2>4. phase = "proving"
    <3>1. Return(Main, {}) => pc'[Main] = "app"
      BY <1>1 DEF Return, ArenaInv, TypeOK
    <3> QED BY <1>4, <2>1, <3>1
  <2>5. TailIsLive'
    BY <1>1, <1>5, <1>6, <2>2, <2>4 DEF TailIsLive
  <2> QED BY <1>3, <2>3, <2>5 DEF QueueInv
<1>7. ASSUME NEW blocks \in SUBSET Block, Return(Main, blocks), \A b \in blocks : b.owner = Main
      PROVE  QueueInv'
  <2>1. /\ live' = (live \ {NoBlock}) \cup blocks
        /\ pc'[Main] = "app" /\ call'[Main] = NoRequest
    BY <1>1, <1>2, <1>7 DEF Return, ArenaInv, TypeOK
  <2>2. live' = live \cup blocks
    BY <1>1, <2>1, NoTailAssumption DEF ArenaInv, TypeOK
  <2>3. /\ tail' = (IF live' = live THEN NoBlock ELSE CHOOSE b \in live' \ live : TRUE)
        /\ tailGen' = generation /\ used' = 0 /\ growing' = FALSE
    BY <2>1 DEF GrowStep
  <2>4. tail' = NoBlock \/ (live' # live /\ tail' \in live' /\ tail'.owner = Main)
    BY <1>7, <2>2, <2>3
  <2>5. phase = "idle" => live' = live
    <3>1. phase = "idle" => live' = (live \ {NoBlock}) \cup {}
      BY <1>2, <1>4 DEF Return
    <3> QED BY <1>1, <3>1, NoTailAssumption DEF ArenaInv, TypeOK
  <2>6. TailIsLive'
    <3>1. ASSUME tail' \in Block
          PROVE  tail' \in live' /\ tail'.owner = Main /\ phase = "proving"
      BY <1>4, <2>3, <2>4, <2>5, <3>1, NoTailAssumption
    <3>2. tail' \in Block => call'[Main].old # tail'
      BY <2>1, NoTailAssumption DEF NoRequest
    <3>3. (tail \in Block)' <=> tail' \in Block
      BY DEF Block
    <3> QED BY <1>5, <2>3, <3>1, <3>2, <3>3 DEF TailIsLive
  <2>7. QueueTypes' /\ GrowingIsACall'
    <3>1. 0 \in 0..BlockCap - 1
      BY <1>1
    <3> QED BY <1>1, <1>2, <1>5, <2>3, <3>1 DEF QueueTypes, GrowingIsACall
  <2> QED BY <1>3, <2>6, <2>7 DEF QueueInv
<1>8. \/ pc' \in {[pc EXCEPT ![Main] = "hot"], [pc EXCEPT ![Main] = "cold"]} /\ UNCHANGED <<call, live>>
      \/ \E blocks \in SUBSET Block : Return(Main, blocks) /\ \A b \in blocks : b.owner = Main
  BY <1>1, <1>2, AllocStepIs
<1> QED
  BY <1>6, <1>7, <1>8

(* What the steps of the arena that leave the queue alone owe the invariant: the *)
(* tail stays live and no call is about to drop it.                             *)
LEMMA QueueUntouched ==
    ASSUME QueueInv, UNCHANGED queue, UNCHANGED <<generation, phase>>,
           ArenaInv', MainKnows', OwnersKnown',
           growing => pc'[Main] = pc[Main] /\ call'[Main] = call[Main],
           tail \in Block => tail \in live' /\ call'[Main].old # tail
    PROVE  QueueInv'
<1>1. UNCHANGED <<tail, tailGen, used, growing, flushing>>
  BY DEF queue
<1>2. QueueTypes' /\ GrowingIsACall'
  BY <1>1 DEF QueueInv, QueueTypes, GrowingIsACall
<1>3. Pushes' = Pushes
  BY <1>1 DEF Pushes
<1>4. Pushes \in Int
  BY QueueAssumption DEF QueueInv, QueueTypes, Pushes
<1>5. TailIsLive'
  BY <1>1, <1>3, <1>4, TailStays
<1> QED
  BY <1>2, <1>5 DEF QueueInv

(* Every other allocation, of a worker or of the main thread outside the queue. *)
LEMMA AllocKeepsQueueInv ==
    ASSUME QueueInv, UNCHANGED queue, NEW t \in Threads, AllocStep(t), ~(t = Main /\ growing)
    PROVE  QueueInv'
<1>1. ArenaInv /\ OwnersKnown /\ TailIsLive /\ Main \in Threads
  BY ThreadsAssumption DEF QueueInv
<1>2. ArenaInv' /\ MainKnows' /\ OwnersKnown'
  BY AllocKeepsOwners
<1>3. UNCHANGED <<generation, phase>>
  BY <1>1, AllocStepIs DEF globals
<1>4. \/ /\ pc' \in {[pc EXCEPT ![t] = "hot"], [pc EXCEPT ![t] = "cold"]}
         /\ UNCHANGED <<call, live>>
      \/ \E blocks \in SUBSET Block : Return(t, blocks)
  BY <1>1, AllocStepIs
<1>5. growing => pc'[Main] = pc[Main] /\ call'[Main] = call[Main]
  BY <1>1, <1>4 DEF Return, ArenaInv, TypeOK
<1>6. ASSUME tail \in Block PROVE tail \in live' /\ call'[Main].old # tail
  <2>1. tail \in live /\ tail.owner = Main /\ call[Main].old # tail
    BY <1>1, <1>6 DEF TailIsLive
  <2>2. call[t].old # tail
    BY <1>1, <1>6, <2>1, NoTailAssumption DEF OwnersKnown
  <2>3. tail \in live'
    BY <1>4, <2>1, <2>2 DEF Return
  <2>4. call'[Main] = call[Main] \/ call'[Main] = NoRequest
    BY <1>1, <1>4 DEF Return, ArenaInv, TypeOK
  <2>5. NoRequest.old # tail
    BY <1>6, NoTailAssumption DEF NoRequest
  <2> QED BY <2>1, <2>3, <2>4, <2>5
<1> QED
  BY <1>2, <1>3, <1>5, <1>6, QueueUntouched

(* The steps of the program: its jobs, its requests, the blocks it drops or      *)
(* shrinks.  It never touches a block of the queue.                             *)
LEMMA AppKeepsQueueInv ==
    ASSUME QueueInv, UNCHANGED queue, NEW t \in Threads,
           AppStep(t, live \ {tail}) \/ \E b \in live \ {tail} : Dealloc(b)
    PROVE  QueueInv'
<1>1. ArenaInv /\ MainKnows /\ OwnersKnown /\ TailIsLive /\ GrowingIsACall /\ Main \in Threads
      /\ pc \in [Threads -> {"app", "active", "hot", "cold"}] /\ call \in [Threads -> Request]
      /\ live \in SUBSET Block
  BY ThreadsAssumption DEF QueueInv, ArenaInv, TypeOK
<1>2. ArenaInv'
  <2>1. AppStep(t, live) \/ \E b \in live : Dealloc(b)
    BY DEF AppStep
  <2> QED BY <1>1, <2>1, NextArenaInv DEF Next
<1>3. CASE StartJob(t) \/ FinishJob(t)
  <2>1. UNCHANGED <<generation, activeStores, phase, pc, call, live>> /\ seenActive'[Main] = seenActive[Main]
    BY <1>1, <1>3 DEF StartJob, FinishJob, views, ArenaInv, TypeOK
  <2>2. MainKnows' /\ OwnersKnown'
    BY <1>1, <2>1 DEF MainKnows, OwnersKnown
  <2>3. tail \in Block => tail \in live' /\ call'[Main].old # tail
    BY <1>1, <2>1 DEF TailIsLive
  <2> QED
    BY <1>2, <2>1, <2>2, <2>3, QueueUntouched
<1>4. ASSUME NEW request, Enter(t, request),
             request.old = NoBlock \/ (request.old.owner = t /\ request.old # tail)
      PROVE  QueueInv'
  <2>1. /\ pc[t] = "app" /\ (t = Main => phase # "beginning")
        /\ pc' = [pc EXCEPT ![t] = "active"] /\ call' = [call EXCEPT ![t] = request]
        /\ UNCHANGED <<generation, activeStores, phase, seenActive, live>>
    BY <1>4 DEF Enter, globals, views
  <2>2. /\ \A u \in Threads \ {t} : pc'[u] = pc[u] /\ call'[u] = call[u]
        /\ pc'[t] = "active" /\ call'[t] = request
    BY <1>1, <2>1
  <2>3. MainKnows'
    BY <1>1, <2>1, <2>2 DEF MainKnows
  <2>4. OwnersKnown'
    BY <1>1, <1>4, <2>1, <2>2 DEF OwnersKnown
  <2>5. growing => pc'[Main] = pc[Main] /\ call'[Main] = call[Main]
    BY <1>1, <2>1, <2>2 DEF GrowingIsACall
  <2>6. tail \in Block => tail \in live' /\ call'[Main].old # tail
    BY <1>1, <1>4, <2>1, <2>2, NoTailAssumption DEF TailIsLive
  <2> QED
    BY <1>2, <2>1, <2>3, <2>4, <2>5, <2>6, QueueUntouched
<1>5. ASSUME NEW b \in live \ {tail}, live \ {b} \subseteq live',
             \A c \in live' : c \in live \/ (c.owner = b.owner /\ c.synced = b.synced),
             UNCHANGED <<generation, activeStores, phase, seenActive, pc, call>>
      PROVE  QueueInv'
  <2>1. MainKnows'
    BY <1>1, <1>5 DEF MainKnows
  <2>2. OwnersKnown'
    BY <1>1, <1>5 DEF OwnersKnown
  <2>3. tail \in Block => tail \in live' /\ call'[Main].old # tail
    BY <1>1, <1>5 DEF TailIsLive
  <2> QED
    BY <1>2, <1>5, <2>1, <2>2, <2>3, QueueUntouched
<1>6. ASSUME NEW size, NEW align, Alloc(t, size, align) PROVE QueueInv'
  <2> DEFINE request == [size |-> size, align |-> align, old |-> NoBlock]
  <2>1. Enter(t, request) /\ request.old = NoBlock
    BY <1>6 DEF Alloc
  <2> HIDE DEF request
  <2> QED BY <1>4, <2>1
<1>7. ASSUME NEW size, NEW align, NEW b \in live \ {tail}, ReallocGrow(t, b, size, align) PROVE QueueInv'
  <2> DEFINE request == [size |-> size, align |-> align, old |-> b]
  <2>1. Enter(t, request) /\ request.old.owner = t /\ request.old # tail
    BY <1>7 DEF ReallocGrow
  <2> HIDE DEF request
  <2> QED BY <1>4, <2>1
<1>8. ASSUME NEW size, NEW b \in live \ {tail}, ReallocInPlace(t, b, size) PROVE QueueInv'
  <2> DEFINE c == [b EXCEPT !.hi = b.lo + size]
  <2>1. /\ live' = (live \ {b}) \cup {c}
        /\ UNCHANGED <<generation, activeStores, phase, seenActive, pc, call>>
    BY <1>8 DEF ReallocInPlace, globals, views
  <2>2. c.owner = b.owner /\ c.synced = b.synced
    BY <1>1 DEF Block
  <2> HIDE DEF c
  <2>3. /\ live \ {b} \subseteq live'
        /\ \A d \in live' : d \in live \/ (d.owner = b.owner /\ d.synced = b.synced)
    BY <2>1, <2>2
  <2> QED BY <1>5, <2>1, <2>3
<1>9. ASSUME NEW b \in live \ {tail}, Dealloc(b) PROVE QueueInv'
  <2>1. /\ live' = live \ {b}
        /\ UNCHANGED <<generation, activeStores, phase, seenActive, pc, call>>
    BY <1>9 DEF Dealloc, globals, views
  <2>2. /\ live \ {b} \subseteq live'
        /\ \A d \in live' : d \in live \/ (d.owner = b.owner /\ d.synced = b.synced)
    BY <2>1
  <2> QED BY <1>5, <2>1, <2>2
<1> QED
  BY <1>3, <1>6, <1>7, <1>8, <1>9 DEF AppStep

(* QueueInv is inductive. *)
THEOREM NextQueueInv == QueueInv /\ [QueueNext]_allVars => QueueInv'
<1> SUFFICES ASSUME QueueInv, [QueueNext]_allVars PROVE QueueInv'
  OBVIOUS
<1>1. CASE AppJoin \/ FlushJoin
  <2>1. Join /\ (flushing' = flushing \/ (flushing > 0 /\ flushing' = flushing - 1))
    BY <1>1 DEF AppJoin, FlushJoin
  <2> QED BY <2>1, JoinKeepsQueueInv
<1>2. CASE GrowStep
  BY <1>2, GrowKeepsQueueInv
<1>3. CASE EndPhaseFlush
  BY <1>3, EndPhaseKeepsQueueInv
<1>4. CASE ArenaStep
  BY <1>4, BeginKeepsQueueInv, AllocKeepsQueueInv, AppKeepsQueueInv, ThreadsAssumption DEF ArenaStep
<1>5. CASE UNCHANGED allVars
  <2>1. UNCHANGED vars /\ UNCHANGED queue
    BY <1>5 DEF allVars
  <2>2. UNCHANGED <<generation, phase, activeStores, seenActive, pc, call, live>>
    BY <2>1 DEF vars, globals, views
  <2>3. ArenaInv'
    BY <2>1, NextArenaInv DEF QueueInv
  <2>4. MainKnows' /\ OwnersKnown'
    BY <2>2 DEF QueueInv, MainKnows, OwnersKnown
  <2>5. tail \in Block => tail \in live' /\ call'[Main].old # tail
    BY <2>2 DEF QueueInv, TailIsLive
  <2> QED BY <2>1, <2>2, <2>3, <2>4, <2>5, QueueUntouched
<1> QED
  BY <1>1, <1>2, <1>3, <1>4, <1>5 DEF QueueNext

(* The invariant of the queue holds in every phase. *)
LEMMA QueueInvAlways == QueueSpec => []QueueInv
  BY InitQueueInv, NextQueueInv, PTL DEF QueueSpec

(* The tail of the queue overlaps no live block: main's blocks by their cursor,  *)
(* the blocks of any other thread, up to date or not, by their slab.            *)
THEOREM QueueOwnsItsMemory == QueueSpec => []QueueBlockOwnsItsMemory
<1>1. QueueInv => QueueBlockOwnsItsMemory
  <2> SUFFICES ASSUME QueueInv, tail \in Block, NEW b \in live
               PROVE  Disjoint(b, tail) \/ (b = tail /\ tailGen = generation)
    BY DEF QueueBlockOwnsItsMemory
  <2>1. ArenaInv /\ OwnersKnown /\ TailIsLive
    BY DEF QueueInv
  <2>2. tail \in live /\ tail.owner = Main /\ tail.synced /\ tailGen = generation
    BY <2>1 DEF TailIsLive, OwnersKnown
  <2>3. CASE b.owner = Main
    BY <2>1, <2>2, <2>3 DEF OwnersKnown, ArenaInv, SyncedBlocksDisjoint
  <2>4. CASE b.owner # Main
    <3>1. /\ b.owner \in Threads /\ Main \in Threads
          /\ b.lo \in Nat /\ b.hi \in Nat /\ tail.lo \in Nat /\ tail.hi \in Nat
          /\ arenaBase[b.owner] \in Nat /\ arenaBase[Main] \in Nat
      BY <2>1, ThreadsAssumption DEF ArenaInv, TypeOK, Block
    <3>2. /\ arenaBase[b.owner] # 0 /\ arenaBase[b.owner] <= b.lo /\ b.hi <= arenaBase[b.owner] + SlabSize
          /\ arenaBase[Main] # 0 /\ arenaBase[Main] <= tail.lo /\ tail.hi <= arenaBase[Main] + SlabSize
      BY <2>1, <2>2 DEF ArenaInv, BlocksInSlab
    <3>3. arenaBase[b.owner] # arenaBase[Main]
      BY <2>1, <2>4, <3>1, <3>2 DEF ArenaInv, SlabsDistinct
    <3>4. PICK i \in 0..MaxThreads - 1 : arenaBase[b.owner] = SlabBase(i)
      BY <2>1, <3>1, <3>2 DEF ArenaInv, CursorsInSlab
    <3>5. PICK j \in 0..MaxThreads - 1 : arenaBase[Main] = SlabBase(j)
      BY <2>1, <3>1, <3>2 DEF ArenaInv, CursorsInSlab
    <3>6. \/ arenaBase[b.owner] + SlabSize <= arenaBase[Main]
          \/ arenaBase[Main] + SlabSize <= arenaBase[b.owner]
      BY <3>3, <3>4, <3>5, BasesApart
    <3> QED
      BY <3>1, <3>2, <3>6, SlabAssumption DEF Disjoint
  <2> QED BY <2>3, <2>4
<1> QED
  BY <1>1, QueueInvAlways, PTL

(* However many jobs were pushed before end_phase, its flush leaves no tail in   *)
(* the arena: FlushJobs is at least a block.                                    *)
THEOREM FlushFreesTheQueue == QueueSpec => []NoArenaStorageAcrossPhases
<1>1. QueueInv => NoArenaStorageAcrossPhases
  <2> SUFFICES ASSUME QueueInv, phase = "idle", flushing = 0, ~growing, tail \in Block PROVE FALSE
    BY DEF NoArenaStorageAcrossPhases
  <2>1. used \in 0..BlockCap - 1 /\ BlockCap \in Nat /\ Pushes >= BlockCap
    BY QueueAssumption DEF QueueInv, QueueTypes, TailIsLive
  <2>2. Pushes = used + 0 + 0
    BY <2>1 DEF Pushes
  <2> QED BY <2>1, <2>2
<1> QED
  BY <1>1, QueueInvAlways, PTL

=============================================================================
