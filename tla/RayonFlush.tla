----------------------------- MODULE RayonFlush -----------------------------
(***************************************************************************)
(* The arena together with the storage rayon keeps across phases, and      *)
(* system_info::flush_rayon, the second half of end_phase.                 *)
(*                                                                         *)
(* Rayon's global pool owns a queue (crossbeam's Injector): a linked list  *)
(* of blocks of BLOCK_CAP slots, of which the tail block receives the next *)
(* job.  A rayon::join from the main thread, which is not a worker, pushes *)
(* one job.  The push that takes the last slot allocates the next tail     *)
(* block through the global allocator, so during a phase the block comes   *)
(* from the arena.  Rayon and crossbeam are not part of the repository:    *)
(* they are modelled from the doc comment of flush_rayon and the           *)
(* regression test crates/backend/zk-alloc/tests/test_rayon.rs.            *)
(***************************************************************************)
EXTENDS ZkAlloc

CONSTANTS
    BlockCap,   \* BLOCK_CAP: the slots of a queue block
    BlockSize,  \* the layout size of a queue block
    FlushJobs,  \* RAYON_FLUSH_JOBS
    NoPool      \* the pool, created by the first rayon call, does not exist

ASSUME QueueAssumption ==
    /\ BlockCap \in Nat \ {0, 1}
    /\ BlockSize \in Nat \ {0}
    /\ FlushJobs \in Nat

\* RAYON_FLUSH_JOBS is "well above BLOCK_CAP": 256 jobs, for blocks of 63 slots.
ASSUME FlushAssumption == FlushJobs >= BlockCap

ASSUME NoTailAssumption == NoBlock \notin Block /\ NoPool \notin Block

VARIABLES
    tail,     \* the queue's tail block: an arena block, NoBlock (System) or NoPool
    tailGen,  \* the generation the tail block was allocated in
    used,     \* the slots of the tail block already taken
    growing,  \* the main thread is inside the allocation of a queue block
    flushing  \* the joins flush_rayon has yet to make

queue == <<tail, tailGen, used, growing, flushing>>
allVars == <<vars, queue>>

QueueInit ==
    /\ Init
    /\ tail = NoPool
    /\ tailGen = 0
    /\ used = 0
    /\ growing = FALSE
    /\ flushing = 0

-----------------------------------------------------------------------------

(* A join's push into a free slot that is not the block's last. *)
PushInPlace ==
    /\ tail # NoPool
    /\ used + 1 < BlockCap
    /\ used' = used + 1
    /\ UNCHANGED <<tail, tailGen, growing, vars>>

(* A join that needs a block: the pool's first, or the one after a full tail. *)
PushGrows ==
    /\ tail = NoPool \/ used + 1 = BlockCap
    /\ Alloc(Main, BlockSize, 1)
    /\ growing' = TRUE
    /\ UNCHANGED <<tail, tailGen, used>>

(* rayon::join by the main thread, outside a parallel section. *)
Join == MainAtRest /\ phase # "beginning" /\ (PushInPlace \/ PushGrows)

(* A join the program makes. *)
AppJoin == flushing = 0 /\ Join /\ UNCHANGED flushing

(* flush_rayon: RAYON_FLUSH_JOBS joins, made while the arena is off. *)
FlushJoin == flushing > 0 /\ Join /\ flushing' = flushing - 1

(* The allocation of a queue block returns: it becomes the tail, and the job  *)
(* that needed it took the last slot of the old tail (or none, for the pool's *)
(* first block).                                                              *)
GrowStep ==
    /\ growing
    /\ AllocStep(Main)
    /\ IF pc'[Main] = "app"
       THEN /\ tail' = IF live' = live THEN NoBlock ELSE CHOOSE b \in live' \ live : TRUE
            /\ tailGen' = generation
            /\ used' = 0
            /\ growing' = FALSE
       ELSE UNCHANGED <<tail, tailGen, used, growing>>
    /\ UNCHANGED flushing

(* A faulty FlushCount: a job too few to fill a block. *)
TooFewFlushJobs == BlockCap - 1

(* A faulty FlushCount: no flush at all. *)
NoFlushJobs == 0

(* The joins of one flush_rayon. *)
FlushCount == FlushJobs

(* end_phase: the store, then flush_rayon. *)
EndPhaseFlush ==
    /\ EndPhase
    /\ flushing' = FlushCount
    /\ UNCHANGED <<tail, tailGen, used, growing>>

(* The steps of the arena that do not touch the queue. *)
ArenaStep ==
    /\ \/ flushing = 0 /\ (BeginPhase \/ ActivateArena)
       \/ \E t \in Threads : ~(t = Main /\ growing) /\ AllocStep(t)
       \/ \E t \in Threads : (t = Main => flushing = 0) /\ AppStep(t, live \ {tail})
       \/ \E b \in live \ {tail} : Dealloc(b)
    /\ UNCHANGED queue

QueueNext == AppJoin \/ FlushJoin \/ GrowStep \/ EndPhaseFlush \/ ArenaStep

QueueSpec == QueueInit /\ [][QueueNext]_allVars

-----------------------------------------------------------------------------

(* The job a join writes into the tail block lands in memory that belongs to  *)
(* no one else, in this phase and in every later one, however many jobs were  *)
(* pushed before the phase ended: the corruption that test_rayon.rs provokes. *)
QueueBlockOwnsItsMemory ==
    tail \in Block =>
        \A b \in live : Disjoint(b, tail) \/ (b = tail /\ tailGen = generation)

(* What end_phase promises of flush_rayon: when the next phase may begin, the  *)
(* queue keeps no storage of the arena.                                        *)
NoArenaStorageAcrossPhases ==
    phase = "idle" /\ flushing = 0 /\ ~growing /\ generation > 0 => tail \notin Block

(* The inductive invariant behind the two.                                    *)

(* What the main thread knows: it reads its own stores, so that the arena is   *)
(* on for it in a phase and only then.                                         *)
MainKnows ==
    /\ seenActive[Main] = activeStores
    /\ ActiveAt(activeStores) <=> phase = "proving"
    /\ phase = "idle" => pc[Main] \in {"app", "active"}
    /\ phase = "beginning" => pc[Main] = "app"

(* Who owns a block, and the block a realloc is about to drop. *)
OwnersKnown ==
    /\ \A b \in live : b.owner = Main => b.synced
    /\ \A t \in Threads : call[t].old = NoBlock \/ call[t].old.owner = t

GrowingIsACall == growing => pc[Main] # "app" /\ call[Main].old = NoBlock

(* The jobs that were pushed into the tail, and those the flush has yet to push. *)
Pushes == used + flushing + (IF growing THEN 1 ELSE 0)

(* A tail from the arena is a block of this phase; once the phase is over, the *)
(* jobs still to come are enough to fill it.                                  *)
TailIsLive ==
    tail \in Block =>
        /\ tail \in live /\ tail.owner = Main /\ call[Main].old # tail
        /\ tailGen = generation
        /\ phase = "proving" \/ (phase = "idle" /\ Pushes >= BlockCap)

QueueTypes ==
    /\ used \in 0..BlockCap - 1 /\ flushing \in Nat /\ growing \in BOOLEAN
    /\ phase # "idle" => flushing = 0

QueueInv == ArenaInv /\ QueueTypes /\ MainKnows /\ OwnersKnown /\ GrowingIsACall /\ TailIsLive

=============================================================================
