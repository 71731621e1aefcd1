----------------------------- MODULE PowGrinding -----------------------------
(***************************************************************************)
(* The search for a proof-of-work witness (pow_grinding of                 *)
(* crates/backend/fiat-shamir/src/prover.rs): rayon's find_any over        *)
(* batches of candidates, one per SIMD lane, with the witness found left   *)
(* in a Mutex that any thread may overwrite.                               *)
(***************************************************************************)
EXTENDS Naturals, FiniteSets

CONSTANTS
    Threads,    \* rayon's workers
    Order,      \* the field's order: candidates are 0..Order - 1
    LaneWidths, \* the values Packing::WIDTH has in the builds considered
    NoWitness   \* None

ASSUME GrindingAssumption ==
    /\ Threads # {}
    /\ Order \in Nat \ {0}
    /\ LaneWidths \subseteq Nat \ {0}
    /\ NoWitness \notin Nat

VARIABLES
    lanes,        \* Packing::WIDTH of the build
    passing,      \* the candidates whose sample has its low bits zero
    untested,     \* the batches no thread has taken
    pc,           \* of each thread: "ready", "testing", "found" or "done"
    batch,        \* the batch a thread tests
    found,        \* find_any's flag: somebody's closure returned true
    witnessFound, \* the Mutex
    outcome       \* "searching", "pushed", "failed" or "panicked"

grindVars == <<lanes, passing, untested, pc, batch, found, witnessFound, outcome>>

Candidates == 0..Order - 1

(* A mutant of NumBatches: the last candidate is left out. *)
NumBatchesExclusive == (Order - 1) \div lanes

NumBatches == (Order + lanes - 1) \div lanes

Batches == 0..NumBatches - 1

Lane(b) == b * lanes..b * lanes + lanes - 1

GrindInit ==
    /\ lanes \in LaneWidths
    /\ passing \in SUBSET Candidates
    /\ untested = Batches
    /\ pc = [t \in Threads |-> "ready"]
    /\ batch = [t \in Threads |-> 0]
    /\ found = FALSE
    /\ witnessFound = NoWitness
    /\ outcome = "searching"

(* A worker looks at the flag before each batch; which batch is its next one   *)
(* depends on how the range was split and stolen.                              *)
Take(t) ==
    /\ outcome = "searching" /\ pc[t] = "ready" /\ ~found
    /\ \E b \in untested :
          /\ untested' = untested \ {b}
          /\ batch' = [batch EXCEPT ![t] = b]
    /\ pc' = [pc EXCEPT ![t] = "testing"]
    /\ UNCHANGED <<lanes, passing, found, witnessFound, outcome>>

(* A mutant of Retire: a worker waits for the flag when the range is over. *)
RetireWhenFound(t) ==
    /\ outcome = "searching" /\ pc[t] = "ready"
    /\ found
    /\ pc' = [pc EXCEPT ![t] = "done"]
    /\ UNCHANGED <<lanes, passing, untested, batch, found, witnessFound, outcome>>

(* No batch is left for it, or the flag is up. *)
Retire(t) ==
    /\ outcome = "searching" /\ pc[t] = "ready"
    /\ found \/ untested = {}
    /\ pc' = [pc EXCEPT ![t] = "done"]
    /\ UNCHANGED <<lanes, passing, untested, batch, found, witnessFound, outcome>>

(* The assertion on the candidates of the batch fails in the closure. *)
Panic(t) ==
    /\ outcome = "searching" /\ pc[t] = "testing"
    /\ ~(Lane(batch[t]) \subseteq Candidates)
    /\ outcome' = "panicked"
    /\ UNCHANGED <<lanes, passing, untested, pc, batch, found, witnessFound>>

(* A mutant of Test: the lane is counted from the start of the range. *)
TestLaneOnly(t) ==
    /\ outcome = "searching" /\ pc[t] = "testing"
    /\ Lane(batch[t]) \subseteq Candidates
    /\ LET hits == Lane(batch[t]) \cap passing
       IN  IF hits = {} THEN pc' = [pc EXCEPT ![t] = "ready"] /\ UNCHANGED witnessFound
           ELSE /\ pc' = [pc EXCEPT ![t] = "found"]
                /\ witnessFound' \in {w % lanes : w \in hits}
    /\ UNCHANGED <<lanes, passing, untested, batch, found, outcome>>

(* The first lane that passes is written under the lock. *)
Test(t) ==
    /\ outcome = "searching" /\ pc[t] = "testing"
    /\ Lane(batch[t]) \subseteq Candidates
    /\ LET hits == Lane(batch[t]) \cap passing
       IN  IF hits = {} THEN pc' = [pc EXCEPT ![t] = "ready"] /\ UNCHANGED witnessFound
           ELSE /\ pc' = [pc EXCEPT ![t] = "found"]
                /\ \E w \in hits : witnessFound' = w /\ \A v \in hits : w <= v
    /\ UNCHANGED <<lanes, passing, untested, batch, found, outcome>>

(* The closure returns true: only now do the other workers stop. *)
Report(t) ==
    /\ outcome = "searching" /\ pc[t] = "found"
    /\ found' = TRUE
    /\ pc' = [pc EXCEPT ![t] = "done"]
    /\ UNCHANGED <<lanes, passing, untested, batch, witnessFound, outcome>>

AllDone == \A t \in Threads : pc[t] = "done"

(* expect("failed to find witness"); otherwise the Mutex is unwrapped, and the *)
(* assertion on the sample of what it holds precedes the push.                 *)
Finish ==
    /\ outcome = "searching"
    /\ AllDone
    /\ outcome' = IF ~found THEN "failed" ELSE IF witnessFound \in passing THEN "pushed" ELSE "panicked"
    /\ UNCHANGED <<lanes, passing, untested, pc, batch, found, witnessFound>>

Worker(t) == Take(t) \/ Retire(t) \/ Panic(t) \/ Test(t) \/ Report(t)

(* The witness is in the transcript, and the locals of pow_grinding are dropped. *)
DropLocals ==
    /\ outcome = "pushed" /\ witnessFound # NoWitness
    /\ passing' = {} /\ untested' = {} /\ found' = FALSE /\ witnessFound' = NoWitness
    /\ batch' = [t \in Threads |-> 0]
    /\ lanes' = CHOOSE n \in LaneWidths : TRUE
    /\ UNCHANGED <<pc, outcome>>

GrindNext == (\E t \in Threads : Worker(t)) \/ Finish

GrindFairness == (\A t \in Threads : WF_grindVars(Worker(t))) /\ WF_grindVars(Finish)

GrindSpec == GrindInit /\ [][GrindNext]_grindVars /\ GrindFairness

-----------------------------------------------------------------------------
(* Properties *)

GrindTypeOK ==
    /\ lanes \in LaneWidths
    /\ passing \in SUBSET Candidates
    /\ untested \in SUBSET Batches
    /\ pc \in [Threads -> {"ready", "testing", "found", "done"}]
    /\ batch \in [Threads -> Batches]
    /\ found \in BOOLEAN
    /\ witnessFound \in Candidates \cup {NoWitness}
    /\ outcome \in {"searching", "pushed", "failed", "panicked"}

(* Whoever wrote the Mutex last, and whatever was overwritten, what is left in *)
(* it passes, and it is there once the flag is up: neither the unwrap nor the  *)
(* assertion after the search can fail.                                        *)
TheMutexHoldsAWitness ==
    /\ witnessFound \in passing \cup {NoWitness}
    /\ found => witnessFound # NoWitness

(* "failed to find witness" is only said when there is none. *)
FailsOnlyWithoutWitness == outcome = "failed" => passing = {}

(* The search ends, one way or another. *)
Ends == <>(outcome # "searching")

=============================================================================
