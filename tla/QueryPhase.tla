----------------------------- MODULE QueryPhase -----------------------------
(***************************************************************************)
(* The query phase of a round of WHIR, from the committed matrix to the    *)
(* verified openings: the proof of work that guards the queries, by        *)
(* rayon's workers; then the prover opens the leaves the transcript asks   *)
(* for, in any order and with repetitions, prunes the paths, and the       *)
(* verifier restores them and checks each against the root, at the index   *)
(* it sampled itself.                                                      *)
(***************************************************************************)
EXTENDS PowGrinding, MerklePaths

CONSTANTS
    Matrices,   \* the matrices that may be committed to: [rows, effective, full]
    MaxQueries  \* bound on the number of openings

ASSUME PruningAssumption ==
    /\ MaxQueries \in Nat
    /\ \A m \in Matrices :
          /\ {m.effective, m.full} \subseteq Nat
          /\ m.full % Rate = 0 /\ m.full >= 2 * Rate
          /\ m.effective <= m.full
          /\ DOMAIN m.rows = LeafIndices
          /\ \A q \in LeafIndices :
                /\ m.rows[q] \in Seq(ToSet(m.rows[q]))
                /\ Len(m.rows[q]) \in m.effective..m.full
                /\ \A k \in m.effective + 1..Len(m.rows[q]) : m.rows[q][k] = 0

VARIABLES
    matrix,    \* what the prover committed to
    layers,    \* the digest layers of the commitment
    queries,   \* the indices sampled from the transcript, in order
    paths,     \* the paths the prover has opened
    phase,     \* "open", then "hinted", then "restored"
    proof,     \* the pruned paths
    restored   \* what restore returns to the verifier

pruneVars == <<matrix, layers, queries, paths, phase, proof, restored>>

(* WhirMerkleTree::open: the row, resized to the full width. *)
Open(q) ==
    [leaf |-> matrix.rows[q] \o Zeros(matrix.full - Len(matrix.rows[q])),
     siblings |-> OpenSiblings(layers, q),
     leafIndex |-> q]

NoMatrix == <<>>

PruneInit ==
    /\ matrix = NoMatrix /\ layers = <<>>
    /\ queries = <<>> /\ paths = <<>> /\ proof = <<>>
    /\ phase = "open"
    /\ restored = Refused

(* build_merkle_tree_koalabear. *)
Commit(m) ==
    /\ matrix = NoMatrix
    /\ matrix' = m
    /\ layers' = DigestLayers([q \in LeafIndices |-> LeafDigest(m.rows[q], m.effective, m.full)])
    /\ UNCHANGED <<queries, paths, phase, proof, restored>>

(* open_merkle_tree_at_challenges: the next sampled index is opened. *)
Query(q) ==
    /\ matrix # NoMatrix
    /\ phase = "open"
    /\ Len(queries) < MaxQueries
    /\ queries' = Append(queries, q)
    /\ paths' = Append(paths, Open(q))
    /\ UNCHANGED <<matrix, layers, phase, proof, restored>>

(* hint_merkle_paths_base. *)
HintPaths ==
    /\ phase = "open"
    /\ paths # <<>>
    /\ phase' = "hinted"
    /\ proof' = Prune(paths)
    /\ UNCHANGED <<matrix, layers, queries, paths, restored>>

(* VerifierState::new. *)
RestorePaths ==
    /\ phase = "hinted"
    /\ phase' = "restored"
    /\ restored' = Restore(proof)
    /\ UNCHANGED <<matrix, layers, queries, paths, proof>>

OpenNext == (\E q \in LeafIndices : Query(q)) \/ HintPaths \/ RestorePaths

-----------------------------------------------------------------------------
(* The round. *)

vars == <<grindVars, pruneVars>>

Init == GrindInit /\ PruneInit

(* Any matrix may have been committed to before the search began; which one it  *)
(* is matters from here on.                                                    *)
StartQueries(m) ==
    /\ outcome = "pushed" /\ witnessFound = NoWitness
    /\ Commit(m)
    /\ UNCHANGED grindVars

Next ==
    \/ (GrindNext \/ DropLocals) /\ UNCHANGED pruneVars
    \/ \E m \in Matrices : StartQueries(m)
    \/ OpenNext /\ UNCHANGED grindVars

Spec == Init /\ [][Next]_vars /\ GrindFairness

-----------------------------------------------------------------------------
(* Properties *)

(* The paths the verifier restores are the paths the prover opened: the same   *)
(* order, the same repetitions, the same leaves to the last zero, the same     *)
(* siblings; and the verifier refuses only what is over the limits.            *)
RestoreInvertsPrune ==
    phase = "restored" =>
        IF Height >= MaxHeight \/ proof.trailingZeros > MaxTrailingZeros
        THEN restored = Refused
        ELSE restored = [ok |-> TRUE, paths |-> paths]

(* Every restored opening verifies against the root of the commitment, though  *)
(* the prover hashed a leaf without its zero columns and the verifier hashes   *)
(* all of them, and at the index the verifier sampled, which no opening has.   *)
OpeningsVerify ==
    restored.ok =>
        \A k \in 1..Len(queries) :
            MerkleVerify(Root(layers), queries[k], restored.paths[k].leaf, restored.paths[k].siblings)

(* The nodes of the tree whose digests the proof carries for path i. *)
StoredNodes(i) ==
    {<<l, Sibling(proof.indices[i] \div 2^l)>> : l \in Kept(proof.indices, Height, i)}

(* No digest travels twice. *)
NoDigestTwice ==
    phase # "open" =>
        \A i, j \in 1..Len(proof.indices) : i # j => StoredNodes(i) \cap StoredNodes(j) = {}

=============================================================================
