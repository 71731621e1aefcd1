--------------------------- MODULE MCProofLayout ---------------------------
(* Runs at the boundaries of every dimension the code checks or pads. *)
EXTENDS ProofLayout

CONSTANTS
    Cycles,         \* rows of the execution table
    PrecompileRows, \* rows of each of the two others
    Memories,       \* cells of the runner's memory at its end
    LogBytecodes,
    LogInvRates

AllRuns ==
    {[rows |-> [execution |-> c, extensionOp |-> e, poseidon16 |-> p],
      memory |-> m, logBytecode |-> b, logInvRate |-> r] :
        c \in Cycles, e \in PrecompileRows, p \in PrecompileRows,
        m \in Memories, b \in LogBytecodes, r \in LogInvRates}

(* A call of poseidon16 is one cycle and one row. *)
MCRuns == {r \in AllRuns : r.rows["poseidon16"] <= r.rows["execution"]}

=============================================================================
