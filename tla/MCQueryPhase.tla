---------------------------- MODULE MCQueryPhase ----------------------------
(* Matrices whose rows end in zeros at every place the code looks at. *)
EXTENDS QueryPhase

CONSTANTS
    Full,         \* the full width of a leaf
    LastNonZero,  \* where a row's last non-zero entry may be
    Aligned       \* the width of the matrix is the effective one rounded up to this

(* A row of leaf q: q + 1 up to position m, zero after it. *)
Row(q, m, width) == [k \in 1..width |-> IF k <= m THEN q + 1 ELSE 0]

Width(effective) == Min({w \in effective..effective + Aligned : w % Aligned = 0} \cup {Full})

MCMatrices ==
    {[rows |-> [q \in LeafIndices |-> Row(q, Min({ends[q], e}), Width(e))], effective |-> e, full |-> Full] :
        e \in 1..Full, ends \in [LeafIndices -> LastNonZero]}

=============================================================================
