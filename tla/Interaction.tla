---------------------------- MODULE Interaction ----------------------------
(***************************************************************************)
(* What the transcript promises: one party says things and is challenged,  *)
(* and every reader hears the same things and the same challenges, in the  *)
(* same order, however each of them gets hold of them.                     *)
(***************************************************************************)
EXTENDS Naturals, Sequences

CONSTANT Readers  \* the parties that replay the interaction

VARIABLES
    said,     \* the interaction
    heard     \* what each reader has recovered of it

Init ==
    /\ said = <<>>
    /\ heard = [r \in Readers |-> <<>>]

Say ==
    /\ Len(said') = Len(said) + 1
    /\ SubSeq(said', 1, Len(said)) = said
    /\ UNCHANGED heard

Hear(r) ==
    /\ Len(heard[r]) < Len(said)
    /\ heard' = [heard EXCEPT ![r] = Append(@, said[Len(@) + 1])]
    /\ UNCHANGED said

Next == Say \/ \E r \in Readers : Hear(r)

Spec == Init /\ [][Next]_<<said, heard>>

=============================================================================
