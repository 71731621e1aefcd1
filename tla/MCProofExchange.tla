-------------------------- MODULE MCProofExchange --------------------------
(***************************************************************************)
(* What prover and verifier have to agree on without seeing each other's   *)
(* work: the places of the columns, derived on each side from the          *)
(* dimensions (ProofLayout), and the transcript, read back by the verifier *)
(* and by the guest (Transcript), over the integers modulo 3 extended by a *)
(* square root of 2 = -1: two cells an element, three cells a rate.  The   *)
(* two components share nothing but the numbers sent first, which          *)
(* ProofLayout takes as they are: one proceeds only while the other has    *)
(* not started, and the transcript for one run.                            *)
(***************************************************************************)
EXTENDS Transcript, MCProofLayout

Z3 == 0..2

Plus(a, b) == <<(a[1] + b[1]) % 3, (a[2] + b[2]) % 3>>
Minus(a, b) == <<(3 + a[1] - b[1]) % 3, (3 + a[2] - b[2]) % 3>>
Times(a, b) == <<(a[1] * b[1] + 2 * a[2] * b[2]) % 3, (a[1] * b[2] + a[2] * b[1]) % 3>>
Half(a) == Times(<<2, 0>>, a)
One == <<1, 0>>

(* A rate is a free function of the blocks: its first word, and no more, is    *)
(* looked into.                                                                *)
WordOf(blocks) == FoldLeft(LAMBDA w, block : w + block[1], 0, blocks)

MCMessages == {<<1>>, <<1, 2, 0, 1>>}
MCPublicInputs == {<<1, 2, 0, 1>>}
MCPolynomials == {<<<<1, 2>>, <<0, 1>>, <<2, 2>>>>}
MCBarePolynomials == {[bare |-> <<<<1, 2>>, <<0, 1>>>>, alpha |-> <<2, 1>>]}

(* Two leaves of a tree, opened in either order or twice. *)
Leaf(q) == <<q, 2, 1, 0, 0, 0>>
Layers == Merkle!DigestLayers([q \in Merkle!LeafIndices |-> Merkle!LeafDigest(Leaf(q), 3, 6)])
Path(q) == [leaf |-> Leaf(q), siblings |-> Merkle!OpenSiblings(Layers, q), leafIndex |-> q]
MCBatches == {<<Path(1), Path(0)>>, <<Path(1), Path(1)>>}

-----------------------------------------------------------------------------

exchangeVars == <<vars, layoutVars>>

ExchangeInit == Init /\ LayoutInit

TranscriptAtRest == phase = "proving" /\ schedule = <<>>
FirstRun == CHOOSE r \in Runs : TRUE
LayoutAtRest == stage = "executed" /\ run = FirstRun

ExchangeNext ==
    \/ Next /\ LayoutAtRest /\ UNCHANGED layoutVars
    \/ LayoutNext /\ TranscriptAtRest /\ UNCHANGED vars

ExchangeSpec == ExchangeInit /\ [][ExchangeNext]_exchangeVars

=============================================================================
