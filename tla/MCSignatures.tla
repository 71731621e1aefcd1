---------------------------- MODULE MCSignatures ----------------------------
(* Ranges at the boundaries of the tree and of its chunks, and an encoding     *)
(* hash whose words cover sums at and off the target, one word of -1, and -1   *)
(* in the word that the guest does not decompose.  Two topics share a message, *)
(* and two share a slot.                                                       *)
EXTENDS Signatures

CONSTANT SomeSlots

MCRanges == {<<0, 0>>, <<0, 2>>, <<6, 9>>, <<15, 16>>, <<2047, 2049>>, <<4094, 4095>>, <<4095, 4096>>, <<3, 2>>}

MCWord(m, r) == IF r = 768 THEN r ELSE ((r + 3 * (m - 1)) % 256) + 256 * (r \div 256)

MCEncodingWords ==
    [x \in Messages \X SomeSlots \X Randomness |->
        <<MCWord(x[1], x[3]), IF x[3] = 57 THEN P - 1 ELSE 1>>]

A == [message |-> 1, slot |-> 7]
B == [message |-> 2, slot |-> 8]
C == [message |-> 1, slot |-> 8]

MCTopics == {A, B, C}

RawOf(k, topic) == [key |-> k, message |-> topic.message, slot |-> topic.slot, valid |-> TRUE]

MCOthers == {RawOf(2, A), RawOf(3, A), RawOf(4, A), RawOf(3, B)}

=============================================================================
