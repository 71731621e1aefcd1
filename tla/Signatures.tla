----------------------------- MODULE Signatures -----------------------------
(***************************************************************************)
(* From one key to multi-signatures: a signer's signature is checked, then *)
(* gathered with those of other signers, and what was gathered is          *)
(* aggregated, merged, split and passed on.                                *)
(***************************************************************************)
EXTENDS Xmss, Aggregation

CONSTANTS
    Signer,  \* the public key whose signature is followed from key generation on
    Others   \* the raw signatures of the other signers, which are valid

ASSUME OthersAssumption ==
    /\ Signer \in Signers
    /\ \A raw \in Others : raw.key \in Signers \ {Signer} /\ raw.valid = TRUE

vars == <<xmssVars, aggregationVars>>

Init == XmssInit /\ raws = {} /\ AggregationInit

(* A signature is gathered, whether it is valid or not: aggregate_type_1 does   *)
(* not look.  The key and what was checked are out of the picture.             *)
Gather ==
    /\ raws = {}
    /\ accepted # Undecided
    /\ [message |-> presented.message, slot |-> presented.slot] \in Topics
    /\ raws' = Others \cup {[key |-> Signer, message |-> presented.message, slot |-> presented.slot,
                             valid |-> accepted.guest]}
    /\ key' = NoKey /\ issued' = {} /\ presented' = <<>> /\ accepted' = Undecided
    /\ UNCHANGED <<sigs, bundles, last>>

Next ==
    \/ raws = {} /\ XmssNext /\ UNCHANGED aggregationVars
    \/ Gather
    \/ raws # {} /\ AggregationNext /\ UNCHANGED xmssVars

Spec == Init /\ [][Next]_vars

-----------------------------------------------------------------------------
(* Properties *)

(* A valid raw signature by a key on a topic. *)
Signed(k, topic) ==
    \E raw \in raws :
        raw.valid /\ raw.key = k /\ raw.message = topic.message /\ raw.slot = topic.slot

AllSigned(keys, topic) == \A k \in 1..Len(keys) : Signed(keys[k], topic)

(* "A Type-1 multi-signature attests that every public key in a given list      *)
(* signed the same message at the same slot" (TYPE1_TYPE2_LAYOUT.md): through   *)
(* recursion, duplicates, bundles, splits, hints the guest does not trust and   *)
(* infos changed on the way.                                                   *)
EverySignerSigned ==
    /\ \A s \in sigs : AllSigned(s.info.keys, s.info.topic)
    /\ \A b \in bundles : \A k \in 1..Len(b.infos) : AllSigned(b.infos[k].keys, b.infos[k].topic)

(* Whatever is in circulation verifies, so that every call may use it. *)
CirculatingVerify ==
    /\ \A s \in sigs : VerifyType1(s)
    /\ \A b \in bundles : VerifyType2(b)

(* The inputs of an aggregation: raw signatures, of which the first of each key *)
(* counts, and children.                                                       *)
InputKeys == {last.list[k].key : k \in 1..Len(last.list)}
                 \cup UNION {ToSet(last.inputs[r].info.keys) : r \in 1..Len(last.inputs)}

RawsSigned ==
    \A k \in 1..Len(DedupedRaws(last.list)) :
        LET raw == DedupedRaws(last.list)[k]
        IN  raw.valid /\ raw.message = last.topic.message /\ raw.slot = last.topic.slot

Compatible == \A r \in 1..Len(last.inputs) : last.inputs[r].info.topic = last.topic

Covers ==
    last.op = "aggregate" /\ last.ok =>
        ToSet(last.keys) = InputKeys /\ Len(last.keys) = Cardinality(InputKeys)

RefusedWithReason ==
    last.op = "aggregate" /\ ~last.ok =>
        \/ ~RawsSigned \/ ~Compatible \/ InputKeys = {}
        \/ Len(last.inputs) = 1 /\ last.dups > 0
        \/ Cardinality(InputKeys) >= MaxSigs \/ last.dups >= MaxDups
        \/ \E r \in 1..Len(last.inputs) : Len(last.inputs[r].info.keys) >= MaxSigs

(* An aggregation of valid signatures and verified children covers exactly the  *)
(* signers of both.  It is refused only without a signer, at the limits on the *)
(* number of signers and duplicates, or where a single child shares a signer.  *)
AggregationIsComplete == Covers /\ RefusedWithReason

(* "Recover an independent type-1 multi-signature for the component": a split   *)
(* succeeds and has the signers, the message and the slot that were merged.    *)
SplitRecoversTheComponent ==
    last.op = "split" =>
        /\ last.ok
        /\ last.result.keys = last.component.keys /\ last.result.topic = last.component.topic

=============================================================================
