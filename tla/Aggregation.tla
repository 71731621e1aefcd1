---------------------------- MODULE Aggregation ----------------------------
(***************************************************************************)
(* Multi-signatures (crates/rec_aggregation): type 1, many signers of one  *)
(* message at one slot, and type 2, a bundle of type 1; how Rust builds    *)
(* the statement and the hints of each, and what the guest program         *)
(* (zkdsl_implem/main.py) demands of them.                                 *)
(*                                                                         *)
(* A signer's public key is its number.  Hashes are free: the hash of some *)
(* input data is that data.  There is one bytecode, so its domain          *)
(* separator is left out of the data.  A proof is the statement the guest  *)
(* accepted: prove_execution fails when the guest does, and the verifier   *)
(* accepts a proof for its own statement only.                             *)
(***************************************************************************)
EXTENDS Integers, SequencesExt

CONSTANTS
    Signers,        \* public keys, ordered as numbers
    Topics,         \* what is signed: [message, slot]
    MaxRecursions,  \* MAX_RECURSIONS
    LogMaxSigs,     \* log2 of MAX_XMSS_AGGREGATED
    MaxDups,        \* MAX_XMSS_DUPLICATES
    MaxHeld,        \* bound on the multi-signatures in circulation
    MaxForged,      \* bound on the keys of a statement proved with hints not from Rust
    MaxForging      \* bound on the multi-signatures in circulation when that happens

MaxSigs == 2^LogMaxSigs

ASSUME AggregationAssumption ==
    /\ Signers \subseteq Nat /\ IsFiniteSet(Signers)
    /\ {MaxRecursions, LogMaxSigs, MaxDups} \subseteq Nat \ {0}
    /\ {MaxHeld, MaxForged, MaxForging} \subseteq Nat

VARIABLES
    raws,     \* the raw signatures that exist: [key, message, slot, valid]
    sigs,     \* the type-1 multi-signatures in circulation: [info, proof]
    bundles,  \* the type-2 multi-signatures: [infos, claim, proof]
    last      \* the last call: its arguments and its result

aggregationVars == <<raws, sigs, bundles, last>>

NoCall == [op |-> "none"]

-----------------------------------------------------------------------------
(* Bytecode claims.  A claim is the point it is about; its value is right when *)
(* the point was reduced by the guest, or recomputed by Deserialize.           *)

ZeroClaim == [kind |-> "zero", of |-> <<>>]

(* verify_execution leaves the claim its own proof ends with. *)
Evaluation(data) == [kind |-> "evaluation", of |-> <<data>>]

(* reduce_bytecode_claims: one claim for all of them. *)
ReduceClaims(claims) == IF claims = <<>> THEN ZeroClaim ELSE [kind |-> "reduced", of |-> claims]

(* The claims of some verified proofs: what each carries, and its own. *)
ClaimsOf(statements) ==
    [k \in 1..2 * Len(statements) |->
        LET data == statements[(k + 1) \div 2]
        IN  IF k % 2 = 1 THEN data.claim ELSE Evaluation(data)]

-----------------------------------------------------------------------------
(* Input data, which public inputs are hashes of. *)

Type1Flag == 1
Type2Flag == 0

(* build_type1_input_data: the chunks of the slot and the tweaks come apart. *)
Type1Data(keys, topic, claim) ==
    [flag |-> Type1Flag, count |-> Len(keys), claim |-> claim,
     keys |-> keys, message |-> topic.message, chunks |-> topic.slot, tweaks |-> topic.slot]

Type1InputData(info) == Type1Data(info.keys, info.topic, info.claim)

(* build_type2_input_data *)
Type2InputData(infos, claim) ==
    [flag |-> Type2Flag, count |-> Len(infos), claim |-> claim,
     digests |-> [k \in 1..Len(infos) |-> Type1InputData(infos[k])]]

Sorted(keys) == \A k \in 1..Len(keys) - 1 : keys[k] <= keys[k + 1]

(* verify_execution: the proof is for this statement. *)
Proves(proof, data) == proof = data

(* verify_type_1, verify_type_2 *)
VerifyType1(sig) == Sorted(sig.info.keys) /\ Proves(sig.proof, Type1InputData(sig.info))

VerifyType2(bundle) ==
    /\ Len(bundle.infos) \in 1..MaxRecursions
    /\ Proves(bundle.proof, Type2InputData(bundle.infos, bundle.claim))

-----------------------------------------------------------------------------
(* The guest, main.py. *)

(* The cells of `buffer` the general path writes: one for each raw signature,  *)
(* in the loop over raw_indices, and for each key of each child.  Each write   *)
(* has a value of its own, the counter.                                        *)
RawCells(h) == {<<0, j>> : j \in 1..Len(h.rawIndices)}

SubCells(h) == UNION {{<<r, j>> : j \in 1..Len(h.subIndices[r])} : r \in 1..Len(h.subIndices)}

Cells(h) == RawCells(h) \cup SubCells(h)

IndexOf(h, c) == IF c[1] = 0 THEN h.rawIndices[c[2]] ELSE h.subIndices[c[1]][c[2]]

(* A faulty Partition: the counter is not compared with n_total. *)
PartialPartition(h, total) ==
    /\ \A c \in Cells(h) : IndexOf(h, c) \in 0..total - 1
    /\ \A c, d \in Cells(h) : IndexOf(h, c) = IndexOf(h, d) => c = d

(* The memory is write-once, so two writes of `buffer` at one index conflict;  *)
(* `assert counter == n_total`.                                                *)
Partition(h, total) ==
    /\ \A c \in Cells(h) : IndexOf(h, c) \in 0..total - 1
    /\ \A c, d \in Cells(h) : IndexOf(h, c) = IndexOf(h, d) => c = d
    /\ Cardinality(Cells(h)) = total

(* xmss_verify in the guest. *)
RawVerifies(raw, key, data) ==
    raw.valid /\ raw.key = key /\ raw.message = data.message /\ raw.slot = data.chunks

(* The input data the guest builds for child r, of the keys it is pointed to. *)
ChildData(data, h, r) ==
    [flag |-> Type1Flag, count |-> Len(h.subIndices[r]), claim |-> h.innerClaims[r],
     keys |-> [j \in 1..Len(h.subIndices[r]) |-> h.keys[h.subIndices[r][j] + 1]],
     message |-> data.message, chunks |-> data.chunks, tweaks |-> data.tweaks]

(* "1->1 optimization": one child, no raw signature. *)
FastPath(h) == Len(h.proofs) = 1 /\ Len(h.rawIndices) = 0

GuestPassesOn(data, h) ==
    LET child == [data EXCEPT !.claim = h.innerClaims[1]]
    IN  /\ Proves(h.proofs[1], child)
        /\ data.claim = ReduceClaims(ClaimsOf(<<child>>))

(* slice_hash_with_iv_dynamic_unroll: its debug assertion on the length. *)
HashableKeys(n) == n # 0 /\ n < 2^LogMaxSigs

GuestAggregates(data, h) ==
    LET children == [r \in 1..Len(h.proofs) |-> ChildData(data, h, r)]
    IN  /\ HashableKeys(data.count)
        /\ data.keys = [k \in 1..data.count |-> h.keys[k]]
        /\ Partition(h, data.count + h.dups)
        /\ Len(h.raws) = Len(h.rawIndices)
        /\ \A j \in 1..Len(h.rawIndices) : RawVerifies(h.raws[j], h.keys[h.rawIndices[j] + 1], data)
        /\ \A r \in 1..Len(h.proofs) :
              /\ Len(h.subIndices[r]) # 0 /\ Len(h.subIndices[r]) < MaxSigs
              /\ Proves(h.proofs[r], children[r])
        /\ data.claim = ReduceClaims(ClaimsOf(children))

(* Standard type 1. *)
GuestType1(data, h) ==
    /\ data.count # 0 /\ data.count - 1 < MaxSigs
    /\ Len(h.proofs) <= MaxRecursions
    /\ h.dups \in 0..MaxDups - 1
    /\ Len(h.keys) = data.count + h.dups
    /\ data.tweaks = data.chunks
    /\ Len(h.proofs) = 1 => h.dups = 0
    /\ IF FastPath(h) THEN GuestPassesOn(data, h) ELSE GuestAggregates(data, h)

(* Type 2: every component is proved. *)
GuestType2(data, components, proofs) ==
    /\ data.count # 0 /\ data.count <= MaxRecursions
    /\ \A c \in 1..data.count :
          /\ components[c].flag = Type1Flag
          /\ data.digests[c] = components[c]
          /\ Proves(proofs[c], components[c])
    /\ data.claim = ReduceClaims(ClaimsOf(components))

(* Split: a type 1 with the data of a component of a proved bundle. *)
GuestSplit(data, bundle, proof, kept, index) ==
    /\ bundle.flag = Type2Flag
    /\ bundle.count # 0 /\ bundle.count <= MaxRecursions
    /\ index < bundle.count
    /\ data = [kept EXCEPT !.claim = data.claim]
    /\ bundle.digests[index + 1] = kept
    /\ Proves(proof, bundle)
    /\ data.claim = ReduceClaims(ClaimsOf(<<bundle>>))

-----------------------------------------------------------------------------
(* Rust: aggregate_type_1. *)

(* The keys of S in order: the next one has one smaller key more.              *)
SortedKeys(S) ==
    [j \in 1..Cardinality(S) |-> CHOOSE k \in S : Cardinality({l \in S : l < k}) = j - 1]

(* The first signature of a key in a list. *)
FirstRaw(list, k) ==
    list[CHOOSE i \in 1..Len(list) : list[i].key = k /\ \A e \in 1..i - 1 : list[e].key # k]

(* raw_xmss.sort_by and dedup_by: the first signature of each key is kept. *)
DedupedRaws(list) ==
    LET keys == SortedKeys({list[k].key : k \in 1..Len(list)})
    IN  [j \in 1..Len(keys) |-> FirstRaw(list, keys[j])]

PositionIn(keys, key) == (CHOOSE k \in 1..Len(keys) : keys[k] = key) - 1

(* A faulty Claimed: the raw signatures do not claim their keys. *)
ClaimedByChildren(children, raw, r, j) ==
    \/ \E q \in 1..r - 1 : children[r][j] \in ToSet(children[q])
    \/ \E i \in 1..j - 1 : children[r][i] = children[r][j]

(* Key j of child r is in `claimed`: a raw signature, an earlier child or an    *)
(* earlier key of the child has it.                                            *)
Claimed(children, raw, r, j) ==
    \/ \E i \in 1..Len(raw) : raw[i].key = children[r][j]
    \/ \E q \in 1..r - 1 : children[r][j] \in ToSet(children[q])
    \/ \E i \in 1..j - 1 : children[r][i] = children[r][j]

(* dup_pub_keys, in the order of the children and of their keys. *)
DupKeysOf(children, raw, r) ==
    LET positions == SelectSeq([j \in 1..Len(children[r]) |-> j], LAMBDA j : Claimed(children, raw, r, j))
    IN  [k \in 1..Len(positions) |-> children[r][positions[k]]]

DupKeys(children, raw, n) == FlattenSeq([r \in 1..n |-> DupKeysOf(children, raw, r)])

(* sub_indices: a position in the global list, or in the duplicates behind it. *)
SubIndices(children, raw, keys, r) ==
    LET before == Len(DupKeys(children, raw, r - 1))
        nth(j) == Cardinality({i \in 1..j - 1 : Claimed(children, raw, r, i)})
    IN  [j \in 1..Len(children[r]) |->
            IF Claimed(children, raw, r, j)
            THEN Len(keys) + before + nth(j)
            ELSE PositionIn(keys, children[r][j])]

(* A faulty GlobalKeys: the keys of the children follow the others, unsorted. *)
GlobalKeysAppended(children, raw) ==
    LET own == [j \in 1..Len(raw) |-> raw[j].key]
    IN  FoldLeft(LAMBDA keys, k : IF k \in ToSet(keys) THEN keys ELSE Append(keys, k), own, FlattenSeq(children))

(* global_pub_keys: the sorted union of all signers. *)
GlobalKeys(children, raw) ==
    SortedKeys({raw[j].key : j \in 1..Len(raw)} \cup UNION {ToSet(children[r]) : r \in 1..Len(children)})

(* The statement and the hints of an aggregation of some children. *)
AggregationOf(inputs, list, topic) ==
    LET raw == DedupedRaws(list)
        children == [r \in 1..Len(inputs) |-> inputs[r].info.keys]
        keys == GlobalKeys(children, raw)
        verified == [r \in 1..Len(inputs) |-> Type1InputData(inputs[r].info)]
        dups == DupKeys(children, raw, Len(children))
    IN  [data |-> Type1Data(keys, topic, ReduceClaims(ClaimsOf(verified))),
         hints |-> [dups |-> Len(dups),
                    keys |-> keys \o dups,
                    rawIndices |-> [j \in 1..Len(raw) |-> PositionIn(keys, raw[j].key)],
                    raws |-> raw,
                    subIndices |-> [r \in 1..Len(inputs) |-> SubIndices(children, raw, keys, r)],
                    innerClaims |-> [r \in 1..Len(inputs) |-> inputs[r].info.claim],
                    proofs |-> [r \in 1..Len(inputs) |-> inputs[r].proof]]]

(* The assertions of aggregate_type_1. *)
Aggregatable(inputs, a, topic) ==
    /\ Len(inputs) <= MaxRecursions
    /\ \A r \in 1..Len(inputs) : inputs[r].info.topic = topic /\ VerifyType1(inputs[r])
    /\ a.data.count <= MaxSigs
    /\ a.hints.dups <= MaxDups

(* Between two calls, and within the bound on what is in circulation. *)
Held == Cardinality(sigs) + Cardinality(bundles)
Room == last = NoCall /\ Held < MaxHeld

Type1(keys, topic, claim, proof) ==
    [info |-> [keys |-> keys, topic |-> topic, claim |-> claim], proof |-> proof]

AggregateType1(inputs, list, topic) ==
    LET a == AggregationOf(inputs, list, topic)
        ok == Aggregatable(inputs, a, topic) /\ GuestType1(a.data, a.hints)
    IN  /\ sigs' = IF ok THEN sigs \cup {Type1(a.data.keys, topic, a.data.claim, a.data)} ELSE sigs
        /\ last' = [op |-> "aggregate", inputs |-> inputs, list |-> list, topic |-> topic,
                    dups |-> a.hints.dups, keys |-> a.data.keys, ok |-> ok]
        /\ UNCHANGED <<raws, bundles>>

-----------------------------------------------------------------------------
(* Rust: merge_many_type_1, split_type_2 and split_type_2_by_msg. *)

MergeManyType1(inputs) ==
    LET infos == [k \in 1..Len(inputs) |-> inputs[k].info]
        verified == [k \in 1..Len(inputs) |-> Type1InputData(infos[k])]
        claim == ReduceClaims(ClaimsOf(verified))
        data == Type2InputData(infos, claim)
        ok == /\ Len(inputs) \in 1..MaxRecursions
              /\ \A k \in 1..Len(inputs) : VerifyType1(inputs[k])
              /\ GuestType2(data, verified, [k \in 1..Len(inputs) |-> inputs[k].proof])
    IN  /\ bundles' = IF ok THEN bundles \cup {[infos |-> infos, claim |-> claim, proof |-> data]} ELSE bundles
        /\ last' = [op |-> "merge", ok |-> ok]
        /\ UNCHANGED <<raws, sigs>>

(* A faulty SplitInfo: the component keeps the claim it had before the merge. *)
SplitInfoUnreduced(bundle, index) == bundle.infos[index + 1]

(* outer_type_1: the component, with the claim of the split's own proof. *)
SplitInfo(bundle, index) ==
    [bundle.infos[index + 1] EXCEPT
        !.claim = ReduceClaims(ClaimsOf(<<Type2InputData(bundle.infos, bundle.claim)>>))]

SplitType2(bundle, index) ==
    LET info == SplitInfo(bundle, index)
        data == Type1InputData(info)
        ok == /\ VerifyType2(bundle)
              /\ GuestSplit(data, Type2InputData(bundle.infos, bundle.claim), bundle.proof,
                            Type1InputData(bundle.infos[index + 1]), index)
    IN  /\ index < Len(bundle.infos)
        /\ sigs' = IF ok THEN sigs \cup {[info |-> info, proof |-> data]} ELSE sigs
        /\ last' = [op |-> "split", component |-> bundle.infos[index + 1], result |-> info, ok |-> ok]
        /\ UNCHANGED <<raws, bundles>>

(* UnknownMessage, MultipleMessages: nothing is split. *)
WithMessage(bundle, message) == {k \in 1..Len(bundle.infos) : bundle.infos[k].topic.message = message}

SplitType2ByMsg(bundle, message) ==
    \E k \in WithMessage(bundle, message) :
        Cardinality(WithMessage(bundle, message)) = 1 /\ SplitType2(bundle, k - 1)

-----------------------------------------------------------------------------
(* What comes from elsewhere: a type 1 proved with other hints than Rust's,     *)
(* and multi-signatures whose info was changed on the way.  Only what its        *)
(* verifier accepts gets into circulation.                                     *)

ForgedLists == UNION {[1..n -> Signers] : n \in 1..MaxForged}
Indices == UNION {[1..n -> 0..MaxForged - 1] : n \in 0..MaxForged}

(* Any list, with any indices: raw signatures and at most one child. *)
ForgedHints(keys, dups, rawIndices, list, children, sub) ==
    [dups |-> dups, keys |-> keys, rawIndices |-> rawIndices, raws |-> list,
     subIndices |-> [r \in 1..Len(children) |-> sub],
     innerClaims |-> [r \in 1..Len(children) |-> children[r].info.claim],
     proofs |-> [r \in 1..Len(children) |-> children[r].proof]]

ProveWithAnyHints(topic) ==
    /\ Held < MaxForging
    /\ \E all \in ForgedLists, rawIndices \in Indices, children \in {<<>>} \cup {<<s>> : s \in sigs} :
        \E n \in 1..Len(all), list \in [1..Len(rawIndices) -> raws],
           sub \in IF children = <<>> THEN {<<>>} ELSE Indices :
            LET keys == SubSeq(all, 1, n)
                h == ForgedHints(all, Len(all) - n, rawIndices, list, children, sub)
                claim == ReduceClaims(ClaimsOf([r \in 1..Len(children) |-> Type1InputData(children[r].info)]))
                data == Type1Data(keys, topic, claim)
            IN  /\ Sorted(keys)
                /\ GuestType1(data, h)
                /\ sigs' = sigs \cup {Type1(keys, topic, claim, data)}
                /\ last' = NoCall
                /\ UNCHANGED <<raws, bundles>>

(* A bundle and a split proved with other hints than Rust's. *)
MergeWithAnyHints(infos, proofs) ==
    LET components == [k \in 1..Len(infos) |-> Type1InputData(infos[k])]
        claim == ReduceClaims(ClaimsOf(components))
        data == Type2InputData(infos, claim)
    IN  /\ GuestType2(data, components, proofs)
        /\ bundles' = bundles \cup {[infos |-> infos, claim |-> claim, proof |-> data]}
        /\ last' = NoCall
        /\ UNCHANGED <<raws, sigs>>

SplitWithAnyHints(bundle, keys, topic, index) ==
    LET inner == Type2InputData(bundle.infos, bundle.claim)
        kept == Type1Data(keys, topic, bundle.infos[1].claim)
        claim == ReduceClaims(ClaimsOf(<<inner>>))
        data == Type1Data(keys, topic, claim)
    IN  /\ Sorted(keys)
        /\ GuestSplit(data, inner, bundle.proof, kept, index)
        /\ sigs' = sigs \cup {Type1(keys, topic, claim, data)}
        /\ last' = NoCall
        /\ UNCHANGED <<raws, bundles>>

(* decompress and verify_type_1: Deserialize refuses unsorted keys and          *)
(* recomputes the value of the claim.                                          *)
ReceiveType1(sig, keys, topic) ==
    LET received == Type1(keys, topic, sig.info.claim, sig.proof)
    IN  /\ Sorted(keys)
        /\ VerifyType1(received)
        /\ sigs' = sigs \cup {received}
        /\ last' = NoCall
        /\ UNCHANGED <<raws, bundles>>

(* decompress and verify_type_2, of other components than were merged. *)
ReceiveType2(bundle, infos) ==
    LET received == [bundle EXCEPT !.infos = infos]
    IN  /\ \A k \in 1..Len(infos) : Sorted(infos[k].keys)
        /\ VerifyType2(received)
        /\ bundles' = bundles \cup {received}
        /\ last' = NoCall
        /\ UNCHANGED <<raws, sigs>>

-----------------------------------------------------------------------------

Lists(S, n) == UNION {[1..k -> S] : k \in 0..n}

AggregationInit == sigs = {} /\ bundles = {} /\ last = NoCall

(* The caller has its result. *)
Return == last # NoCall /\ last' = NoCall /\ UNCHANGED <<raws, sigs, bundles>>

(* A call, or something received, by a caller who has room for the result. *)
Call ==
    \/ \E inputs \in Lists(sigs, MaxRecursions), list \in Lists(raws, 2), topic \in Topics :
           AggregateType1(inputs, list, topic)
    \/ \E inputs \in Lists(sigs, MaxRecursions) : MergeManyType1(inputs)
    \/ \E b \in bundles : \E k \in 0..Len(b.infos) - 1 : SplitType2(b, k)
    \/ \E b \in bundles, t \in Topics : SplitType2ByMsg(b, t.message)
    \/ \E t \in Topics : ProveWithAnyHints(t)
    \/ \E infos, from \in Lists(sigs, MaxRecursions) :
           /\ Len(infos) = Len(from)
           /\ MergeWithAnyHints([k \in 1..Len(infos) |-> infos[k].info], [k \in 1..Len(from) |-> from[k].proof])
    \/ \E b \in bundles, keys \in ForgedLists, t \in Topics, index \in 0..MaxRecursions :
           SplitWithAnyHints(b, keys, t, index)
    \/ \E s \in sigs, keys \in ForgedLists, t \in Topics : ReceiveType1(s, keys, t)
    \/ \E b \in bundles : \E infos \in Lists({s.info : s \in sigs}, MaxRecursions) : ReceiveType2(b, infos)

AggregationNext == Return \/ (Room /\ Call)

=============================================================================
