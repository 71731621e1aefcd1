-------------------------- MODULE SignaturesProofs --------------------------
(***************************************************************************)
(* Whatever is in circulation was signed by each of its signers, verifies, *)
(* covers the signers it was made from and survives a split, for any set   *)
(* of signers, messages and bounds.  SignedInv says why: the statement of  *)
(* a proof is what its info says, and every key of it has signed.          *)
(***************************************************************************)
EXTENDS Signatures, NumberFacts, FiniteSetTheorems, WellFoundedInduction, TLAPS

-----------------------------------------------------------------------------

(* The sorted union of some keys has each of them once, in order (type_1_aggregation.rs:241). *)
LEMMA SortedKeysIs ==
    ASSUME NEW S \in SUBSET Signers
    PROVE  /\ SortedKeys(S) \in Seq(S)
           /\ Len(SortedKeys(S)) = Cardinality(S) /\ Cardinality(S) \in Nat
           /\ Sorted(SortedKeys(S))
<1> DEFINE s == SortedKeys(S)
<1>1. S \in SUBSET Nat /\ IsFiniteSet(S) /\ Cardinality(S) \in Nat
  BY AggregationAssumption, FS_Subset, FS_CardinalityType, Zenon DEF AggregationAssumption
<1>2. \A j \in 1..Cardinality(S) : s[j] \in S /\ Cardinality(Below(S, s[j])) = j - 1
  <2> TAKE j \in 1..Cardinality(S)
  <2>1. s[j] = CHOOSE k \in S : Cardinality(Below(S, k)) = j - 1
    BY DEF SortedKeys, Below
  <2>2. \E k \in S : Cardinality(Below(S, k)) = j - 1
    BY <1>1, RankTaken
  <2> QED
    BY <2>1, <2>2
<1>3. s = [j \in 1..Cardinality(S) |-> CHOOSE k \in S : Cardinality({l \in S : l < k}) = j - 1]
  BY DEF SortedKeys
<1>4. s \in [1..Cardinality(S) -> S]
  <2> HIDE DEF s
  <2> QED
    BY <1>2, <1>3
<1>5. s \in Seq(S) /\ Len(s) = Cardinality(S)
  BY <1>4, <1>1
<1>6. ASSUME NEW k \in 1..Len(s) - 1 PROVE s[k] <= s[k + 1]
  <2>1. k \in 1..Cardinality(S) /\ k + 1 \in 1..Cardinality(S) /\ k \in Nat
    BY <1>5, <1>1
  <2>2. s[k] \in Nat /\ s[k + 1] \in Nat
    BY <2>1, <1>2, <1>1
  <2>3. Cardinality(Below(S, s[k])) = k - 1 /\ Cardinality(Below(S, s[k + 1])) = k
    BY <2>1, <1>2
  <2>4. ASSUME s[k + 1] < s[k] PROVE FALSE
    <3>1. \A l \in S : l \in Nat
      BY <1>1
    <3>2. Below(S, s[k + 1]) \in SUBSET Below(S, s[k])
      BY <2>4, <2>2, <3>1 DEF Below
    <3>3. Cardinality(Below(S, s[k + 1])) <= Cardinality(Below(S, s[k]))
      BY <3>2, <1>1, BelowFinite, FS_Subset
    <3> QED
      BY <3>3, <2>3, <2>1
  <2> QED
    BY <2>4, <2>2
<1> QED
  BY <1>1, <1>5, <1>6 DEF Sorted

(* What is left of the raw signatures without repetitions are raw signatures. *)
LEMMA DedupedRawsIs ==
    ASSUME NEW n \in Nat, NEW list \in [1..n -> raws], \A raw \in raws : raw.key \in Signers
    PROVE  /\ Len(DedupedRaws(list)) \in Nat
           /\ \A j \in 1..Len(DedupedRaws(list)) : DedupedRaws(list)[j] \in raws
<1> DEFINE S == {list[k].key : k \in 1..Len(list)}
           keys == SortedKeys(S)
<1>1. Len(list) = n
  OBVIOUS
<1>2. S \in SUBSET Signers
  BY <1>1
<1>3. keys \in Seq(S) /\ Len(keys) \in Nat
  BY <1>2, SortedKeysIs
<1>4. DedupedRaws(list) = [j \in 1..Len(keys) |-> FirstRaw(list, keys[j])]
  BY DEF DedupedRaws
<1>5. Len(DedupedRaws(list)) = Len(keys)
  BY <1>3, <1>4
<1>6. ASSUME NEW j \in 1..Len(keys) PROVE FirstRaw(list, keys[j]) \in raws
  <2> DEFINE At == {i \in 1..n : list[i].key = keys[j]}
  <2>1. PICK at \in 1..n : list[at].key = keys[j]
    <3> HIDE DEF keys
    <3>1. keys[j] \in S
      BY <1>3
    <3> QED
      BY <3>1, <1>1
  <2>2. At # {} /\ At \in SUBSET Nat
    <3>1. at \in At
      BY <2>1
    <3>2. \A i \in 1..n : i \in Nat
      OBVIOUS
    <3>3. At \in SUBSET Nat
      BY <3>2, Zenon
    <3> QED
      BY <3>1, <3>3
  <2>3. PICK i \in At : \A e \in At : i <= e
    BY <2>2, Least
  <2>4. i \in 1..Len(list) /\ list[i].key = keys[j]
    BY <1>1
  <2>5. \A e \in 1..i - 1 : list[e].key # keys[j]
    BY <2>3
  <2>6. \E k \in 1..Len(list) : list[k].key = keys[j] /\ \A e \in 1..k - 1 : list[e].key # keys[j]
    BY <2>4, <2>5
  <2>7. (CHOOSE k \in 1..Len(list) : list[k].key = keys[j] /\ \A e \in 1..k - 1 : list[e].key # keys[j]) \in 1..n
    BY <2>6, <1>1
  <2> QED
    BY <2>7 DEF FirstRaw
<1> QED
  BY <1>3, <1>4, <1>5, <1>6

-----------------------------------------------------------------------------

Attested(d) == \A k \in DOMAIN d.keys : Signed(d.keys[k], [message |-> d.message, slot |-> d.chunks])

(* The indices the guest reads are as many as the keys and differ, so every key has one:
   the counting argument of main.py. *)
LEMMA PartitionCovers ==
    ASSUME NEW h, NEW total \in Nat, Partition(h, total), NEW i \in 0..total - 1
    PROVE  \E c \in Cells(h) : IndexOf(h, c) = i
<1> DEFINE f == [c \in Cells(h) |-> IndexOf(h, c)]
<1>1. f \in Injection(Cells(h), 0..total - 1)
  BY DEF Partition, Injection, IsInjective
<1>2. IsFiniteSet(0..total - 1) /\ Cardinality(0..total - 1) = total
  BY FS_Interval
<1>3. f \in Surjection(Cells(h), 0..total - 1)
  BY <1>1, <1>2, FS_Injection DEF Partition
<1> QED
  BY <1>3 DEF Surjection

(* Whatever the hints, the guest accepts no statement with a key that has not signed: the
   index of the key leads to a raw signature it verified, or to a child whose proof it verified. *)
LEMMA GuestIsSound ==
    ASSUME NEW keys, DOMAIN keys = 1..Len(keys), Len(keys) \in Nat, NEW topic, NEW claim, NEW h,
           MaxDups \in Nat,
           GuestType1(Type1Data(keys, topic, claim), h),
           Len(h.subIndices) = Len(h.proofs), Len(h.proofs) \in Nat,
           \A j \in 1..Len(h.raws) : h.raws[j] \in raws,
           \A r \in 1..Len(h.proofs) : Attested(h.proofs[r])
    PROVE  Attested(Type1Data(keys, topic, claim))
<1> DEFINE data == Type1Data(keys, topic, claim)
<1>1. CASE FastPath(h)
  <2>1. h.proofs[1] = [data EXCEPT !.claim = h.innerClaims[1]] /\ Len(h.proofs) = 1
    BY <1>1 DEF GuestType1, GuestPassesOn, Proves, FastPath
  <2>2. /\ h.proofs[1].keys = data.keys
        /\ h.proofs[1].message = data.message
        /\ h.proofs[1].chunks = data.chunks
    BY <2>1 DEF Type1Data
  <2>3. Attested(h.proofs[1])
    BY <2>1
  <2> QED
    BY <2>2, <2>3 DEF Attested
<1>2. CASE ~FastPath(h)
  <2> DEFINE total == data.count + h.dups
  <2>1. GuestAggregates(data, h) /\ h.dups \in 0..MaxDups - 1
    BY <1>2 DEF GuestType1
  <2>2. data.count = Len(keys) /\ data.keys = keys /\ data.message = topic.message /\ data.chunks = topic.slot
    BY DEF Type1Data
  <2>3. total \in Nat /\ Partition(h, total)
    BY <2>1, <2>2 DEF GuestAggregates
  <2>4. ASSUME NEW k \in 1..Len(keys)
        PROVE  Signed(keys[k], [message |-> topic.message, slot |-> topic.slot])
    <3>1. keys[k] = h.keys[k]
      BY <2>1, <2>2 DEF GuestAggregates
    <3>2. k - 1 \in 0..total - 1
      BY <2>1, <2>2
    <3>3. PICK c \in Cells(h) : IndexOf(h, c) = k - 1
      BY <2>3, <3>2, PartitionCovers
    <3>4. CASE c \in RawCells(h)
      <4>1. PICK j \in 1..Len(h.rawIndices) : c = <<0, j>>
        BY <3>4 DEF RawCells
      <4>2. h.rawIndices[j] = k - 1
        BY <4>1, <3>3 DEF IndexOf
      <4>3. h.raws[j] \in raws
        BY <2>1 DEF GuestAggregates
      <4>4. RawVerifies(h.raws[j], keys[k], data)
        BY <2>1, <4>2, <3>1 DEF GuestAggregates
      <4> QED
        BY <4>3, <4>4, <2>2 DEF RawVerifies, Signed
    <3>5. CASE c \in SubCells(h)
      <4>1. PICK r \in 1..Len(h.subIndices) : \E j \in 1..Len(h.subIndices[r]) : c = <<r, j>>
        BY <3>5 DEF SubCells
      <4>2. PICK j \in 1..Len(h.subIndices[r]) : c = <<r, j>>
        BY <4>1
      <4>3. h.subIndices[r][j] = k - 1
        <5>1. r # 0
          BY <2>1
        <5> QED
          BY <4>2, <5>1, <3>3 DEF IndexOf
      <4> DEFINE child == ChildData(data, h, r)
      <4>4. h.proofs[r] = child /\ Attested(h.proofs[r])
        BY <2>1 DEF GuestAggregates, Proves
      <4>5. j \in DOMAIN child.keys /\ child.keys[j] = keys[k]
        BY <4>3, <3>1 DEF ChildData
      <4>6. child.message = topic.message /\ child.chunks = topic.slot
        BY <2>2 DEF ChildData
      <4> QED
        BY <4>4, <4>5, <4>6 DEF Attested
    <3> QED
      BY <3>3, <3>4, <3>5 DEF Cells
  <2> QED
    BY <2>2, <2>4 DEF Attested
<1> QED
  BY <1>1, <1>2

-----------------------------------------------------------------------------

InfoOK(info) ==
    /\ info = [keys |-> info.keys, topic |-> info.topic, claim |-> info.claim]
    /\ info.keys \in Seq(Signers)
    /\ Sorted(info.keys)
    /\ AllSigned(info.keys, info.topic)

SigOK(sig) ==
    /\ sig = [info |-> sig.info, proof |-> sig.proof]
    /\ InfoOK(sig.info)
    /\ sig.proof = Type1InputData(sig.info)

BundleOK(bundle) ==
    /\ bundle = [infos |-> bundle.infos, claim |-> bundle.claim, proof |-> bundle.proof]
    /\ Len(bundle.infos) \in 1..MaxRecursions
    /\ \A k \in 1..Len(bundle.infos) : InfoOK(bundle.infos[k])
    /\ bundle.proof = Type2InputData(bundle.infos, bundle.claim)

SigsOK == \A sig \in sigs : SigOK(sig)
BundlesOK == \A bundle \in bundles : BundleOK(bundle)
RawKeysOK == \A raw \in raws : raw.key \in Signers

SignedInv == SigsOK /\ BundlesOK /\ RawKeysOK

(* The invariant is stronger than both properties. *)
LEMMA SignedInvMeans == SignedInv => EverySignerSigned /\ CirculatingVerify
BY DEF SignedInv, SigsOK, BundlesOK, SigOK, BundleOK, InfoOK, EverySignerSigned, CirculatingVerify,
       VerifyType1, VerifyType2, Proves

-----------------------------------------------------------------------------

(* What is attested and signed stays so when raw signatures are added, and a   *)
(* step that circulates only what is attested keeps the invariant.             *)
LEMMA StepKeeps ==
    ASSUME SignedInv, raws \subseteq raws', RawKeysOK',
           \A s \in sigs' : s \in sigs \/ SigOK(s),
           \A b \in bundles' : b \in bundles \/ BundleOK(b)
    PROVE  SignedInv'
<1>1. ASSUME NEW k, NEW topic, Signed(k, topic) PROVE Signed(k, topic)'
  BY <1>1 DEF Signed
<1>2. ASSUME NEW info, InfoOK(info) PROVE InfoOK(info)'
  BY <1>1, <1>2 DEF InfoOK, AllSigned
<1>3. ASSUME NEW s \in sigs' PROVE SigOK(s)'
  <2>1. SigOK(s)
    BY DEF SignedInv, SigsOK
  <2> QED
    BY <2>1, <1>2 DEF SigOK
<1>4. ASSUME NEW b \in bundles' PROVE BundleOK(b)'
  <2>1. BundleOK(b)
    BY DEF SignedInv, BundlesOK
  <2> QED
    BY <2>1, <1>2 DEF BundleOK
<1> QED
  BY <1>3, <1>4 DEF SignedInv, SigsOK, BundlesOK

(* A statement is attested when its keys have signed. *)
LEMMA AttestedIs ==
    ASSUME NEW keys \in Seq(Signers), NEW topic, NEW claim
    PROVE  Attested(Type1Data(keys, topic, claim)) <=> AllSigned(keys, topic)
BY DEF Attested, Type1Data, AllSigned, Signed

(* The proof of a type 1 in circulation is of an attested statement.           *)
LEMMA ProofAttested ==
    ASSUME NEW sig, SigOK(sig)
    PROVE  Attested(sig.proof)
<1>1. sig.proof = Type1Data(sig.info.keys, sig.info.topic, sig.info.claim)
  BY DEF SigOK, Type1InputData
<1>2. sig.info.keys \in Seq(Signers) /\ AllSigned(sig.info.keys, sig.info.topic)
  BY DEF SigOK, InfoOK
<1> QED
  BY <1>1, <1>2, AttestedIs

(* Lists of members of a set. *)
LEMMA ListOf ==
    ASSUME NEW S, NEW n \in Nat, NEW list \in Lists(S, n)
    PROVE  /\ Len(list) \in 0..n
           /\ list \in [1..Len(list) -> S]
           /\ \A k \in 1..Len(list) : list[k] \in S
<1>1. PICK m \in 0..n : list \in [1..m -> S]
  BY DEF Lists
<1>2. Len(list) = m
  BY <1>1
<1> QED
  BY <1>1, <1>2

(* A type 1 of sorted, attested keys may circulate with a proof of its data.   *)
LEMMA Type1OK ==
    ASSUME NEW keys \in Seq(Signers), Sorted(keys), NEW topic, NEW claim,
           Attested(Type1Data(keys, topic, claim))
    PROVE  SigOK(Type1(keys, topic, claim, Type1Data(keys, topic, claim)))
<1>1. AllSigned(keys, topic)
  BY AttestedIs
<1> QED
  BY <1>1 DEF SigOK, InfoOK, Type1, Type1InputData

-----------------------------------------------------------------------------
(* What Rust does. *)

(* aggregate_type_1 keeps SignedInv when it succeeds. *)
LEMMA AggregateKeeps ==
    ASSUME SignedInv, NEW inputs \in Lists(sigs, MaxRecursions), NEW list \in Lists(raws, 2),
           NEW topic \in Topics, AggregateType1(inputs, list, topic)
    PROVE  SignedInv'
<1> DEFINE a == AggregationOf(inputs, list, topic)
           raw == DedupedRaws(list)
           children == [r \in 1..Len(inputs) |-> inputs[r].info.keys]
           union == {raw[j].key : j \in 1..Len(raw)} \cup UNION {ToSet(children[r]) : r \in 1..Len(children)}
           keys == SortedKeys(union)
<1>1. /\ Len(inputs) \in Nat
      /\ \A r \in 1..Len(inputs) : SigOK(inputs[r])
  BY ListOf, AggregationAssumption DEF AggregationAssumption, SignedInv, SigsOK
<1>2. Len(raw) \in Nat /\ \A j \in 1..Len(raw) : raw[j] \in raws
  BY ListOf, DedupedRawsIs DEF SignedInv, RawKeysOK
<1>3. union \in SUBSET Signers
  <2>1. ASSUME NEW j \in 1..Len(raw) PROVE raw[j].key \in Signers
    BY <1>2 DEF SignedInv, RawKeysOK
  <2>2. ASSUME NEW r \in 1..Len(children) PROVE ToSet(children[r]) \subseteq Signers
    <3>1. Len(children) = Len(inputs)
      BY <1>1
    <3>2. r \in 1..Len(inputs)
      BY <3>1
    <3>3. inputs[r].info.keys \in Seq(Signers)
      BY <1>1, <3>2 DEF SigOK, InfoOK
    <3>4. children[r] \in Seq(Signers)
      BY <3>2, <3>3
    <3> HIDE DEF children
    <3> QED
      BY <3>4 DEF ToSet
  <2> QED
    BY <2>1, <2>2
<1>4. keys \in Seq(Signers) /\ Sorted(keys)
  <2> HIDE DEF union
  <2>1. SortedKeys(union) \in Seq(union) /\ Sorted(SortedKeys(union))
    BY <1>3, SortedKeysIs
  <2> HIDE DEF keys
  <2>2. keys \in Seq(union) /\ Sorted(keys)
    BY <2>1 DEF keys
  <2> QED
    BY <2>2, <1>3
<1>5. /\ a.data = Type1Data(keys, topic, a.data.claim)
      /\ a.data.keys = keys
      /\ a.hints.raws = raw
      /\ Len(a.hints.subIndices) = Len(inputs)
      /\ Len(a.hints.proofs) = Len(inputs)
      /\ \A r \in 1..Len(inputs) : a.hints.proofs[r] = inputs[r].proof
  <2>1. GlobalKeys(children, raw) = keys
    BY DEF GlobalKeys
  <2> HIDE DEF raw, children, keys, union
  <2>2. a.data = Type1Data(keys, topic, a.data.claim)
    BY <2>1 DEF AggregationOf, Type1Data, children, raw
  <2>3. a.data.keys = keys
    BY <2>2 DEF Type1Data
  <2>4. a.hints.raws = raw
    BY DEF AggregationOf, raw
  <2>5. a.hints.subIndices = [r \in 1..Len(inputs) |-> SubIndices(children, raw, keys, r)]
    BY <2>1 DEF AggregationOf, children, raw
  <2>6. a.hints.proofs = [r \in 1..Len(inputs) |-> inputs[r].proof]
    BY DEF AggregationOf
  <2> HIDE DEF a
  <2>7. Len(a.hints.subIndices) = Len(inputs)
    BY <1>1, <2>5
  <2>8. Len(a.hints.proofs) = Len(inputs)
    BY <1>1, <2>6
  <2> QED
    BY <2>2, <2>3, <2>4, <2>6, <2>7, <2>8
<1>6. ASSUME GuestType1(a.data, a.hints)
      PROVE  SigOK(Type1(a.data.keys, topic, a.data.claim, a.data))
  <2>1. \A r \in 1..Len(a.hints.proofs) : Attested(a.hints.proofs[r])
    BY <1>1, <1>5, ProofAttested
  <2>2. DOMAIN keys = 1..Len(keys) /\ Len(keys) \in Nat
    <3> HIDE DEF keys
    <3> QED
      BY <1>4
  <2>3. MaxDups \in Nat
    BY AggregationAssumption DEF AggregationAssumption
  <2> DEFINE h == a.hints
             claim == a.data.claim
  <2>4. /\ Len(h.subIndices) = Len(h.proofs)
        /\ Len(h.proofs) \in Nat
        /\ \A j \in 1..Len(h.raws) : h.raws[j] \in raws
    BY <1>1, <1>2, <1>5
  <2>5. GuestType1(Type1Data(keys, topic, claim), h)
    BY <1>5, <1>6
  <2>6. Attested(Type1Data(keys, topic, claim))
    <3> HIDE DEF h, claim, keys
    <3> QED
      BY <2>1, <2>2, <2>3, <2>4, <2>5, GuestIsSound DEF h
  <2> QED
    BY <1>4, <1>5, <2>6, Type1OK
<1>7. raws' = raws /\ bundles' = bundles
  BY DEF AggregateType1
<1>8. \A s \in sigs' : s \in sigs \/ SigOK(s)
  BY <1>6 DEF AggregateType1
<1> QED
  BY <1>7, <1>8, StepKeeps DEF SignedInv, RawKeysOK

(* merge_many_type_1: a bundle of verified multi-signatures. *)
LEMMA MergeKeeps ==
    ASSUME SignedInv, NEW inputs \in Lists(sigs, MaxRecursions), MergeManyType1(inputs)
    PROVE  SignedInv'
<1> DEFINE infos == [k \in 1..Len(inputs) |-> inputs[k].info]
           claim == ReduceClaims(ClaimsOf([k \in 1..Len(inputs) |-> Type1InputData(infos[k])]))
           bundle == [infos |-> infos, claim |-> claim, proof |-> Type2InputData(infos, claim)]
<1>1. Len(inputs) \in Nat /\ \A k \in 1..Len(inputs) : InfoOK(inputs[k].info)
  BY ListOf, AggregationAssumption DEF AggregationAssumption, SignedInv, SigsOK, SigOK
<1>2. Len(infos) = Len(inputs)
  BY <1>1
<1>3. ASSUME Len(inputs) \in 1..MaxRecursions PROVE BundleOK(bundle)
  <2> HIDE DEF claim
  <2> QED
    BY <1>1, <1>2, <1>3 DEF BundleOK
<1>4. bundles' = bundles \/ (Len(inputs) \in 1..MaxRecursions /\ bundles' = bundles \cup {bundle})
  BY DEF MergeManyType1
<1>5. raws' = raws /\ sigs' = sigs
  BY DEF MergeManyType1
<1>6. \A b \in bundles' : b \in bundles \/ BundleOK(b)
  <2> HIDE DEF bundle
  <2> QED
    BY <1>3, <1>4
<1> QED
  BY <1>5, <1>6, StepKeeps DEF SignedInv, RawKeysOK

(* split_type_2: a component keeps its keys, and takes the claim of the split's own proof. *)
LEMMA SplitKeeps ==
    ASSUME SignedInv, NEW bundle \in bundles, NEW index \in Nat, SplitType2(bundle, index)
    PROVE  SignedInv'
<1> DEFINE info == SplitInfo(bundle, index)
           component == bundle.infos[index + 1]
<1>1. InfoOK(component)
  <2>1. index + 1 \in 1..Len(bundle.infos)
    BY AggregationAssumption DEF AggregationAssumption, SplitType2, SignedInv, BundlesOK, BundleOK
  <2> QED
    BY <2>1 DEF SignedInv, BundlesOK, BundleOK
<1>2. /\ info.keys = component.keys /\ info.topic = component.topic
      /\ info = [keys |-> info.keys, topic |-> info.topic, claim |-> info.claim]
  BY <1>1 DEF SplitInfo, InfoOK
<1>3. SigOK([info |-> info, proof |-> Type1InputData(info)])
  <2> HIDE DEF info
  <2> QED
    BY <1>1, <1>2 DEF SigOK, InfoOK
<1>4. raws' = raws /\ bundles' = bundles /\ \A s \in sigs' : s \in sigs \/ SigOK(s)
  BY <1>3 DEF SplitType2
<1> QED
  BY <1>4, StepKeeps DEF SignedInv, RawKeysOK

-----------------------------------------------------------------------------
(* What comes from elsewhere. *)

Circulated(topic, all, rawIndices, children, n, list, sub) ==
    LET keys == SubSeq(all, 1, n)
        h == ForgedHints(all, Len(all) - n, rawIndices, list, children, sub)
        claim == ReduceClaims(ClaimsOf([r \in 1..Len(children) |-> Type1InputData(children[r].info)]))
        data == Type1Data(keys, topic, claim)
    IN  /\ Sorted(keys)
        /\ GuestType1(data, h)
        /\ sigs' = sigs \cup {Type1(keys, topic, claim, data)}
        /\ last' = NoCall
        /\ UNCHANGED <<raws, bundles>>

(* A type 1 proved with any hints has some list of keys, raws and children. *)
LEMMA ProvedWith ==
    ASSUME NEW topic, ProveWithAnyHints(topic)
    PROVE  \E all \in ForgedLists, rawIndices \in Indices, children \in {<<>>} \cup {<<s>> : s \in sigs} :
             \E n \in 1..Len(all), list \in [1..Len(rawIndices) -> raws] :
                 \E sub : Circulated(topic, all, rawIndices, children, n, list, sub)
<1>1. \E all \in ForgedLists, rawIndices \in Indices, children \in {<<>>} \cup {<<s>> : s \in sigs} :
        \E n \in 1..Len(all), list \in [1..Len(rawIndices) -> raws],
           sub \in IF children = <<>> THEN {<<>>} ELSE Indices :
            Circulated(topic, all, rawIndices, children, n, list, sub)
  BY Zenon DEF ProveWithAnyHints, Circulated
<1> QED
  BY <1>1

(* What is proved with any hints at all is attested if the guest accepts it. *)
LEMMA ProveKeeps ==
    ASSUME SignedInv, NEW topic \in Topics, ProveWithAnyHints(topic)
    PROVE  SignedInv'
<1>1. \E all \in ForgedLists, rawIndices \in Indices, children \in {<<>>} \cup {<<s>> : s \in sigs} :
        \E n \in 1..Len(all), list \in [1..Len(rawIndices) -> raws] :
            \E sub : Circulated(topic, all, rawIndices, children, n, list, sub)
  BY ProvedWith
<1>2. PICK all \in ForgedLists, rawIndices \in Indices, children \in {<<>>} \cup {<<s>> : s \in sigs} :
        \E n \in 1..Len(all), list \in [1..Len(rawIndices) -> raws] :
            \E sub : Circulated(topic, all, rawIndices, children, n, list, sub)
  BY <1>1
<1>3. PICK n \in 1..Len(all), list \in [1..Len(rawIndices) -> raws] :
        \E sub : Circulated(topic, all, rawIndices, children, n, list, sub)
  BY <1>2
<1>4. PICK sub : Circulated(topic, all, rawIndices, children, n, list, sub)
  BY <1>3
<1> DEFINE claim == ReduceClaims(ClaimsOf([r \in 1..Len(children) |-> Type1InputData(children[r].info)]))
<1> HIDE DEF claim
<1> DEFINE keys == SubSeq(all, 1, n)
           h == ForgedHints(all, Len(all) - n, rawIndices, list, children, sub)
<1>5. keys \in Seq(Signers) /\ DOMAIN keys = 1..Len(keys) /\ Len(keys) \in Nat
  <2>1. PICK m \in 1..MaxForged : all \in [1..m -> Signers]
    BY DEF ForgedLists
  <2>2. all \in Seq(Signers) /\ n \in 1..Len(all)
    BY <2>1
  <2>3. keys \in Seq(Signers)
    BY <2>2
  <2> QED
    BY <2>3
<1>6. Len(rawIndices) \in Nat
  <2>1. PICK m \in 0..MaxForged : rawIndices \in [1..m -> 0..MaxForged - 1]
    BY DEF Indices
  <2> QED
    BY <2>1
<1>7. Len(children) \in Nat /\ \A r \in 1..Len(children) : SigOK(children[r])
  <2>1. CASE children = <<>>
    BY <2>1
  <2>2. CASE children \in {<<s>> : s \in sigs}
    BY <2>2 DEF SignedInv, SigsOK
  <2> QED
    BY <2>1, <2>2
<1>8. /\ Len(h.subIndices) = Len(h.proofs) /\ Len(h.proofs) = Len(children)
      /\ h.raws = list
      /\ \A r \in 1..Len(children) : h.proofs[r] = children[r].proof
  BY <1>7 DEF ForgedHints
<1>9. /\ \A j \in 1..Len(h.raws) : h.raws[j] \in raws
      /\ \A r \in 1..Len(h.proofs) : Attested(h.proofs[r])
      /\ Len(h.proofs) \in Nat
  BY <1>6, <1>7, <1>8, ProofAttested
<1>10. GuestType1(Type1Data(keys, topic, claim), h) /\ Sorted(keys)
  BY <1>4 DEF Circulated, claim
<1>11. MaxDups \in Nat
  BY AggregationAssumption DEF AggregationAssumption
<1>12. Attested(Type1Data(keys, topic, claim))
  <2>1. Len(h.subIndices) = Len(h.proofs)
    BY <1>8
  <2> HIDE DEF h, keys
  <2> QED
    BY <1>5, <2>1, <1>9, <1>10, <1>11, GuestIsSound
<1>13. SigOK(Type1(keys, topic, claim, Type1Data(keys, topic, claim)))
  BY <1>5, <1>10, <1>12, Type1OK
<1>14. /\ sigs' = sigs \cup {Type1(keys, topic, claim, Type1Data(keys, topic, claim))}
       /\ raws' = raws /\ bundles' = bundles
  BY <1>4 DEF Circulated, claim
<1> QED
  BY <1>13, <1>14, StepKeeps DEF SignedInv, RawKeysOK

(* A bundle proved with other hints: the guest compares the digests. *)
LEMMA MergeAnyKeeps ==
    ASSUME SignedInv, NEW infos, Len(infos) \in Nat, \A k \in 1..Len(infos) : InfoOK(infos[k]),
           NEW proofs, MergeWithAnyHints(infos, proofs)
    PROVE  SignedInv'
<1> DEFINE claim == ReduceClaims(ClaimsOf([k \in 1..Len(infos) |-> Type1InputData(infos[k])]))
           bundle == [infos |-> infos, claim |-> claim, proof |-> Type2InputData(infos, claim)]
<1>1. /\ bundles' = bundles \cup {bundle}
      /\ raws' = raws /\ sigs' = sigs
  BY DEF MergeWithAnyHints
<1>2. Len(infos) \in 1..MaxRecursions
  BY AggregationAssumption DEF AggregationAssumption, MergeWithAnyHints, GuestType2, Type2InputData
<1>3. BundleOK(bundle)
  <2> HIDE DEF claim
  <2> QED
    BY <1>2 DEF BundleOK
<1> QED
  BY <1>1, <1>3, StepKeeps DEF SignedInv, RawKeysOK

(* A split proved with other hints: the statement is one of the bundle's. *)
LEMMA SplitAnyKeeps ==
    ASSUME SignedInv, NEW bundle \in bundles, NEW keys \in ForgedLists, NEW topic \in Topics,
           NEW index \in Nat, SplitWithAnyHints(bundle, keys, topic, index)
    PROVE  SignedInv'
<1> DEFINE inner == Type2InputData(bundle.infos, bundle.claim)
           kept == Type1Data(keys, topic, bundle.infos[1].claim)
           claim == ReduceClaims(ClaimsOf(<<inner>>))
           component == bundle.infos[index + 1]
<1>1. /\ Sorted(keys)
      /\ index < inner.count /\ inner.digests[index + 1] = kept
      /\ sigs' = sigs \cup {Type1(keys, topic, claim, Type1Data(keys, topic, claim))}
      /\ raws' = raws /\ bundles' = bundles
  BY DEF SplitWithAnyHints, GuestSplit
<1>2. InfoOK(component) /\ Type1InputData(component) = kept
  <2>1. index + 1 \in 1..Len(bundle.infos)
    BY <1>1, AggregationAssumption DEF AggregationAssumption, Type2InputData, SignedInv, BundlesOK, BundleOK
  <2> QED
    BY <2>1, <1>1 DEF SignedInv, BundlesOK, BundleOK, Type2InputData
<1>3. /\ component.keys = keys
      /\ component.topic.message = topic.message
      /\ component.topic.slot = topic.slot
  BY <1>2 DEF Type1InputData, Type1Data
<1>4. keys \in Seq(Signers) /\ AllSigned(keys, topic)
  BY <1>2, <1>3 DEF InfoOK, AllSigned, Signed
<1>5. SigOK(Type1(keys, topic, claim, Type1Data(keys, topic, claim)))
  BY <1>1, <1>4, AttestedIs, Type1OK
<1> QED
  BY <1>1, <1>5, StepKeeps DEF SignedInv, RawKeysOK

(* A received type 1 verifies only with the info it was proved with. *)
LEMMA Receive1Keeps ==
    ASSUME SignedInv, NEW sig \in sigs, NEW keys, NEW topic, ReceiveType1(sig, keys, topic)
    PROVE  SignedInv'
<1> DEFINE info == [keys |-> keys, topic |-> topic, claim |-> sig.info.claim]
           received == [info |-> info, proof |-> sig.proof]
<1>1. SigOK(sig)
  BY DEF SignedInv, SigsOK
<1>2. received = Type1(keys, topic, sig.info.claim, sig.proof)
  BY DEF Type1
<1>3. /\ Sorted(keys) /\ VerifyType1(received)
      /\ sigs' = sigs \cup {received} /\ raws' = raws /\ bundles' = bundles
  BY <1>2 DEF ReceiveType1
<1>4. sig.proof = Type1InputData(info) /\ sig.proof = Type1InputData(sig.info)
  BY <1>1, <1>3 DEF VerifyType1, Proves, SigOK
<1>5. /\ sig.info.keys = keys
      /\ sig.info.topic.message = topic.message
      /\ sig.info.topic.slot = topic.slot
  BY <1>4 DEF Type1InputData, Type1Data
<1>6. InfoOK(info)
  BY <1>1, <1>3, <1>5 DEF SigOK, InfoOK, AllSigned, Signed
<1>7. SigOK(received)
  BY <1>4, <1>6 DEF SigOK
<1> QED
  BY <1>3, <1>7, StepKeeps DEF SignedInv, RawKeysOK

(* A received bundle verifies only with the infos it was merged from. *)
LEMMA Receive2Keeps ==
    ASSUME SignedInv, NEW bundle \in bundles, NEW infos \in Lists({s.info : s \in sigs}, MaxRecursions),
           ReceiveType2(bundle, infos)
    PROVE  SignedInv'
<1> DEFINE received == [infos |-> infos, claim |-> bundle.claim, proof |-> bundle.proof]
<1>1. received = [bundle EXCEPT !.infos = infos]
  BY DEF SignedInv, BundlesOK, BundleOK
<1>2. /\ VerifyType2(received)
      /\ bundles' = bundles \cup {received} /\ raws' = raws /\ sigs' = sigs
  BY <1>1 DEF ReceiveType2
<1>3. \A k \in 1..Len(infos) : InfoOK(infos[k])
  BY ListOf, AggregationAssumption DEF AggregationAssumption, SignedInv, SigsOK, SigOK
<1>4. BundleOK(received)
  BY <1>2, <1>3 DEF BundleOK, VerifyType2, Proves
<1> QED
  BY <1>2, <1>4, StepKeeps DEF SignedInv, RawKeysOK

-----------------------------------------------------------------------------

(* Every call and everything received keeps the invariant. *)
LEMMA AggregationKeeps == SignedInv /\ AggregationNext => SignedInv'
<1> SUFFICES ASSUME SignedInv, AggregationNext PROVE SignedInv'
  OBVIOUS
<1>0. MaxRecursions \in Nat
  BY AggregationAssumption DEF AggregationAssumption
<1>1. CASE Return
  BY <1>1, StepKeeps DEF Return, SignedInv, RawKeysOK
<1>2. CASE \E inputs \in Lists(sigs, MaxRecursions), list \in Lists(raws, 2), topic \in Topics :
             AggregateType1(inputs, list, topic)
  BY <1>2, AggregateKeeps
<1>3. CASE \E inputs \in Lists(sigs, MaxRecursions) : MergeManyType1(inputs)
  BY <1>3, MergeKeeps
<1>4. CASE \E b \in bundles : \E k \in 0..Len(b.infos) - 1 : SplitType2(b, k)
  <2>1. PICK b \in bundles : \E k \in 0..Len(b.infos) - 1 : SplitType2(b, k)
    BY <1>4
  <2>2. PICK k \in 0..Len(b.infos) - 1 : SplitType2(b, k)
    BY <2>1
  <2>3. k \in Nat
    OBVIOUS
  <2> QED
    BY <2>2, <2>3, SplitKeeps
<1>5. CASE \E b \in bundles, t \in Topics : SplitType2ByMsg(b, t.message)
  <2>1. PICK b \in bundles, t \in Topics : SplitType2ByMsg(b, t.message)
    BY <1>5
  <2>2. PICK k \in WithMessage(b, t.message) : SplitType2(b, k - 1)
    BY <2>1 DEF SplitType2ByMsg
  <2>3. k - 1 \in Nat
    BY <2>2 DEF WithMessage
  <2> QED
    BY <2>2, <2>3, SplitKeeps
<1>6. CASE \E t \in Topics : ProveWithAnyHints(t)
  BY <1>6, ProveKeeps
<1>7. CASE \E infos, from \in Lists(sigs, MaxRecursions) :
             /\ Len(infos) = Len(from)
             /\ MergeWithAnyHints([k \in 1..Len(infos) |-> infos[k].info],
                                  [k \in 1..Len(from) |-> from[k].proof])
  <2>1. PICK list \in Lists(sigs, MaxRecursions), from \in Lists(sigs, MaxRecursions) :
          MergeWithAnyHints([k \in 1..Len(list) |-> list[k].info], [k \in 1..Len(from) |-> from[k].proof])
    BY <1>7
  <2> DEFINE infos == [k \in 1..Len(list) |-> list[k].info]
             proofs == [k \in 1..Len(from) |-> from[k].proof]
  <2>2. Len(list) \in Nat /\ \A k \in 1..Len(list) : SigOK(list[k])
    BY <1>0, ListOf DEF SignedInv, SigsOK
  <2>3. Len(infos) \in Nat /\ \A k \in 1..Len(infos) : InfoOK(infos[k])
    <3>1. Len(infos) = Len(list)
      BY <2>2
    <3>2. \A k \in 1..Len(list) : infos[k] = list[k].info /\ InfoOK(list[k].info)
      BY <2>2 DEF SigOK
    <3> HIDE DEF infos
    <3> QED
      BY <2>2, <3>1, <3>2
  <2>4. MergeWithAnyHints(infos, proofs)
    BY <2>1
  <2> HIDE DEF infos, proofs
  <2> QED
    BY <2>3, <2>4, MergeAnyKeeps
<1>8. CASE \E b \in bundles, keys \in ForgedLists, t \in Topics, index \in 0..MaxRecursions :
             SplitWithAnyHints(b, keys, t, index)
  <2>1. PICK b \in bundles, keys \in ForgedLists, t \in Topics, index \in 0..MaxRecursions :
          SplitWithAnyHints(b, keys, t, index)
    BY <1>8
  <2>2. index \in Nat
    OBVIOUS
  <2> QED
    BY <2>1, <2>2, SplitAnyKeeps
<1>9. CASE \E s \in sigs, keys \in ForgedLists, t \in Topics : ReceiveType1(s, keys, t)
  BY <1>9, Receive1Keeps
<1>10. CASE \E b \in bundles : \E infos \in Lists({s.info : s \in sigs}, MaxRecursions) : ReceiveType2(b, infos)
  BY <1>10, Receive2Keeps
<1> QED
  BY <1>1, <1>2, <1>3, <1>4, <1>5, <1>6, <1>7, <1>8, <1>9, <1>10 DEF AggregationNext, Call

(* Gathering raw signatures keeps it, as nothing is in circulation before. *)
LEMMA GatherKeeps == SignedInv /\ Gather => SignedInv'
<1> SUFFICES ASSUME SignedInv, Gather PROVE SignedInv'
  OBVIOUS
<1>1. /\ raws = {} /\ sigs' = sigs /\ bundles' = bundles
      /\ raws' = Others \cup {[key |-> Signer, message |-> presented.message, slot |-> presented.slot,
                               valid |-> accepted.guest]}
  BY DEF Gather
<1>2. RawKeysOK'
  BY <1>1, OthersAssumption DEF OthersAssumption, RawKeysOK
<1> QED
  BY <1>1, <1>2, StepKeeps

(* In every reachable state, each multi-signature in circulation is proved for the
   statement its info makes, and each of its keys has signed. *)
THEOREM SignedInvariant == Spec => []SignedInv
<1>1. Init => SignedInv
  BY DEF Init, AggregationInit, SignedInv, SigsOK, BundlesOK, RawKeysOK
<1>2. SignedInv /\ [Next]_vars => SignedInv'
  <2> SUFFICES ASSUME SignedInv, [Next]_vars PROVE SignedInv'
    OBVIOUS
  <2>1. CASE UNCHANGED aggregationVars
    BY <2>1, StepKeeps DEF aggregationVars, SignedInv, RawKeysOK
  <2>2. CASE Gather
    BY <2>2, GatherKeeps
  <2>3. CASE AggregationNext
    BY <2>3, AggregationKeeps
  <2> QED
    BY <2>1, <2>2, <2>3 DEF Next, vars
<1> QED
  BY <1>1, <1>2, PTL DEF Spec

(* A type 1 attests that each of its keys signed its message at its slot, and so
   does each component of a bundle (TYPE1_TYPE2_LAYOUT.md): for any signers, topics and bounds. *)
THEOREM EverySignerSignedAlways == Spec => []EverySignerSigned
<1>1. SignedInv => EverySignerSigned
  BY SignedInvMeans
<1> QED
  BY <1>1, SignedInvariant, PTL

(* Whatever the calls return, or let into circulation, verify_type_1 and
   verify_type_2 accept. *)
THEOREM CirculatingAlwaysVerify == Spec => []CirculatingVerify
<1>1. SignedInv => CirculatingVerify
  BY SignedInvMeans
<1> QED
  BY <1>1, SignedInvariant, PTL

-----------------------------------------------------------------------------

(* The guest accepts what split_type_2 gives it of a bundle in circulation, and *)
(* the claim is all that changes in the component.                            *)
LEMMA SplitSucceeds ==
    ASSUME SignedInv, NEW bundle \in bundles, NEW index \in Nat, SplitType2(bundle, index)
    PROVE  SplitRecoversTheComponent'
<1> DEFINE component == bundle.infos[index + 1]
           inner == Type2InputData(bundle.infos, bundle.claim)
           claim == ReduceClaims(ClaimsOf(<<inner>>))
           info == SplitInfo(bundle, index)
           kept == Type1InputData(component)
           data == Type1InputData(info)
<1>1. BundleOK(bundle) /\ index < Len(bundle.infos)
  BY DEF SignedInv, BundlesOK, SplitType2
<1>2. Len(bundle.infos) \in 1..MaxRecursions /\ MaxRecursions \in Nat /\ bundle.proof = inner
  BY <1>1, AggregationAssumption DEF AggregationAssumption, BundleOK
<1>3. index + 1 \in 1..Len(bundle.infos) /\ InfoOK(component)
  BY <1>1, <1>2 DEF BundleOK
<1>4. info.keys = component.keys /\ info.topic = component.topic /\ info.claim = claim
  BY <1>3 DEF SplitInfo, InfoOK
<1>5. data = [kept EXCEPT !.claim = data.claim] /\ data.claim = claim
  <2> HIDE DEF claim, info, component
  <2>1. data = Type1Data(component.keys, component.topic, claim)
    BY <1>4 DEF Type1InputData
  <2>2. kept = Type1Data(component.keys, component.topic, component.claim)
    BY DEF Type1InputData
  <2> QED
    BY <2>1, <2>2 DEF Type1Data
<1>6. GuestSplit(data, inner, bundle.proof, kept, index)
  <2>1. /\ inner.flag = Type2Flag
        /\ inner.count = Len(bundle.infos)
        /\ inner.digests[index + 1] = kept
    BY <1>3 DEF Type2InputData
  <2> HIDE DEF data, kept, inner
  <2>2. data.claim = ReduceClaims(ClaimsOf(<<inner>>))
    BY <1>5
  <2> QED
    BY <1>1, <1>2, <1>5, <2>1, <2>2 DEF GuestSplit, Proves
<1>7. VerifyType2(bundle)
  BY <1>2 DEF VerifyType2, Proves
<1>8. /\ last'.op = "split" /\ last'.ok = TRUE
      /\ last'.component = component /\ last'.result = info
  BY <1>6, <1>7 DEF SplitType2
<1> QED
  BY <1>4, <1>8 DEF SplitRecoversTheComponent

(* Which call leaves which kind of result. *)
LEMMA Calls ==
    ASSUME AggregationNext
    PROVE  \/ last'.op \in {"none", "merge"}
           \/ \E bundle \in bundles : \E index \in 0..Len(bundle.infos) - 1 : SplitType2(bundle, index)
           \/ \E inputs \in Lists(sigs, MaxRecursions), list \in Lists(raws, 2), topic \in Topics :
                  AggregateType1(inputs, list, topic)
<1>0. NoCall.op = "none"
  BY DEF NoCall
<1>1. CASE Return
  BY <1>0, <1>1 DEF Return
<1>3. ASSUME NEW inputs, MergeManyType1(inputs) PROVE last'.op = "merge"
  BY <1>3 DEF MergeManyType1
<1>4. CASE \E b \in bundles, t \in Topics : SplitType2ByMsg(b, t.message)
  <2>1. PICK b \in bundles, t \in Topics : SplitType2ByMsg(b, t.message)
    BY <1>4
  <2>2. PICK k \in WithMessage(b, t.message) : SplitType2(b, k - 1)
    BY <2>1 DEF SplitType2ByMsg
  <2>3. k \in 1..Len(b.infos) /\ k - 1 < Len(b.infos)
    BY <2>2 DEF WithMessage, SplitType2
  <2>4. k - 1 \in 0..Len(b.infos) - 1
    BY <2>3
  <2> QED
    BY <2>2, <2>4
<1>5. ASSUME NEW topic, ProveWithAnyHints(topic) PROVE last' = NoCall
  <2>1. \E all, rawIndices, children, n, list, sub : Circulated(topic, all, rawIndices, children, n, list, sub)
    BY <1>5, ProvedWith
  <2>2. \A all, rawIndices, children, n, list, sub :
            Circulated(topic, all, rawIndices, children, n, list, sub) => last' = NoCall
    BY Zenon DEF Circulated
  <2> QED
    BY ONLY <2>1, <2>2
<1>6. ASSUME NEW infos, NEW proofs, MergeWithAnyHints(infos, proofs) PROVE last' = NoCall
  BY <1>6, Zenon DEF MergeWithAnyHints
<1>7. ASSUME NEW bundle, NEW keys, NEW topic, NEW index, SplitWithAnyHints(bundle, keys, topic, index)
      PROVE  last' = NoCall
  BY <1>7, Zenon DEF SplitWithAnyHints
<1>8. ASSUME NEW sig, NEW keys, NEW topic, ReceiveType1(sig, keys, topic) PROVE last' = NoCall
  BY <1>8, Zenon DEF ReceiveType1
<1>9. ASSUME NEW bundle, NEW infos, ReceiveType2(bundle, infos) PROVE last' = NoCall
  BY <1>9, Zenon DEF ReceiveType2
<1> QED
  BY <1>0, <1>1, <1>3, <1>4, <1>5, <1>6, <1>7, <1>8, <1>9 DEF AggregationNext, Call

(* "Recover an independent type-1 multi-signature for the component": a split   *)
(* of any bundle that circulates succeeds, whatever it was merged from.       *)
THEOREM SplitAlwaysRecovers == Spec => []SplitRecoversTheComponent
<1>1. Init => SplitRecoversTheComponent
  BY DEF Init, AggregationInit, NoCall, SplitRecoversTheComponent
<1>2. SignedInv /\ SplitRecoversTheComponent /\ [Next]_vars => SplitRecoversTheComponent'
  <2> SUFFICES ASSUME SignedInv, SplitRecoversTheComponent, [Next]_vars PROVE SplitRecoversTheComponent'
    OBVIOUS
  <2>1. CASE last' = last
    BY <2>1 DEF SplitRecoversTheComponent
  <2>2. CASE AggregationNext
    <3>1. CASE last'.op \in {"none", "merge"}
      BY <3>1 DEF SplitRecoversTheComponent
    <3>3. ASSUME NEW inputs, NEW list, NEW topic, AggregateType1(inputs, list, topic)
          PROVE  last'.op = "aggregate"
      BY <3>3 DEF AggregateType1
    <3>2. CASE \E bundle \in bundles : \E index \in 0..Len(bundle.infos) - 1 : SplitType2(bundle, index)
      <4>1. PICK bundle \in bundles : \E index \in 0..Len(bundle.infos) - 1 : SplitType2(bundle, index)
        BY <3>2
      <4>2. PICK index \in 0..Len(bundle.infos) - 1 : SplitType2(bundle, index)
        BY <4>1
      <4>3. index \in Nat
        OBVIOUS
      <4> QED
        BY <4>2, <4>3, SplitSucceeds
    <3> QED
      BY <2>2, <3>1, <3>2, <3>3, Calls DEF SplitRecoversTheComponent
  <2> QED
    BY <2>1, <2>2 DEF Next, Gather, vars, aggregationVars
<1> QED
  BY <1>1, <1>2, SignedInvariant, PTL DEF Spec

-----------------------------------------------------------------------------

(* Every key of a set is among its sorted keys. *)
LEMMA SortedKeysCover ==
    ASSUME NEW S \in SUBSET Signers
    PROVE  ToSet(SortedKeys(S)) = S
<1> DEFINE s == SortedKeys(S)
           n == Cardinality(S)
           f == [j \in 1..n |-> s[j]]
<1>1. S \in SUBSET Nat /\ IsFiniteSet(S) /\ n \in Nat
  BY AggregationAssumption, FS_Subset, FS_CardinalityType, Zenon DEF AggregationAssumption
<1>2. s \in Seq(S) /\ Len(s) = n
  BY SortedKeysIs
<1>3. ASSUME NEW j \in 1..n PROVE s[j] \in S /\ Cardinality(Below(S, s[j])) = j - 1
  <2>1. s[j] = CHOOSE k \in S : Cardinality(Below(S, k)) = j - 1
    BY DEF SortedKeys, Below
  <2>2. \E k \in S : Cardinality(Below(S, k)) = j - 1
    BY <1>1, RankTaken
  <2> QED
    BY <2>1, <2>2
<1> HIDE DEF s, n
<1>4. \A i, j \in 1..n : s[i] = s[j] => i = j
  BY <1>1, <1>3
<1>5. f \in Injection(1..n, S)
  BY <1>3, <1>4 DEF Injection, IsInjective
<1>6. IsFiniteSet(1..n) /\ Cardinality(1..n) = n
  BY <1>1, FS_Interval
<1>7. f \in Surjection(1..n, S)
  BY <1>1, <1>5, <1>6, FS_Injection DEF n
<1>8. ASSUME NEW k \in S PROVE k \in ToSet(s)
  <2>1. PICK j \in 1..n : f[j] = k
    BY <1>7 DEF Surjection
  <2>2. j \in DOMAIN s /\ s[j] = k
    BY <1>2, <2>1
  <2> QED
    BY <2>2 DEF ToSet
<1>9. ASSUME NEW k \in ToSet(s) PROVE k \in S
  BY <1>2 DEF ToSet
<1>10. ToSet(s) = S
  BY <1>8, <1>9
<1> QED
  BY <1>10 DEF s

(* The keys of a list of raw signatures are those of the ones that are kept. *)
LEMMA DedupedRawsKeys ==
    ASSUME NEW n \in Nat, NEW list \in [1..n -> raws], \A raw \in raws : raw.key \in Signers
    PROVE  {DedupedRaws(list)[j].key : j \in 1..Len(DedupedRaws(list))} = {list[k].key : k \in 1..Len(list)}
<1> DEFINE S == {list[k].key : k \in 1..Len(list)}
           keys == SortedKeys(S)
           raw == DedupedRaws(list)
<1>1. Len(list) = n
  OBVIOUS
<1>2. S \in SUBSET Signers
  BY <1>1
<1>3. keys \in Seq(S) /\ Len(keys) \in Nat /\ ToSet(keys) = S
  BY <1>2, SortedKeysIs, SortedKeysCover
<1>4. raw = [j \in 1..Len(keys) |-> FirstRaw(list, keys[j])]
  BY DEF DedupedRaws
<1>5. Len(raw) = Len(keys)
  BY <1>3, <1>4
<1>6. ASSUME NEW j \in 1..Len(keys) PROVE raw[j].key = keys[j]
  <2> DEFINE At == {i \in 1..n : list[i].key = keys[j]}
  <2>1. PICK k \in 1..n : list[k].key = keys[j]
    <3> HIDE DEF keys
    <3>1. keys[j] \in S
      BY <1>3
    <3> QED
      BY <3>1, <1>1
  <2>2. At # {} /\ At \in SUBSET Nat
    <3>1. k \in At
      BY <2>1
    <3>2. \A i \in 1..n : i \in Nat
      OBVIOUS
    <3>3. At \in SUBSET Nat
      BY <3>2, Zenon
    <3> QED
      BY <3>1, <3>3
  <2>3. PICK i \in At : \A e \in At : i <= e
    BY <2>2, Least
  <2>4. i \in 1..Len(list) /\ list[i].key = keys[j]
    BY <1>1
  <2>5. \A e \in 1..i - 1 : list[e].key # keys[j]
    BY <2>3
  <2>6. list[CHOOSE q \in 1..Len(list) : list[q].key = keys[j] /\ \A e \in 1..q - 1 : list[e].key # keys[j]].key
          = keys[j]
    BY <2>4, <2>5
  <2>7. raw[j] = FirstRaw(list, keys[j])
    <3> HIDE DEF keys
    <3> QED
      BY <1>4
  <2> QED
    BY <2>6, <2>7 DEF FirstRaw
<1> HIDE DEF keys, raw, S
<1>7. ASSUME NEW k \in S PROVE k \in {raw[j].key : j \in 1..Len(raw)}
  <2>1. PICK j \in DOMAIN keys : keys[j] = k
    BY <1>3 DEF ToSet
  <2>2. j \in 1..Len(keys)
    BY <1>3, <2>1
  <2> QED
    BY <1>5, <1>6, <2>1, <2>2
<1>8. ASSUME NEW j \in 1..Len(raw) PROVE raw[j].key \in S
  BY <1>3, <1>5, <1>6
<1>9. {raw[j].key : j \in 1..Len(raw)} = S
  BY <1>7, <1>8
<1> QED
  BY <1>9 DEF raw, S

(* Rust asks the guest for the sorted union of the signers of all inputs. *)
LEMMA AggregateCovers ==
    ASSUME SignedInv, NEW inputs \in Lists(sigs, MaxRecursions), NEW list \in Lists(raws, 2),
           NEW topic, AggregateType1(inputs, list, topic)
    PROVE  Covers'
<1> DEFINE raw == DedupedRaws(list)
           children == [r \in 1..Len(inputs) |-> inputs[r].info.keys]
           union == {raw[j].key : j \in 1..Len(raw)} \cup UNION {ToSet(children[r]) : r \in 1..Len(children)}
           all == {list[k].key : k \in 1..Len(list)}
                      \cup UNION {ToSet(inputs[r].info.keys) : r \in 1..Len(inputs)}
<1>1. /\ Len(inputs) \in Nat
      /\ \A r \in 1..Len(inputs) : SigOK(inputs[r])
  BY ListOf, AggregationAssumption DEF AggregationAssumption, SignedInv, SigsOK
<1>2. Len(list) \in Nat /\ list \in [1..Len(list) -> raws]
  BY ListOf
<1>3. {raw[j].key : j \in 1..Len(raw)} = {list[k].key : k \in 1..Len(list)}
  BY <1>2, DedupedRawsKeys DEF SignedInv, RawKeysOK
<1>4. Len(children) = Len(inputs) /\ \A r \in 1..Len(inputs) : children[r] = inputs[r].info.keys
  BY <1>1
<1>5. union = all
  <2> HIDE DEF raw, children
  <2>1. ASSUME NEW x \in UNION {ToSet(children[r]) : r \in 1..Len(children)}
        PROVE  x \in UNION {ToSet(inputs[r].info.keys) : r \in 1..Len(inputs)}
    <3>1. PICK r \in 1..Len(children) : x \in ToSet(children[r])
      BY <2>1
    <3>2. r \in 1..Len(inputs) /\ children[r] = inputs[r].info.keys
      BY <1>4, <3>1
    <3> QED
      BY <3>1, <3>2
  <2>2. ASSUME NEW x \in UNION {ToSet(inputs[r].info.keys) : r \in 1..Len(inputs)}
        PROVE  x \in UNION {ToSet(children[r]) : r \in 1..Len(children)}
    <3>1. PICK r \in 1..Len(inputs) : x \in ToSet(inputs[r].info.keys)
      BY <2>2
    <3>2. r \in 1..Len(children) /\ children[r] = inputs[r].info.keys
      BY <1>4, <3>1
    <3> QED
      BY <3>1, <3>2
  <2>3. UNION {ToSet(children[r]) : r \in 1..Len(children)} = UNION {ToSet(inputs[r].info.keys) : r \in 1..Len(inputs)}
    BY <2>1, <2>2
  <2> QED
    BY <1>3, <2>3
<1>6. all \in SUBSET Signers
  <2>1. ASSUME NEW r \in 1..Len(inputs) PROVE ToSet(inputs[r].info.keys) \subseteq Signers
    <3>1. inputs[r].info.keys \in Seq(Signers)
      BY <1>1 DEF SigOK, InfoOK
    <3>2. ASSUME NEW s \in Seq(Signers) PROVE ToSet(s) \subseteq Signers
      BY DEF ToSet
    <3> QED
      BY <3>1, <3>2
  <2>2. \A k \in 1..Len(list) : list[k].key \in Signers
    BY <1>2 DEF SignedInv, RawKeysOK
  <2> QED
    BY <2>1, <2>2
<1>7. last'.keys = SortedKeys(union) /\ last'.list = list /\ last'.inputs = inputs
  <2>1. AggregationOf(inputs, list, topic).data.keys = SortedKeys(union)
    BY DEF AggregationOf, GlobalKeys, Type1Data
  <2> QED
    BY <2>1 DEF AggregateType1
<1>8. InputKeys' = all
  BY <1>7 DEF InputKeys
<1>9. ToSet(SortedKeys(all)) = all /\ Len(SortedKeys(all)) = Cardinality(all)
  BY <1>6, SortedKeysIs, SortedKeysCover
<1> QED
  BY <1>5, <1>7, <1>8, <1>9 DEF Covers

(* An accepted aggregation covers exactly the signers of its inputs, each once. *)
THEOREM AggregationAlwaysCovers == Spec => []Covers
<1>1. Init => Covers
  BY DEF Init, AggregationInit, NoCall, Covers
<1>2. SignedInv /\ Covers /\ [Next]_vars => Covers'
  <2> SUFFICES ASSUME SignedInv, Covers, [Next]_vars PROVE Covers'
    OBVIOUS
  <2>1. CASE last' = last
    BY <2>1 DEF Covers, InputKeys
  <2>2. CASE AggregationNext
    <3>1. CASE \E inputs \in Lists(sigs, MaxRecursions), list \in Lists(raws, 2), topic \in Topics :
                 AggregateType1(inputs, list, topic)
      BY <3>1, AggregateCovers
    <3>2. CASE last'.op \in {"none", "merge"}
      BY <3>2 DEF Covers
    <3>3. ASSUME NEW bundle, NEW index, SplitType2(bundle, index) PROVE last'.op = "split"
      BY <3>3 DEF SplitType2
    <3> QED
      BY <2>2, <3>1, <3>2, <3>3, Calls DEF Covers
  <2> QED
    BY <2>1, <2>2 DEF Next, Gather, vars, aggregationVars
<1> QED
  BY <1>1, <1>2, SignedInvariant, PTL DEF Spec
=============================================================================
