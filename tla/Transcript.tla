----------------------------- MODULE Transcript -----------------------------
(***************************************************************************)
(* A proof from the prover's sponge to the verifier's and on to the        *)
(* program that verifies it inside the zkVM (crates/backend/fiat-shamir;   *)
(* crates/rec_aggregation/zkdsl_implem/fiat_shamir.py, "the guest").  The  *)
(* prover runs any sequence of the operations of FSProver; the verifier    *)
(* runs the counterparts on the proof, in which some coefficients, the     *)
(* padding and some digests are not sent, and writes down the raw          *)
(* transcript; the guest replays that.  The schedule of operations is      *)
(* public: both programs are written against the same protocol.            *)
(***************************************************************************)
EXTENDS Naturals, Sequences, SequencesExt, FiniteSets, FiniteSetsExt

CONSTANTS
    Rate,              \* RATE
    Dim,               \* EF::DIMENSION
    F,                 \* the base field's elements, 0 among them
    EAdd(_, _), ESub(_, _), EMul(_, _), EHalf(_), EOne,  \* the extension field
    FirstWord(_),      \* the number in the first cell of a rate
    Messages,          \* what add_base_scalars may be given
    PublicInputs,      \* what observe_scalars may be given
    SampleSizes,       \* base field elements per call of sample_vec, sample_in_range
    Polynomials,       \* of add_sumcheck_polynomial without an eq factor
    BarePolynomials,   \* of add_sumcheck_polynomial with one, and its alpha
    Batches,           \* paths hinted together
    GrindingBits,
    MerkleHeight, MaxHeight, MaxTrailingZeros,
    MaxOps             \* bound on the length of the schedule

ASSUME ChallengerAssumption == {Rate, Dim} \subseteq Nat \ {0} /\ Dim <= Rate

ASSUME TranscriptAssumption ==
    /\ 0 \in F
    /\ Messages \cup PublicInputs \subseteq Seq(F)
    /\ \A s \in Messages : s # <<>>
    /\ \A s \in PublicInputs : Len(s) >= Rate
    /\ SampleSizes \cup GrindingBits \cup {MaxOps} \subseteq Nat

(* The extension field, and the laws of it that the protocol rests on. *)
EF == [1..Dim -> F]
EZero == [i \in 1..Dim |-> 0]

ASSUME FieldAssumption ==
    /\ EOne \in EF
    /\ \A a, b \in EF :
          /\ {EAdd(a, b), ESub(a, b), EMul(a, b), EHalf(a)} \subseteq EF
          /\ EAdd(a, b) = EAdd(b, a) /\ EMul(a, b) = EMul(b, a)
          /\ ESub(EAdd(a, b), b) = a /\ EAdd(ESub(a, b), b) = a
          /\ EAdd(EZero, a) = a /\ EMul(EOne, a) = a /\ EHalf(EAdd(a, a)) = a
    /\ \A a, b, c \in EF :
          /\ EAdd(EAdd(a, b), c) = EAdd(a, EAdd(b, c))
          /\ EMul(a, EAdd(b, c)) = EAdd(EMul(a, b), EMul(a, c))

ASSUME PolynomialsAssumption ==
    /\ \A coeffs \in Polynomials : coeffs \in Seq(EF) /\ coeffs # <<>>
    /\ \A b \in BarePolynomials : b.bare \in Seq(EF) /\ b.bare # <<>> /\ b.alpha \in EF

Merkle == INSTANCE MerklePaths WITH Height <- MerkleHeight

Opening(path) == [leaf |-> path.leaf, siblings |-> path.siblings]

(* The openings of a batch of pruned paths, as the verifier restores them. *)
OpeningsOf(batch) ==
    LET restored == Merkle!Restore(batch).paths
    IN  [k \in 1..Len(restored) |-> Opening(restored[k])]

(* What RestoreIsTheInverseOfPrune proves of openings of a tree, within the limits. *)
ASSUME BatchesAssumption ==
    \A paths \in Batches :
        /\ paths \in Seq(ToSet(paths)) /\ paths # <<>>
        /\ Merkle!Restore(Merkle!Prune(paths)).ok
        /\ OpeningsOf(Merkle!Prune(paths)) = [k \in 1..Len(paths) |-> Opening(paths[k])]

-----------------------------------------------------------------------------
(* The sponge both sides of a proof run (crates/backend/fiat-shamir/src/      *)
(* challenger.rs).  The permutation is free, so the state is the sequence of  *)
(* the blocks absorbed, and the rate read from it is that sequence.           *)
NewSponge == [blocks |-> <<>>, fresh |-> FALSE]

Observe(s, block) == [blocks |-> Append(s.blocks, block), fresh |-> TRUE]

ChunkCount(n) == (n + Rate - 1) \div Rate

(* A multiple of the rate, completed with zeros. *)
PaddedCells(scalars) ==
    [i \in 1..ChunkCount(Len(scalars)) * Rate |-> IF i <= Len(scalars) THEN scalars[i] ELSE 0]

(* chunks(RATE), the last one completed with zeros. *)
PaddedChunks(scalars) ==
    [k \in 1..ChunkCount(Len(scalars)) |->
        [i \in 1..Rate |->
            LET j == (k - 1) * Rate + i IN IF j <= Len(scalars) THEN scalars[j] ELSE 0]]

ObserveMany(s, scalars) ==
    IF scalars = <<>> THEN s
    ELSE [blocks |-> s.blocks \o PaddedChunks(scalars), fresh |-> TRUE]

ZeroBlock == [i \in 1..Rate |-> 0]

Duplex(s) == Observe(s, ZeroBlock)

(* sample_many(n): the rates it returns, one duplex apart, ... *)
SampledRates(s, n) ==
    [k \in 1..n |-> s.blocks \o [j \in 1..k - 1 |-> ZeroBlock]]

(* ... and the sponge it leaves, whose rate is stale. *)
AfterSampling(s, n) ==
    IF n = 0 THEN s
    ELSE [blocks |-> s.blocks \o [j \in 1..n - 1 |-> ZeroBlock], fresh |-> FALSE]

(* A mutant of MaySample: the stale rate is served again. *)
MaySampleAgain(s, n) == TRUE

(* sample asserts that its rate has not been read yet. *)
MaySample(s, n) == n > 0 => s.fresh

-----------------------------------------------------------------------------
VARIABLES
    phase,       \* "proving", "verifying", "replaying"
    schedule,    \* the operations, with what both sides know of them
    sponge,      \* the prover's challenger
    said,        \* what the prover has sent, hinted and sampled
    transcript,  \* Proof.transcript
    merklePaths, \* Proof.merkle_paths
    intact,      \* nothing of the proof is missing
    verifier,    \* the VerifierState
    guest,       \* the guest's fs, and its cursor into the openings
    heard        \* what the verifier and the guest have recovered

proverVars == <<schedule, sponge, said, transcript, merklePaths>>
vars == <<phase, proverVars, intact, verifier, guest, heard>>

-----------------------------------------------------------------------------
(* The data *)

(* flatten_scalars_to_base *)
Flatten(coeffs) ==
    [i \in 1..Len(coeffs) * Dim |-> coeffs[(i - 1) \div Dim + 1][((i - 1) % Dim) + 1]]

(* pack_scalars_to_extension *)
Pack(scalars) ==
    [k \in 1..Len(scalars) \div Dim |-> SubSeq(scalars, (k - 1) * Dim + 1, k * Dim)]

ESum(coeffs) ==
    LET sum[k \in 0..Len(coeffs)] == IF k = 0 THEN EZero ELSE EAdd(sum[k - 1], coeffs[k])
    IN  sum[Len(coeffs)]

(* expand_bare_to_full: times (1 - alpha) + (2 alpha - 1) X. *)
ExpandBareToFull(bare, alpha) ==
    LET c0 == ESub(EOne, alpha)
        c1 == ESub(EAdd(alpha, alpha), EOne)
        n == Len(bare)
    IN  [k \in 1..n + 1 |->
            EAdd(IF k <= n THEN EMul(c0, bare[k]) ELSE EZero,
                 IF k > 1 THEN EMul(c1, bare[k - 1]) ELSE EZero)]

(* The claim a round polynomial answers: its values at 0 and at 1. *)
ClaimedSum(full) == EAdd(full[1], ESum(full))

GrindingPasses(s, bits) == FirstWord(s.blocks) % 2^bits = 0

(* A mutant of Sent: the other end is left out. *)
SentFromTheStart(coeffs) == Flatten(Front(coeffs))

(* add_sumcheck_polynomial leaves out the coefficient the verifier recovers. *)
Sent(coeffs) == Flatten(Tail(coeffs))

-----------------------------------------------------------------------------
(* The prover *)

NoReader == [step |-> 1, status |-> "ok"]

Init ==
    /\ phase = "proving"
    /\ schedule = <<>>
    /\ sponge = NewSponge
    /\ said = <<>>
    /\ transcript = <<>>
    /\ merklePaths = <<>>
    /\ intact = TRUE
    /\ verifier = NoReader
    /\ guest = NoReader
    /\ heard = [r \in {"verifier", "guest"} |-> <<>>]

(* One operation of the prover: what both sides know of it, what it says, and  *)
(* what it adds to the transcript.                                             *)
Performs(op, thing, newSponge, scalars) ==
    /\ phase = "proving"
    /\ Len(schedule) < MaxOps
    /\ schedule' = Append(schedule, op)
    /\ said' = Append(said, thing)
    /\ sponge' = newSponge
    /\ transcript' = transcript \o scalars
    /\ UNCHANGED <<phase, intact, verifier, guest, heard>>

AddBaseScalars(s) ==
    /\ Performs([kind |-> "scalars", n |-> Len(s)], s, ObserveMany(sponge, s), s)
    /\ UNCHANGED merklePaths

ObserveScalars(s) ==
    /\ Performs([kind |-> "observe", data |-> s], <<>>, ObserveMany(sponge, s), <<>>)
    /\ UNCHANGED merklePaths

DuplexSponge ==
    /\ Performs([kind |-> "duplex"], <<>>, Duplex(sponge), <<>>)
    /\ UNCHANGED merklePaths

(* sample_vec, sample_in_range: n base field elements. *)
SampleScalars(n) ==
    LET chunks == ChunkCount(n)
    IN  /\ MaySample(sponge, chunks)
        /\ Performs([kind |-> "sample", n |-> n], SampledRates(sponge, chunks),
                    AfterSampling(sponge, chunks), <<>>)
        /\ UNCHANGED merklePaths

AddSumcheckPolynomial(coeffs) ==
    /\ Performs([kind |-> "sumcheck", n |-> Len(coeffs), claim |-> ClaimedSum(coeffs)],
                coeffs, ObserveMany(sponge, Flatten(coeffs)), Sent(coeffs))
    /\ UNCHANGED merklePaths

AddBarePolynomial(bare, alpha) ==
    LET full == ExpandBareToFull(bare, alpha)
    IN  /\ Performs([kind |-> "eqSumcheck", n |-> Len(full), claim |-> ClaimedSum(full), alpha |-> alpha],
                    full, ObserveMany(sponge, Flatten(full)), Sent(bare))
        /\ UNCHANGED merklePaths

HintMerklePaths(paths) ==
    /\ Performs([kind |-> "openings", n |-> Len(paths)],
                [k \in 1..Len(paths) |-> Opening(paths[k])], sponge, <<>>)
    /\ merklePaths' = Append(merklePaths, Merkle!Prune(paths))

(* Nothing happens when no work is asked for; otherwise any witness will do.   *)
PowGrinding(bits) ==
    /\ IF bits = 0 THEN Performs([kind |-> "grinding", bits |-> 0], <<>>, sponge, <<>>)
       ELSE \E witness \in F :
                /\ GrindingPasses(ObserveMany(sponge, <<witness>>), bits)
                /\ Performs([kind |-> "grinding", bits |-> bits], <<witness>>,
                            ObserveMany(sponge, <<witness>>), <<witness>>)
    /\ UNCHANGED merklePaths

ProverStep ==
    \/ \E s \in Messages : AddBaseScalars(s)
    \/ \E s \in PublicInputs : ObserveScalars(s)
    \/ DuplexSponge
    \/ \E n \in SampleSizes : SampleScalars(n)
    \/ \E coeffs \in Polynomials : AddSumcheckPolynomial(coeffs)
    \/ \E b \in BarePolynomials : AddBarePolynomial(b.bare, b.alpha)
    \/ \E paths \in Batches : HintMerklePaths(paths)
    \/ \E bits \in GrindingBits : PowGrinding(bits)

-----------------------------------------------------------------------------
(* The verifier *)

AllOpenings(batches) == FlattenSeq([k \in 1..Len(batches) |-> OpeningsOf(batches[k])])

(* VerifierState::new, on the proof as it arrives: all of it, or without the   *)
(* end of its transcript or its last batch of paths.                           *)
NewVerifier(scalars, batches) ==
    /\ phase = "proving"
    /\ \A k \in 1..Len(batches) : Merkle!Restore(batches[k]).ok
    /\ phase' = "verifying"
    /\ intact' = (scalars = transcript /\ batches = merklePaths)
    /\ verifier' = [step |-> 1, status |-> "ok", sponge |-> NewSponge,
                    transcript |-> scalars, offset |-> 0,
                    openings |-> AllOpenings(batches), openingIndex |-> 0, raw |-> <<>>]
    /\ UNCHANGED <<proverVars, guest, heard>>

ReceiveProof ==
    \/ NewVerifier(transcript, merklePaths)
    \/ /\ transcript # <<>>
       /\ \E n \in 0..Len(transcript) - 1 : NewVerifier(SubSeq(transcript, 1, n), merklePaths)
    \/ /\ merklePaths # <<>>
       /\ NewVerifier(transcript, Front(merklePaths))

VerifierRuns(kind) ==
    /\ phase = "verifying"
    /\ verifier.status = "ok"
    /\ verifier.step <= Len(schedule)
    /\ schedule[verifier.step].kind = kind
    /\ UNCHANGED <<phase, proverVars, intact, guest>>

(* An Err leaves the verifier: nothing more is heard. *)
Refuses(error) ==
    /\ verifier' = [verifier EXCEPT !.status = error]
    /\ UNCHANGED heard

VerifierHears(thing) == heard' = [heard EXCEPT !["verifier"] = Append(@, thing)]

HasScalars(n) == verifier.offset + n <= Len(verifier.transcript)

Read(n) == SubSeq(verifier.transcript, verifier.offset + 1, verifier.offset + n)

(* absorb_and_record, for n scalars that have been read. *)
Absorbs(scalars, n) ==
    verifier' = [verifier EXCEPT
        !.step = @ + 1,
        !.offset = @ + n,
        !.sponge = ObserveMany(@, scalars),
        !.raw = @ \o PaddedCells(scalars)]

NextBaseScalars ==
    /\ VerifierRuns("scalars")
    /\ LET n == schedule[verifier.step].n
       IN  IF ~HasScalars(n) THEN Refuses("exceeded")
           ELSE Absorbs(Read(n), n) /\ VerifierHears(Read(n))

VerifierObserves ==
    /\ VerifierRuns("observe")
    /\ verifier' = [verifier EXCEPT !.step = @ + 1,
                                    !.sponge = ObserveMany(@, schedule[verifier.step].data)]
    /\ VerifierHears(<<>>)

VerifierDuplexes ==
    /\ VerifierRuns("duplex")
    /\ verifier' = [verifier EXCEPT !.step = @ + 1, !.sponge = Duplex(@)]
    /\ VerifierHears(<<>>)

VerifierSamples ==
    /\ VerifierRuns("sample")
    /\ LET chunks == ChunkCount(schedule[verifier.step].n)
       IN  IF ~MaySample(verifier.sponge, chunks) THEN Refuses("panicked")
           ELSE /\ verifier' = [verifier EXCEPT !.step = @ + 1, !.sponge = AfterSampling(@, chunks)]
                /\ VerifierHears(SampledRates(verifier.sponge, chunks))

(* h(0) + h(1) = claim gives the coefficient that was not sent. *)
NextSumcheckPolynomial ==
    /\ VerifierRuns("sumcheck")
    /\ LET op == schedule[verifier.step]
           n == (op.n - 1) * Dim
           rest == Pack(Read(n))
           full == <<EHalf(ESub(op.claim, ESum(rest)))>> \o rest
       IN  IF ~HasScalars(n) THEN Refuses("exceeded")
           ELSE Absorbs(Flatten(full), n) /\ VerifierHears(full)

(* (1 - alpha) h(0) + alpha h(1) = claim. *)
NextEqSumcheckPolynomial ==
    /\ VerifierRuns("eqSumcheck")
    /\ LET op == schedule[verifier.step]
           n == (op.n - 2) * Dim
           rest == Pack(Read(n))
           h0 == ESub(op.claim, EMul(op.alpha, ESum(rest)))
           full == ExpandBareToFull(<<h0>> \o rest, op.alpha)
       IN  IF ~HasScalars(n) THEN Refuses("exceeded")
           ELSE Absorbs(Flatten(full), n) /\ VerifierHears(full)

(* next_merkle_opening, once for each query. *)
NextMerkleOpenings ==
    /\ VerifierRuns("openings")
    /\ LET n == schedule[verifier.step].n
           first == verifier.openingIndex
       IN  IF first + n > Len(verifier.openings) THEN Refuses("exceeded")
           ELSE /\ verifier' = [verifier EXCEPT !.step = @ + 1, !.openingIndex = @ + n]
                /\ VerifierHears(SubSeq(verifier.openings, first + 1, first + n))

(* A mutant of CheckPowGrinding: the rate is looked at before the witness is   *)
(* absorbed.                                                                   *)
CheckPowGrindingEarly ==
    /\ VerifierRuns("grinding")
    /\ LET bits == schedule[verifier.step].bits
       IN  IF bits = 0 THEN verifier' = [verifier EXCEPT !.step = @ + 1] /\ VerifierHears(<<>>)
           ELSE IF ~HasScalars(1) THEN Refuses("exceeded")
           ELSE IF ~GrindingPasses(verifier.sponge, bits) THEN Refuses("invalidGrindingWitness")
           ELSE Absorbs(Read(1), 1) /\ VerifierHears(Read(1))

CheckPowGrinding ==
    /\ VerifierRuns("grinding")
    /\ LET bits == schedule[verifier.step].bits
       IN  IF bits = 0 THEN verifier' = [verifier EXCEPT !.step = @ + 1] /\ VerifierHears(<<>>)
           ELSE IF ~HasScalars(1) THEN Refuses("exceeded")
           ELSE IF ~GrindingPasses(ObserveMany(verifier.sponge, Read(1)), bits)
                THEN Refuses("invalidGrindingWitness")
           ELSE Absorbs(Read(1), 1) /\ VerifierHears(Read(1))

VerifierStep ==
    \/ NextBaseScalars \/ VerifierObserves \/ VerifierDuplexes \/ VerifierSamples
    \/ NextSumcheckPolynomial \/ NextEqSumcheckPolynomial
    \/ NextMerkleOpenings \/ CheckPowGrinding

VerifierDone == verifier.status = "ok" /\ verifier.step > Len(schedule)

-----------------------------------------------------------------------------
(* The guest: blocks is fs[0..16], ptr is fs[16] in the raw transcript. *)

(* into_raw_proof, and fs_new in the guest. *)
IntoRawProof ==
    /\ phase = "verifying"
    /\ VerifierDone
    /\ phase' = "replaying"
    /\ guest' = [step |-> 1, status |-> "ok", blocks |-> <<>>, ptr |-> 0, openingIndex |-> 0]
    /\ UNCHANGED <<proverVars, intact, verifier, heard>>

GuestRuns(kind) ==
    /\ phase = "replaying"
    /\ guest.status = "ok"
    /\ guest.step <= Len(schedule)
    /\ schedule[guest.step].kind = kind
    /\ UNCHANGED <<phase, proverVars, intact, verifier>>

GuestHears(thing) == heard' = [heard EXCEPT !["guest"] = Append(@, thing)]

GuestFails ==
    /\ guest' = [guest EXCEPT !.status = "failed"]
    /\ UNCHANGED heard

GuestAbsorbs(blocks) == guest' = [guest EXCEPT !.step = @ + 1, !.blocks = @ \o blocks]

RawCells(n) == SubSeq(verifier.raw, guest.ptr + 1, guest.ptr + n)

(* A mutant of Receives: the padding is not skipped. *)
ReceivesPacked(n, paddingIsChecked, thing) ==
    LET cells == ChunkCount(n) * Rate
    IN  IF guest.ptr + cells > Len(verifier.raw) THEN GuestFails
        ELSE /\ guest' = [guest EXCEPT !.step = @ + 1, !.ptr = @ + n,
                                       !.blocks = @ \o PaddedChunks(RawCells(cells))]
             /\ GuestHears(thing)

(* fs_receive_chunks, with the assertion of fs_receive_ef that what follows    *)
(* the n cells is zero; a read past the end of the hinted transcript fails.    *)
Receives(n, paddingIsChecked, thing) ==
    LET cells == ChunkCount(n) * Rate
        overruns == guest.ptr + cells > Len(verifier.raw)
        padded == \A k \in n + 1..cells : RawCells(cells)[k] = 0
    IN  IF overruns \/ (paddingIsChecked /\ ~padded) THEN GuestFails
        ELSE /\ guest' = [guest EXCEPT !.step = @ + 1, !.ptr = @ + cells,
                                       !.blocks = @ \o PaddedChunks(RawCells(cells))]
             /\ GuestHears(thing)

GuestReceivesScalars ==
    /\ GuestRuns("scalars")
    /\ LET n == schedule[guest.step].n IN Receives(n, FALSE, RawCells(n))

GuestReceivesPolynomial ==
    /\ \E kind \in {"sumcheck", "eqSumcheck"} : GuestRuns(kind)
    /\ LET n == schedule[guest.step].n * Dim IN Receives(n, TRUE, Pack(RawCells(n)))

GuestObserves ==
    /\ GuestRuns("observe")
    /\ GuestAbsorbs(PaddedChunks(schedule[guest.step].data))
    /\ GuestHears(<<>>)

GuestDuplexes ==
    /\ GuestRuns("duplex")
    /\ GuestAbsorbs(<<ZeroBlock>>)
    /\ GuestHears(<<>>)

(* fs_sample_chunks: nothing tells it whether its rate is fresh. *)
GuestSamples ==
    /\ GuestRuns("sample")
    /\ LET chunks == ChunkCount(schedule[guest.step].n)
           s == [blocks |-> guest.blocks, fresh |-> TRUE]
       IN  /\ GuestAbsorbs([k \in 1..chunks - 1 |-> ZeroBlock])
           /\ GuestHears(SampledRates(s, chunks))

GuestOpens ==
    /\ GuestRuns("openings")
    /\ LET n == schedule[guest.step].n
       IN  /\ guest' = [guest EXCEPT !.step = @ + 1, !.openingIndex = @ + n]
           /\ GuestHears(SubSeq(verifier.openings, guest.openingIndex + 1, guest.openingIndex + n))

(* fs_grinding: one whole chunk, of which the first cell is the witness. *)
GuestGrinds ==
    /\ GuestRuns("grinding")
    /\ LET bits == schedule[guest.step].bits
           s == [blocks |-> guest.blocks \o PaddedChunks(RawCells(Rate))]
       IN  IF bits = 0 THEN GuestAbsorbs(<<>>) /\ GuestHears(<<>>)
           ELSE IF guest.ptr + Rate > Len(verifier.raw) \/ ~GrindingPasses(s, bits) THEN GuestFails
           ELSE /\ guest' = [guest EXCEPT !.step = @ + 1, !.ptr = @ + Rate, !.blocks = s.blocks]
                /\ GuestHears(RawCells(1))

GuestStep ==
    \/ GuestReceivesScalars \/ GuestReceivesPolynomial \/ GuestObserves \/ GuestDuplexes
    \/ GuestSamples \/ GuestOpens \/ GuestGrinds

GuestDone == guest.status = "ok" /\ guest.step > Len(schedule)

-----------------------------------------------------------------------------

Next == ProverStep \/ ReceiveProof \/ VerifierStep \/ IntoRawProof \/ GuestStep

Spec == Init /\ [][Next]_vars

-----------------------------------------------------------------------------
(* Properties *)

(* The verifier and the guest hear what the prover said and sample what it     *)
(* sampled: with the coefficients left out, the padding, the pruned paths and  *)
(* the raw transcript in between, this is one interaction.                     *)
OneInteraction == INSTANCE Interaction WITH Readers <- {"verifier", "guest"}
OneInteractionSpec == OneInteraction!Spec

(* A whole proof is refused by nobody.  One that lost its end is refused, at   *)
(* the operation that would read past what is left, with an error and never    *)
(* with a panic; a verifier that gets to the end has the sponge of the prover  *)
(* and has read all of the transcript and all of the openings.                 *)
OnlyWholeProofsAreAccepted ==
    phase # "proving" =>
        /\ intact => verifier.status = "ok"
        /\ verifier.status \in {"ok", "exceeded"}
        /\ VerifierDone => /\ intact
                           /\ verifier.sponge = sponge
                           /\ verifier.offset = Len(transcript)
                           /\ verifier.openingIndex = Len(verifier.openings)

(* The guest fails at nothing the verifier recorded, and gets to the end of    *)
(* the raw transcript in the verifier's state.                                 *)
GuestReplaysTheVerifier ==
    phase = "replaying" => guest.status = "ok" /\ (GuestDone =>
        /\ guest.blocks = verifier.sponge.blocks
        /\ guest.ptr = Len(verifier.raw)
        /\ guest.openingIndex = verifier.openingIndex)

(* "Refreshes the rate so a subsequent sample doesn't repeat the previous      *)
(* one": the guest, whose sponge does not know whether its rate was read,      *)
(* never samples the same rate twice.                                          *)
GuestNeverRepeatsARate ==
    LET samples == {k \in 1..Len(heard["guest"]) : schedule[k].kind = "sample"}
        rates(k) == ToSet(heard["guest"][k])
    IN  \A j, k \in samples : j # k => rates(j) \cap rates(k) = {}

=============================================================================
