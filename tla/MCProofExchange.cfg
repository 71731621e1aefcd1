CONSTANTS
    F <- Z3
    EAdd <- Plus
    ESub <- Minus
    EMul <- Times
    EHalf <- Half
    EOne <- One
    FirstWord <- WordOf
    Rate = 3
    Dim = 2
    Messages <- MCMessages
    PublicInputs <- MCPublicInputs
    SampleSizes = {0, 1, 4}
    Polynomials <- MCPolynomials
    BarePolynomials <- MCBarePolynomials
    Batches <- MCBatches
    GrindingBits = {0, 1}
    MerkleHeight = 1
    MaxHeight = 32
    MaxTrailingZeros = 1024
    MaxOps = 3
    Cycles = {1, 255, 256, 65535, 65536, 16777215, 16777216}
    PrecompileRows = {0, 255, 256, 2097151, 2097152}
    Memories = {65512, 65513, 67108840, 67108841}
    LogBytecodes = {8, 16, 17, 23}
    LogInvRates = {1, 4}
    Runs <- MCRuns
SPECIFICATION ExchangeSpec
INVARIANTS OnlyWholeProofsAreAccepted GuestReplaysTheVerifier GuestNeverRepeatsARate StackedColumnsFit FractionsFilled VerifierFindsEveryColumn PcIsFixedAtBothEnds OnlyOversizedProofsAreRefused
PROPERTY OneInteractionSpec
CHECK_DEADLOCK FALSE
