SPECIFICATION Spec
CONSTANTS
    P = 257
    MinMemory = 128
    MaxMemory = 256
    PublicMemory <- MCPublicMemory
    InitialFp = 5
    NoBatch = NoBatch
    ZeroVecLen = 16
    DigestLen = 8
    PoseidonOfZero = 7
    MinRows = 64
    Bound = 85
    Programs <- TwoCallPrograms
    Witnesses <- MCWitnesses
    Values = {0}
    MaxHints = 4
INVARIANT ParallelRunsLikeRange
