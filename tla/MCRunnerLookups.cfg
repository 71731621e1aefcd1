SPECIFICATION Spec
CONSTANTS
    P = 257
    MinMemory = 128
    MaxMemory = 256
    PublicMemory <- MCPublicMemory
    InitialFp = 5
    NoBatch = NoBatch
    ZeroVecLen = 16
    DigestLen = 8
    PoseidonOfZero = 7
    MinRows = 64
    Bound = 85
    Programs <- OneIteration
    Witnesses <- MCWitnesses
    Values = {3, 30, 60, 61, 62, 63, 64}
    MaxHints = 1
INVARIANT LookupsHold
