SPECIFICATION CompilerSpec
CONSTANTS
    P = 1021
    MinMemory = 128
    MaxMemory = 512
    PublicInput <- MCPublicMemory
    PublicMemory <- MCPublicMemory
    InitialFp = 5
    Heap = 600
    UnrollChunk = 1
    MinBytecode = 1
    MaxBytecode = 512
    NoBatch = NoBatch
    Programs = {}
    Witnesses <- MCWitnesses
    ZeroVecLen = 16
    DigestLen = 8
    PoseidonOfZero = 7
    MinRows = 64
    Bound = 85
    Values = {}
    MaxHints = 0
    Sources <- DroppedAssertions
INVARIANT CompiledProgramsMeanTheirSource
