CONSTANTS
    Threads = {t1, t2}
    Order = 5
    LaneWidths = {1, 2}
    NoWitness = NoWitness
    Rate = 2
    Height = 2
    MaxHeight = 32
    MaxTrailingZeros = 5
    Full = 6
    LastNonZero = {0, 1, 6}
    Aligned = 4
    MaxQueries = 3
    Matrices <- MCMatrices
SPECIFICATION Spec
INVARIANTS TheMutexHoldsAWitness FailsOnlyWithoutWitness RestoreInvertsPrune OpeningsVerify NoDigestTwice
PROPERTY Ends
CHECK_DEADLOCK FALSE
