CONSTANTS
    LogLifetime = 12
    V = 4
    W = 2
    TargetSum = 6
    WordBits = 8
    K = 3
    Messages = {1, 2}
    Randomness = {15, 57, 92, 93, 316, 768}
    SomeSlots = {0, 2, 7, 8, 15, 16, 2047, 2048, 4094, 4095}
    EncodingWords <- MCEncodingWords
    Ranges <- MCRanges
    Signers = {1, 2, 3, 4}
    Topics <- MCTopics
    MaxRecursions = 2
    LogMaxSigs = 2
    MaxDups = 2
    MaxHeld = 3
    MaxForged = 2
    MaxForging = 1
    Signer = 1
    Others <- MCOthers
SPECIFICATION Spec
INVARIANTS IssuedSignaturesVerify GuestAgreesWithVerify OnlySignedEncodingsVerify EverySignerSigned CirculatingVerify AggregationIsComplete SplitRecoversTheComponent
CHECK_DEADLOCK FALSE
