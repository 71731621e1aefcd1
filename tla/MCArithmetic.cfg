CONSTANT WordBits = 7
CONSTANT P = 53
CONSTANT Width = 4
CONSTANT DotLengths <- MCDotLengths
CONSTANT Exponents <- MCExponents
CONSTANT Integers128 <- MCIntegers
CONSTANT PowerStarts = {1, 5}
CONSTANT Strides = {0, 1}
CONSTANT MaxOperations = 1
CONSTANT Samples <- MCSamples
CONSTANT Factors <- MCSamples
CONSTANT Modulus = 113
CONSTANT MdsCol <- MCMdsCol
CONSTANT HalfFullRounds = 2
CONSTANT PartialRounds = 3
CONSTANT RoundConstants <- MCRoundConstants
CONSTANT States <- MCStates
SPECIFICATION ArithmeticSpec
INVARIANT WordsAreCanonical QuinticIsTheExtension FormsAgree
CHECK_DEADLOCK FALSE
