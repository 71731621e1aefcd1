CONSTANTS
    Cycles = {65535, 65536}
    PrecompileRows = {0}
    Memories = {65512}
    LogBytecodes = {8}
    LogInvRates = {1}
    Runs <- MCRuns
SPECIFICATION LayoutSpec
INVARIANT MemoryHoldsTheCycles
CHECK_DEADLOCK FALSE
