SPECIFICATION Spec
CONSTANTS
    Threads = {m, w}
    Main = m
    MaxThreads = 2
    SlabSize = 2
    RegionBase = 4
    Sizes = {1, 2}
    Aligns = {1, 2}
    MaxGeneration = 2
    NoBlock = NoBlock
CHECK_DEADLOCK FALSE
INVARIANT StaleLoadsAreHarmless
