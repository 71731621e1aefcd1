SPECIFICATION QueueSpec
CONSTANTS
    Threads = {m, w}
    Main = m
    MaxThreads = 1
    SlabSize = 2
    RegionBase = 4
    Sizes = {1}
    Aligns = {1}
    MaxGeneration = 2
    NoBlock = NoBlock
    BlockCap = 2
    BlockSize = 1
    FlushJobs = 3
    NoPool = NoPool
INVARIANT QueueBlockOwnsItsMemory
INVARIANT NoArenaStorageAcrossPhases
CHECK_DEADLOCK FALSE
