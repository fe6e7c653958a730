SPECIFICATION FairSpec
CONSTANTS
    NumThreads = 2
    IterMod = 2
    NumStreams = 2
    MaxBuffers = 2
    NumTimes = 1
    MaxPackets = 3
    Heaps <- FirstHeaps
    Tasks <- BufferNumbers
    Workers = {1}
INVARIANTS
    TypeOK
    CopiesAreSafe
    LockedMeansQueued
    FreedLast
    BlocksUntilDone
    ThreadZeroAlone
    NobodySleepsForGood
PROPERTIES
    ImplementsBarrier
    FilledIsWritten
    EndsWithStreams
    LeavesOnlyRecent
