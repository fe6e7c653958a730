SPECIFICATION RecordingSpec
CONSTANTS
    NumThreads = 1
    IterMod = 2
    NumStreams = 2
    MaxBuffers = 2
    NumTimes = 2
    MaxPackets = 3
    Heaps <- MCHeaps
    Tasks <- BufferNumbers
    Workers = {1}
    Arguments <- MCArguments
    Cores = 4
    NumWriters = 2
    ChannelsPerFile = 1
    Nothing = Nothing
    Builds = {"files", "ms"}
    MaxFailures = 1
INVARIANTS
    RecordingTypeOK
    StoredIsWhole
    OnlyOlderIsLeft
PROPERTIES
    HeldStays
