SPECIFICATION Spec
CONSTANTS
    NumThreads = 1
    IterMod = 2
    NumStreams = 1
    MaxBuffers = 2
    NumTimes = 1
    MaxPackets = 2
    Heaps <- FirstHeaps
    Tasks <- BufferNumbers
    Workers = {1}
PROPERTIES
    OnlyFilledIsLocked
