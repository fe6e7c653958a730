SPECIFICATION Spec
CONSTANTS
    Devices = {d1, d2}
    b1 = b1
    b2 = b2
    b3 = b3
    Blocks = {b1, b2, b3}
    RealTime <- RealTimeBlocks
    Scans = {s1, s2}
    Configurations <- SmallConfigurations
    Updates <- SmallUpdates
    Deletable = {b1}
    Writable = {"IDLE", "READY", "SCANNING", "FAULT"}
    None = None
SYMMETRY Symmetry
INVARIANTS
    TypeOK
    AddressesOfScan
    BlocksAreOwn
    ScanReachesBlocks
    QuestionStands
