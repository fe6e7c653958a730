SPECIFICATION Spec
CONSTANTS
    k1 = k1
    k2 = k2
    qAll = qAll
    v1 = v1
    l1 = l1
    c1 = c1
    c2 = c2
    Keys = {k1, k2}
    Vals = {v1}
    Leases = {}
    None = None
    NoLease = NoLease
    NoUpdate = NoUpdate
    Unread = Unread
    Queries = {qAll}
    Covers <- MCCovers
    Reach <- MCFlat
    DirectKeys = {}
    MaxRev = 3
    Clients = {c1, c2}
    ListCalls <- MCListCalls
    MaxRetries = 0
    MaxOps = 3
    LoopModes = {}
    UseCallbacks = FALSE
SYMMETRY Symmetry
INVARIANTS
    SnapshotReads
PROPERTIES
    SerializableCommit
    ConflictHasCause
    ImplementsAtomicStore
