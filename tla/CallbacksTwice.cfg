SPECIFICATION Spec
CONSTANTS
    k1 = k1
    k2 = k2
    qAll = qAll
    v1 = v1
    l1 = l1
    c1 = c1
    c2 = c2
    Keys = {k1}
    Vals = {v1}
    Leases = {}
    None = None
    NoLease = NoLease
    NoUpdate = NoUpdate
    Unread = Unread
    Queries = {}
    Covers <- MCCoversNone
    Reach <- MCFlat
    DirectKeys = {}
    MaxRev = 2
    Clients = {c1}
    ListCalls = {}
    MaxRetries = 0
    MaxOps = 3
    LoopModes = {"now"}
    UseCallbacks = TRUE
SYMMETRY Symmetry
INVARIANTS
    SideEffectsNotDuplicated
