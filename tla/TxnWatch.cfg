SPECIFICATION FairSpec
CHECK_DEADLOCK FALSE
CONSTANTS
    k1 = k1
    k2 = k2
    qAll = qAll
    v1 = v1
    l1 = l1
    c1 = c1
    c2 = c2
    Keys = {k1, k2}
    Vals = {v1}
    Leases = {}
    None = None
    NoLease = NoLease
    NoUpdate = NoUpdate
    Unread = Unread
    Queries = {qAll}
    Covers <- MCCovers
    Reach <- MCNested
    DirectKeys = {k1, k2}
    MaxRev = 3
    Clients = {c1}
    ListCalls <- MCListCalls
    MaxRetries = 0
    MaxOps = 2
    LoopModes = {"now", "watch"}
    UseCallbacks = FALSE
INVARIANTS
    TypeOK
    NoSpuriousWakeUp
    NoChangeForgotten
PROPERTIES
    NoMissedWakeUp
