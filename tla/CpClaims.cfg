SPECIFICATION Spec
CONSTANTS
    b1 = b1
    b2 = b2
    wA = wA
    wB = wB
    p1 = p1
    p2 = p2
    workflow = workflow
    engine = engine
    other = other
    None = None
    Engine = Engine
    PBs = {b1}
    Workflows = {wA}
    Supported = {wA}
    Processes = {p1, p2}
    Names = {workflow, engine, other}
    Extensions <- MCNested
    FaultKinds = {"kill", "lease", "deployer", "install", "leftover"}
    MaxFaults = 2
    MaxUses = 2
    HandMade <- MCHandMade
    Recursive = {FALSE}
    WorkflowName = workflow
    EngineName = engine
SYMMETRY Symmetry
INVARIANTS
    TypeOK
    OwnersAreLive
    OneAtWork
PROPERTIES
    DeletionStaysInBlock
    ImplementsLeases
