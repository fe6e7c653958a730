SPECIFICATION FairSpec
CONSTANTS
    b1 = b1
    b2 = b2
    wA = wA
    wB = wB
    p1 = p1
    p2 = p2
    workflow = workflow
    engine = engine
    other = other
    None = None
    Engine = Engine
    PBs = {b1}
    Workflows = {wA}
    Supported = {wA}
    Processes = {p1}
    Names = {workflow, engine}
    Extensions <- MCFlat
    FaultKinds = {}
    MaxFaults = 0
    MaxUses = 2
    HandMade = {}
    Recursive = {FALSE}
    WorkflowName = workflow
    EngineName = engine
PROPERTIES
    WorkflowDeployed
