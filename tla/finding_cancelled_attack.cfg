CONSTANTS
    r1 = r1
    r2 = r2
    r3 = r3
    b1 = b1
    a1 = a1
    Runs = {r1}
    Batches = {}
    NoBatch = NoBatch
    ParentOf <- Singles
    Kind <- AllAttacks
    Agents = {a1}
    AgentOf <- OneAgent
    Cap <- CapOne
    Workers = {w1}
    NoWorker = NoWorker
    NoRun = NoRun
    MaxTurns = 1
    MaxCrashes = 0
    MayStall = FALSE
SPECIFICATION Spec
SYMMETRY WorkerSymmetry
PROPERTIES
    CancelledCallHasNoFinding
CHECK_DEADLOCK FALSE
