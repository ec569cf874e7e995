CONSTANTS
    r1 = r1
    r2 = r2
    r3 = r3
    b1 = b1
    a1 = a1
    Runs = {r1, r2}
    Batches = {}
    NoBatch = NoBatch
    ParentOf <- Singles
    Kind <- AllSimulations
    Agents = {a1}
    AgentOf <- OneAgent
    Cap <- CapOne
    Workers = {w1, w2}
    NoWorker = NoWorker
    NoRun = NoRun
    MaxTurns = 1
    MaxCrashes = 0
    MayStall = FALSE
SPECIFICATION Spec
SYMMETRY WorkerSymmetry
INVARIANTS
    CapHolds
CHECK_DEADLOCK FALSE
