CONSTANTS
    r1 = r1
    r2 = r2
    r3 = r3
    b1 = b1
    a1 = a1
    Runs = {r1, r2}
    Batches = {b1}
    NoBatch = NoBatch
    ParentOf <- BatchOfTwo
    Kind <- ScriptAndSimulation
    Agents = {a1}
    AgentOf <- OneAgent
    Cap <- CapOne
    Workers = {w1, w2}
    NoWorker = NoWorker
    NoRun = NoRun
    MaxTurns = 1
    MaxCrashes = 1
    MayStall = FALSE
SPECIFICATION FairSpec
INVARIANTS
    OneTerminalFrame
PROPERTIES
    ClaimedRunsEnd
    QueuedRunsLeave
    BatchesClose
CHECK_DEADLOCK FALSE
