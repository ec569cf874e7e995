CONSTANTS
    r1 = r1
    r2 = r2
    r3 = r3
    b1 = b1
    a1 = a1
    Runs = {r1, r2, r3}
    Batches = {b1}
    NoBatch = NoBatch
    ParentOf <- BatchOfOne
    Kind <- AttackDiscoveryReplay
    Agents = {a1}
    AgentOf <- OneAgent
    Cap <- CapTwo
    Workers = {w1}
    NoWorker = NoWorker
    NoRun = NoRun
    MaxTurns = 1
    MaxCrashes = 1
    MayStall = TRUE
SPECIFICATION Spec
INVARIANTS
    OutcomeIsInTheLog
    DoneSettlesTheRun
    FindingBelongsToDoneRun
CHECK_DEADLOCK FALSE
