SPECIFICATION Spec
CONSTANTS
    r1 = r1
    r2 = r2
    r3 = r3
    a1 = a1
    a2 = a2
    Runs = {r1, r2, r3}
    Parents = {}
    Agents = {a1, a2}
    AgentOf <- TwoAgents
    Cap <- CapOne
    Workers = {w1, w2}
    NoWorker = NoWorker
    NoRun = NoRun
    CandidateLimit = 2
    MaxAborts = 1
SYMMETRY WorkerSymmetry
INVARIANTS
    TypeOK
    CapHolds
    PickIsExclusive
PROPERTIES
    ClaimsInOrder
    ImplementsQueue
