SPECIFICATION FairSpec
CONSTANTS
    w1 = w1
    w2 = w2
    c1 = c1
    none = none
    NoWriter = none
    Writers <- TwoWriters
    Clients <- OneClient
    MaxEvents = 4
    MaxDrops = 2
INVARIANTS
    TypeOK
    SeqIsPosition
    EmitsNeverCollide
PROPERTIES
    EveryEventArrives
    StreamsEnd
    ImplementsFeed
CHECK_DEADLOCK FALSE
