SPECIFICATION ReconnectingSpec
CONSTANTS
    w1 = w1
    w2 = w2
    c1 = c1
    none = none
    NoWriter = none
    Writers <- OneWriter
    Clients <- OneClient
    MaxEvents = 2
    MaxDrops = 1
PROPERTIES
    StreamsEnd
CHECK_DEADLOCK FALSE
