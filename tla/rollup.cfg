SPECIFICATION Spec
CONSTANTS
    c1 = c1
    c2 = c2
    p = p
    NoTx = NoTx
    Parent = p
    Children <- TwoCalls
    Txs <- EverySide
INVARIANTS
    TypeOK
    RowFirstNeverDeadlocks
PROPERTIES
    ImplementsRollup
CHECK_DEADLOCK FALSE
