SPECIFICATION Spec
CONSTANTS
    Handlers = {h1}
    Halves = {word}
    Angles = {}
    Parts = {6}
    InOrder = TRUE
    MsgCountMod = 2
    TimerLimit = 1
    MaxSample = 2
    MaxTx = 3
    MaxConn = 1
INVARIANTS
    StampNotNewer
    NumberedInOrder
PROPERTIES
    BroadcastsRecord
CHECK_DEADLOCK FALSE
