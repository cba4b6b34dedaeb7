SPECIFICATION Spec
CONSTANTS
    Handlers = {}
    Position = {x, y}
    Halves = {word}
    Parts = {3}
    Second = 3
    Times = {4, 5, 6}
    MsgCountMod = 128
    TimerLimit = 1
    MaxBsm = 3
    MaxRequest = 2
    MaxTx = 0
    MaxConn = 1
SYMMETRY Interchangeable
INVARIANTS
    ReplyTimeHeard
PROPERTIES
    AnswersRecord
CHECK_DEADLOCK FALSE
