SPECIFICATION FairSpec
CONSTANTS
    Handlers = {h1}
    Halves = {word}
    Angles = {1}
    Parts = {3, 6}
    InOrder = TRUE
    MsgCountMod = 128
    TimerLimit = 2
    MaxSample = 2
    MaxTx = 0
    MaxConn = 3
INVARIANTS
    TypeOK
    OneAnswerPerRequest
    CalibrationAnswer
PROPERTIES
    RequestAnswered
    BackToAccept
CHECK_DEADLOCK FALSE
