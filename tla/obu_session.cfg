SPECIFICATION FairSpec
CONSTANTS
    Handlers = {h1}
    Position = {}
    Halves = {lo, hi}
    Parts = {1, 2, 3}
    Second = 3
    Times = {4}
    MsgCountMod = 128
    TimerLimit = 2
    MaxBsm = 1
    MaxRequest = 2
    MaxTx = 1
    MaxConn = 3
INVARIANTS
    TypeOK
    CalibrationAnswer
PROPERTIES
    BroadcastsAngles
    ClientAnswered
CHECK_DEADLOCK FALSE
