SPECIFICATION FairSpec
CONSTANTS
    Counts = {0}
    Goodnesses = {0}
    Cycles = {4}
    Lives = {TRUE}
    Sets = {TRUE}
    Checks = {TRUE}
    Offsets <- EitherWay
    MinInterval = 3
    Duplicates = FALSE
    MaxProbes = 2
    MaxMeasured = 2
    MaxInFlight = 1
PROPERTIES
    JumpThenLock
CHECK_DEADLOCK FALSE
