SPECIFICATION FairSpec
CONSTANTS
    Counts = {0, 1, 2}
    Goodnesses = {0, 2}
    Cycles = {1, 4}
    Lives = {TRUE, FALSE}
    Sets = {TRUE, FALSE}
    Checks = {TRUE, FALSE}
    Offsets <- EitherWay
    MinInterval = 3
    Duplicates = TRUE
    MaxProbes = 2
    MaxMeasured = 2
    MaxInFlight = 1
INVARIANTS
    TypeOK
    StopsOnceGood
PROPERTIES
    ProbesApart
    StepWithinCycle
    Terminates
CHECK_DEADLOCK FALSE
