SPECIFICATION Spec
CONSTANTS
    Handlers = {h1}
    Halves = {word}
    InOrder = TRUE
    Second = 3
    Offsets <- Apart
    Settings <- Corrected
    MaxSteps = 1
    MaxNow = 2
    MaxAsked = 2
    MaxAir = 2
    MaxHeard = 2
    MaxAnswers = 2
INVARIANTS
    DelayRight
    PositionFresh
CHECK_DEADLOCK FALSE
