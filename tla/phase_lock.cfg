SPECIFICATION Spec
CONSTANTS
    RING_SIZE = 4
    MAX_CORRECT = 3
    Ppm = 1
    Scale = 60
    MaxGap = 2
    Hosts <- SlowOrFast
    Answers <- RightOrWrong
    MaxMeasured = 5
INVARIANTS
    TypeOK
    BoxExact
    TruthInBox
    LeastShift
PROPERTIES
    SteersRight
CHECK_DEADLOCK FALSE
