SPECIFICATION FairSpec
CONSTANTS
    Period = 4
    FirstDelays = {1, 3}
    Thetas <- AheadOrBehind
    Leftovers <- Anything
    StampAtPoll = FALSE
    MaxGap = 4
    MaxNow = 13
INVARIANTS
    TypeOK
    NotWedged
    NotTooFast
    Calibrated
    NoAnswerTwice
PROPERTIES
    KeepsSending
CHECK_DEADLOCK FALSE
