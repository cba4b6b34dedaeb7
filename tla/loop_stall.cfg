SPECIFICATION FairSpec
CONSTANTS
    Period = 3
    FirstDelays = {1}
    Thetas <- OneBehind
    Leftovers = {}
    StampAtPoll = TRUE
    MaxGap = 5
    MaxNow = 15
PROPERTIES
    KeepsSending
CHECK_DEADLOCK FALSE
