SPECIFICATION FairSpec
CONSTANTS
    BufSize = 4
    Lengths = {0, 1, 2, 3, 4, 6}
    MaxLines = 4
INVARIANTS
    TypeOK
    StuckOnlyAfterMultiple
    InTurn
PROPERTIES
    EndsWithPeer
CHECK_DEADLOCK FALSE
