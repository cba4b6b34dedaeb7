SPECIFICATION Spec
CONSTANTS
    Handlers = {h1, h2}
    States = 32
    MsgCountMod = 2
    MaxTx = 3
INVARIANTS
    TypeOK
    LeakOnlyTimFrame
    CrashOnlySpatEvent
    SentWhole
CHECK_DEADLOCK FALSE
