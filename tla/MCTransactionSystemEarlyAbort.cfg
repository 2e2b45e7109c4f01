CONSTANTS
    IdMod = 4
    LastId = 2
    IsoTp = TRUE
    EarlyAbort = TRUE
    BeginMax = 2
    StepsMax = 1
    LossMax = 0
SPECIFICATION Spec
INVARIANTS AbortCancels
CHECK_DEADLOCK FALSE
