CONSTANTS
    IdMod = 4
    LastId = 2
    IsoTp = TRUE
    EarlyAbort = FALSE
    BeginMax = 2
    StepsMax = 1
    LossMax = 1
SPECIFICATION Spec
INVARIANTS StepsRunForTheirBegin  AbortCancels
CHECK_DEADLOCK FALSE
