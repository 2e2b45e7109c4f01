CONSTANTS
    IdMod = 4
    LastId = 2
    IsoTp = FALSE
    EarlyAbort = FALSE
    BeginMax = 2
    StepsMax = 1
    LossMax = 0
SPECIFICATION Spec
PROPERTIES StaleContentDiscarded
CHECK_DEADLOCK FALSE
