CONSTANTS
    IdMod = 4
    LastId = 2
    IsoTp = FALSE
    EarlyAbort = TRUE
    BeginMax = 2
    StepsMax = 1
    LossMax = 1
SPECIFICATION Spec
INVARIANTS SystemTypeOK NoOrphanRunner EntryMovesOn ClientMovesOn
PROPERTIES BeginIsAnswered AbortIsAnswered
CHECK_DEADLOCK FALSE
