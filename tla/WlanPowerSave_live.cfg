\* The system may rest: nobody owes a frame.
SPECIFICATION FairSpec
CONSTANTS
    Interface = "USB"
    Params <- OneOn
    MgmtBound = 1
    CallerBound = 1
    AllocMayFail = FALSE
PROPERTIES
    WakeAnswered
    SleepAnswered
    MgmtDrains
CHECK_DEADLOCK FALSE
