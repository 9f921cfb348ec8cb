\* The system may rest: nobody owes a frame.
SPECIFICATION Spec
CONSTANTS
    Interface = "USB"
    Params <- OneOn
    MgmtBound = 1
    CallerBound = 1
    AllocMayFail = FALSE
INVARIANTS
    DisableMeansWake
CHECK_DEADLOCK FALSE
