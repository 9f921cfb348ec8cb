\* The system may rest: nobody owes a frame.
SPECIFICATION Spec
CONSTANTS
    Interface = "USB"
    Params <- AllParams
    MgmtBound = 1
    CallerBound = 1
    AllocMayFail = TRUE
INVARIANTS
    OneRequest
    BeliefMatches
PROPERTIES
    KeepsAgreement
CHECK_DEADLOCK FALSE
