\* A thread that met a lost lock or a BUG stops.
CHECK_DEADLOCK FALSE
SPECIFICATION FairSpec
CONSTANTS
    LockBound = 1
    PendingBound = 1
INVARIANTS
    SuspendedIsQuiet
    SomethingResumes
    IInv
PROPERTIES
    RequestResumes
