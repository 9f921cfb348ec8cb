\* Users and the device may stop; a memory fault ends the run.
CHECK_DEADLOCK FALSE
SPECIFICATION FairSpec
CONSTANTS
    MaxAdapters = 2
    RxBound = 1
    StepsMayFail = TRUE
INVARIANTS
    NoIoctlNoFault
    LockReturned
    Settled
    DeliveredWhileUp
PROPERTIES KeepsLife RemovalEnds
