\* The system may rest: nobody owes a packet.
SPECIFICATION FairSpec
CONSTANTS
    MAX_TX_URB = 8
    BUFFER_FULL = 7
    McastMax = 1
    QueueBound = 1
    Faults <- AllFaults
INVARIANTS
    NextBlockFree
    CountCovers
    StoppedIsPending
PROPERTIES
    KeepsRing
    Restarts
CHECK_DEADLOCK FALSE
