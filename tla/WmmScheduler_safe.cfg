\* The system may rest: full queues, no event, or a block that nobody lifts.
SPECIFICATION Spec
CONSTANTS
    Burst <- ShortBursts
    OrgChoices <- OneOrg
    Used <- VoBeMgmt
    Counted <- NoQueue
    QueueBound = 2
    Producers = 1
    Updates = 0
    Interference <- AllKinds
INVARIANTS
    ChosenHasPacket
    SleepsWithReason
CHECK_DEADLOCK FALSE
