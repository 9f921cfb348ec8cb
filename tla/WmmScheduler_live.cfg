\* The system may rest when nobody queues packets.
SPECIFICATION FairSpec
CONSTANTS
    Burst <- ShortBursts
    OrgChoices <- TwoOrgs
    Used <- BkVo
    Counted <- BkVo
    QueueBound = 2
    Producers = 1
    Updates = 1
    Interference <- Quiet
INVARIANTS
    Proportional
PROPERTIES
    NoStarvation
CHECK_DEADLOCK FALSE
