\* The users stop at QueueBound and a device need not ask for sleep: it stops.
CHECK_DEADLOCK FALSE
SPECIFICATION FairSpec
CONSTANTS
    ActiveTechs <- WlanAndBt
    QueueBound = 1
    AllocMayFail = FALSE
    WriteMayFail = FALSE
PROPERTIES BtQueueDrains
