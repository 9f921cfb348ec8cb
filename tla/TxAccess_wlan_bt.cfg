\* The coex thread and the device can end up waiting for each other (finding
\* BtQueueDrains) and the users stop at QueueBound: the system stops.
CHECK_DEADLOCK FALSE
SPECIFICATION FairSpec
CONSTANTS
    ActiveTechs <- WlanAndBt
    QueueBound = 1
    AllocMayFail = TRUE
    WriteMayFail = TRUE
INVARIANTS
    OneAckPerRequest
    WlanWritesAwake
    ClosedBusInv
    IInv
PROPERTIES
    NoGrantAfterAck
    KeepsHandshake
    AckGetsWritten
