\* Nobody need hand over frames.
CHECK_DEADLOCK FALSE
SPECIFICATION FairSpec
CONSTANTS
    Vaps = {"ap0", "ap1"}
    Stacks = {"ap0"}
    Queues = {"be"}
    BK_Q_AP = "bk"
    host_txq_maxlen = 4
    Margin = 2
INVARIANTS
    QueueBounded
    IInv
PROPERTIES
    FlagClears
    InterfaceStarts
