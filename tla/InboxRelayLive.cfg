SPECIFICATION FairSpec
CONSTANTS
    a = a
    b = b
    c = c
    p = p
    i1 = i1
    i2 = i2
    Instances = {i1}
    Events = {a, b, c}
    NoEvent = none
    Partitions = {p}
    PartitionOf <- MCPartitionOf
    ReceivedAt <- MCReceivedAt
    OccurredAt <- MCOccurredAt
    BATCH_SIZE = 1
    MAX_ATTEMPTS = 2
    LeaseTx = TRUE
    ProcessTx = FALSE
    MaxFaults = 1
    MaxReplays = 1
PROPERTIES
    WaitingIsReached
    CycleEnds
CHECK_DEADLOCK FALSE
