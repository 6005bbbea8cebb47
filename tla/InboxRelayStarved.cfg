SPECIFICATION FairSpec
CONSTANTS
    a = a
    b = b
    c = c
    p = p
    i1 = i1
    i2 = i2
    Instances = {i1}
    Events = {a, b}
    NoEvent = none
    Partitions = {p}
    PartitionOf <- MCPartitionOf
    ReceivedAt <- MCReceivedAt
    OccurredAt <- MCOccurredAt
    BATCH_SIZE = 1
    MAX_ATTEMPTS = 2
    LeaseTx = TRUE
    ProcessTx = FALSE
    MaxFaults = 0
    MaxReplays = 0
PROPERTIES
    WaitingIsTried
CHECK_DEADLOCK FALSE
