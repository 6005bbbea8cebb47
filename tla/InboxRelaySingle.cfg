SPECIFICATION Spec
CONSTANTS
    a = a
    b = b
    c = c
    p = p
    i1 = i1
    i2 = i2
    Instances = {i1}
    Events = {a, b, c}
    NoEvent = none
    Partitions = {p}
    PartitionOf <- MCPartitionOf
    ReceivedAt <- MCReceivedAt
    OccurredAt <- MCOccurredAt
    BATCH_SIZE = 2
    MAX_ATTEMPTS = 2
    LeaseTx = TRUE
    ProcessTx = TRUE
    MaxFaults = 1
    MaxReplays = 1
INVARIANTS
    TypeOK
    SentIsPublished
    DeadIsEarned
    DuplicatesAreExplained
PROPERTY SentIsFinal
CHECK_DEADLOCK FALSE
