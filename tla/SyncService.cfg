SPECIFICATION ServiceSpec
CONSTANTS
    e1 = e1
    bad = bad
    q1 = q1
    k1 = k1
    i1 = i1
    c1 = c1
    t1 = t1
    s1 = s1
    Threads = {t1}
    Sources = {s1}
    Envelopes = {e1, bad}
    NullElement = null
    EventId <- MCEventId
    SequenceOf <- MCSequenceOf
    Valid = {e1}
    MAX_BATCH_SIZE = 1
    DbErrors = TRUE
    Instances = {i1}
    Events = {e1}
    NoEvent = none
    Partitions = {q1}
    PartitionOf <- MCPartitionOf
    ReceivedAt <- MCTime
    OccurredAt <- MCTime
    BATCH_SIZE = 1
    MAX_ATTEMPTS = 1
    LeaseTx = TRUE
    ProcessTx = FALSE
    MaxFaults = 1
    MaxReplays = 1
    Consumers = {c1}
    Entities = {k1}
    EntityOf <- MCEntityOf
    Version <- MCTime
    Poison = {}
    MAX_TRIES = 1
    MaxLog = 4
    MaxDisruptions = 1
INVARIANTS
    NoSilentLoss
    AcknowledgedArrives
    ProjectedWasAccepted
CHECK_DEADLOCK FALSE
