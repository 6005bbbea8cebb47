SPECIFICATION FairSpec
CONSTANTS
    old = old
    new = new
    other = other
    q1 = q1
    q2 = q2
    k1 = k1
    k2 = k2
    none = none
    c1 = c1
    c2 = c2
    Consumers = {c1, c2}
    Events = {old, new, other}
    NoEvent = none
    Partitions = {q1, q2}
    PartitionOf <- MCPartitionOf
    Entities = {k1, k2}
    EntityOf <- MCEntityOf
    Version <- MCVersion
    Poison = {other}
    MAX_TRIES = 2
    MaxLog = 2
    MaxDisruptions = 1
INVARIANTS
    TypeOK
    PassedIsHandled
    ConvergesToNewest
PROPERTIES
    ReplicaSpec
    PartitionAdvances
    PoisonIsDeadLettered
CHECK_DEADLOCK FALSE
