SPECIFICATION FairSpec
CONSTANTS
    Consumers = {c1, c2}
    TOTAL = 2
    MAX_TRIES = 2
    MaxLog = 2
    MaxFaults = 1
    MaxExpiries = 1
INVARIANTS
    TypeOK
    CompleteIsWhole
    WholeIsComplete
PROPERTY SnapshotCompletes
CHECK_DEADLOCK FALSE
