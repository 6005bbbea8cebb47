SPECIFICATION Spec
CONSTANTS
    Consumers = {c1, c2}
    TOTAL = 2
    MAX_TRIES = 2
    MaxLog = 2
    MaxFaults = 1
    MaxExpiries = 0
INVARIANT ReceivedIsNotLost
CHECK_DEADLOCK FALSE
