SPECIFICATION Spec
CONSTANTS
    t1 = t1
    t2 = t2
    s2 = s2
    s1 = s1
    e1 = e1
    e2 = e2
    e3 = e3
    bad = bad
    Threads = {t1, t2}
    Sources = {s1, s2}
    Envelopes = {e1, e3, bad}
    NullElement = null
    EventIds <- MCEventIds
    EventId <- MCEventId
    SequenceOf <- MCSequenceOf
    Valid <- MCValid
    MAX_BATCH_SIZE = 1
    DbErrors = TRUE
SYMMETRY ThreadSymmetry
INVARIANTS
    TypeOK
    OneRowPerEvent
    LastSequenceIsLargest
PROPERTIES
    JumpIsReported
    JournalSpec
