SPECIFICATION PartsSpec
CONSTANTS
    Threads = {t1, t2, t3}
    Max = 2
    Ceiling = 4
    Pointer = {60, 200, 400}
    Design = {1280, 1920}
    Slides = {a, b}
    HasRail = TRUE
    Pictured = {a, b}
    Links = {l}
    Shared = TRUE
    MaxEdits = 2
    Tabs = {u1, u2}
    Shopping = {u1}
    Paying = {u2}
    Products = {p, q}
    Low = {q}
    First = p
    Most = 2
    CartCeiling = 2
INVARIANTS
    RailFollowsModes
    OverlayIsHeld
    DerivedIsFresh
    StaleIsExplained
    LockWillExpire
PROPERTIES
    LinesChangeOnPurpose
    PartsSettle
CHECK_DEADLOCK FALSE
