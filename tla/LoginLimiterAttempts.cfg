SPECIFICATION Spec
CONSTANTS
    Threads = {t1, t2, t3}
    Max = 2
    Ceiling = 4
PROPERTIES
    RefusalIsEarned
