SPECIFICATION Spec
CONSTANTS
    Threads = {t1, t2}
    Tokens = {k1}
    NoToken = none
    Links = {r1}
    NoLink = none
    Passwords = {p1}
    SetExpires = FALSE
SYMMETRY Symmetry
INVARIANT SuspendedHasNoSession
