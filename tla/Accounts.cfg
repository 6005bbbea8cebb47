SPECIFICATION Spec
CONSTANTS
    Threads = {t1, t2}
    Tokens = {k1, k2}
    NoToken = none
    Links = {r1}
    NoLink = none
    Passwords = {p1, p2}
    SetExpires = TRUE
SYMMETRY Symmetry
INVARIANTS
    LiveIsTracked
    RevocationIsComplete
