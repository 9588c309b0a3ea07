SPECIFICATION Spec
CONSTANTS
    Threads = {t1, t2, t3}
    Ifnames = {w1, w2}
    Clients = {c1, c2}
    None = none
    MaxCalls = 2
SYMMETRY Alike
INVARIANTS
    NothingEscapes
CHECK_DEADLOCK FALSE
