SPECIFICATION Spec
CONSTANTS
    Pids = {1}
    Objects <- TwoObjects
    Threads = {t1, t2}
    MaxSockets = 3
INVARIANTS
    TypeOK
    ReachesItself
    NoLitter
PROPERTY FailsOnlyForCause
SYMMETRY Symmetry
