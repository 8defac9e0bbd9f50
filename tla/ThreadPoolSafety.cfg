CONSTANTS
    Workers = {w1, w2}
    Producers = {p1}
    Tasks = {t1, t2, t3}
    None = None
    MaxThreads = 3
    MaxSpurious = 1
SPECIFICATION Spec
SYMMETRY Symmetry
INVARIANTS
    TypeOK
    RunningIsJoinable
    DrainedOnStop
    FrontIsDefined
PROPERTY ImplementsExecutor
CHECK_DEADLOCK FALSE
