CONSTANTS
    Workers = {w1, w2}
    Producers = {p1}
    Tasks = {t1, t2}
    None = None
    MaxThreads = 2
    MaxSpurious = 1
SPECIFICATION FairSpec
PROPERTIES
    EarlyTasksRun
    StopReturnsUnlessMissed
CHECK_DEADLOCK FALSE
