CONSTANTS
    Workers = {w1}
    Producers = {p1}
    Tasks = {t1}
    None = None
    MaxThreads = 1
    MaxSpurious = 0
SPECIFICATION FairSpec
PROPERTY StopReturns
CHECK_DEADLOCK FALSE
