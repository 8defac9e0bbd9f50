CONSTANTS
    Threads = {t1, t2}
    Sizes = {100}
    None = None
    HeaderSize = 72
    MinData = 16
    NameSize = 32
    NodeSize = 16
    RegionSize = 131072
    KeepRegions = 1
    MaxRegions = 1
    MaxHeld = 2
SPECIFICATION Spec
INVARIANT ChecksHold
CHECK_DEADLOCK FALSE
