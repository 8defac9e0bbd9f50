CONSTANTS
    Threads = {t1, t2}
    Sizes = {8, 130904, 131000}
    None = None
    HeaderSize = 72
    MinData = 16
    NameSize = 32
    NodeSize = 16
    RegionSize = 131072
    KeepRegions = 1
    MaxRegions = 2
    MaxHeld = 4
SPECIFICATION Spec
INVARIANTS
    TypeOK
    RegionsTiled
    FreeListExact
    Coalesced
    UsedIsHeld
    FreeNodeFits
    FreeRegionsBounded
    NoFault
PROPERTY ImplementsHeap
SYMMETRY Symmetry
CHECK_DEADLOCK FALSE
