SPECIFICATION MCSpec
CONSTANTS
    Null = Null
    Tables = {a, b}
    Nodes = {1, 2, 3, 4}
    Keys = {0, 1, 2, 4}
    Values = {x, y}
    Dummy = Dummy
    Table = Table
    min_bucket_size_ = 2
    MaxNodes = 3
    MaxRoom = 3
    MaxBuckets = 4
    MaxCapacity = 3
INVARIANTS
    BucketsExact
    TableContents
    ListAndTableAgree
PROPERTY
    ImplementsRecency
