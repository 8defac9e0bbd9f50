SPECIFICATION MCSpec
CONSTANTS
    Raw = Raw
    Moved = Moved
    Bad = Bad
    NoBlock = NoBlock
    Null = Null
    Vectors = {a, b}
    Lists = {a, b}
    Values = {1, 2}
    Keys = {1, 2, 3}
    MinCapacity = 2
    block_capacity_ = 3
    MaxSize = 4
    MaxRoom = 3
    MaxDeque = 5
    MaxMap = 8
    Nodes = {1, 2, 3, 4, 5}
    Heads = {11, 12, 13, 14, 15, 16, 17, 18, 19, 20, 21, 22}
    MaxNodes = 3
    MaxLong = 5
    MaxLen = 5
INVARIANTS
    SlotsExact
    ElementsKept
    DequeBlocks
    DequeElements
    ListLinked
    ListElements
    ListNodesMoved
    SListLinked
    SListElements
    SListNodesMoved
    QueueHeaps
    AlgorithmsRight
CHECK_DEADLOCK FALSE
