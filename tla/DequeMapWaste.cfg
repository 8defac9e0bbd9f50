SPECIFICATION QueueSpec
CONSTANTS
    Raw = Raw
    Moved = Moved
    Bad = Bad
    NoBlock = NoBlock
    MinCapacity = 2
    block_capacity_ = 3
    Values = {x}
    MaxSize = 2
    MaxMap = 16
INVARIANT LittleIsWasted
CHECK_DEADLOCK FALSE
