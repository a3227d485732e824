CONSTANTS
    Lengths <- AllLengths
    PageSize = 4
    BlockSize = 2
    SplitPages = 4
    PartsAt = 2
    PartsAbove = 4
    MaxSignals = 0
SPECIFICATION Spec
INVARIANT PartsMakeUpData
CHECK_DEADLOCK FALSE
