CONSTANTS
    Lengths <- AllLengths
    PageSize = 4
    BlockSize = 2
    SplitPages = 4
    PartsAt = 2
    PartsAbove = 4
    MaxSignals = 1
SPECIFICATION FairSpec
INVARIANTS WholeData
PROPERTIES Returns
CHECK_DEADLOCK FALSE
