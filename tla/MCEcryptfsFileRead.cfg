CONSTANTS
    Procs = {p1}
    PageBytes = 2
    NPages = 2
    WriteOffsets = {0, 2}
    WriteSizes = {2, 4}
    ReadOffsets = {0, 1, 2, 4}
    ReadSizes = {1, 2, 3, 4}
    MaxCalls = 2
    PSize = 2
    PCount = 3
    Kinds = {"encrypted", "plain"}
    WriteRanges = {}
    Truncations = {}
    MaxOps = 0
    MaxStores = 0
    Readers = {t1}
    Frames = {f1}
    Places = {1}
    Nothing = Nothing
    MaxReads = 0
    MaxChanges = 0
SPECIFICATION DataSpec
INVARIANT ReadsItsRange
CHECK_DEADLOCK FALSE
