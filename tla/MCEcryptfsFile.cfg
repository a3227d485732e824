CONSTANTS
    Procs = {p1, p2}
    PageBytes = 2
    NPages = 2
    WriteOffsets = {0, 1, 3}
    WriteSizes = {1, 2, 4}
    ReadOffsets = {0, 1}
    ReadSizes = {3}
    MaxCalls = 3
    PSize = 3
    PCount = 2
    Kinds = {"encrypted", "plain"}
    WriteRanges <- MCWriteRanges
    Truncations = {1}
    MaxOps = 3
    MaxStores = 1
    Readers = {t1, t2}
    Frames = {f1, f2, f3}
    Places = {1, 2}
    Nothing = Nothing
    MaxReads = 3
    MaxChanges = 2
SPECIFICATION DataSpec
INVARIANTS PagesStored ReadMatches HoldsFile SizeStored ReadAheadCorrect
SYMMETRY Symmetry
CHECK_DEADLOCK FALSE
