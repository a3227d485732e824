CONSTANTS
    Clients = {c1, c2}
    NUnits = 4
    Sizes = {1, 2}
    Channels = {0, 3}
    MaxRegs = 2
    FreshContents <- ConstFresh
SPECIFICATION Spec
INVARIANTS NoSharedUnits BitmapExact NoOopsWhenMapped
SYMMETRY Symmetry
CHECK_DEADLOCK FALSE
