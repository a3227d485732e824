CONSTANTS
    Procs = {p1, p2, p3}
    Libs <- MCLibs
    MaxRegistered = 2
    None = None
SPECIFICATION StartSpec
INVARIANTS OneOpener CanBeOpened ServiceFound RebasedToOwn
SYMMETRY Symmetry
