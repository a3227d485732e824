CONSTANTS
    Callers = {c1, c2, c3}
    Requests = {r1, r2}
    Data = {d1}
    Null = Null
    MaxSignals = 1
    MaxDeaths = 1
    FreedIntact = FALSE
SPECIFICATION Spec
INVARIANTS OnePlace CallbacksSafe HelperNotAborted
SYMMETRY Symmetry
CHECK_DEADLOCK FALSE
