CONSTANTS
    Callers = {c1, c2}
    Requests = {r1, r2}
    Data = {d1}
    Null = Null
    MaxSignals = 0
    MaxDeaths = 1
    FreedIntact = TRUE
SPECIFICATION FairSpec
PROPERTY OffloadSpec
PROPERTY QueuedSurvivesRestart
CHECK_DEADLOCK FALSE
