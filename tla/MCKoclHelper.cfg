CONSTANTS
    Ids = {r1, r2, r3}
    Services = {s1}
    NoService = NoService
    Channels = {2, 3}
    MaxQueueNr = 1
    None = None
SPECIFICATION FairSpec
INVARIANTS QueuesAccounted ResultOwn
PROPERTIES EveryRequestAnswered
