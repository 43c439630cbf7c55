CONSTANTS
    o1 = o1
    o2 = o2
    o3 = o3
    Ops = {o1, o2, o3}
    Kind = "capacity"
    MaxInFlight = 2
    FailuresToOpen = 2
    MaxExcused = 1
    MaxGeneration = 3
SPECIFICATION FairSpec
INVARIANTS
    TypeOK
    SingleProbe
    OnlyCurrentCounts
    OutageOpens
PROPERTIES
    TriedOutAgain
