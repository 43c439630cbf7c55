CONSTANTS
    i1 = i1
    i2 = i2
    r1 = r1
    r2 = r2
    r3 = r3
    Instances = {i1, i2}
    Requests = {r1, r2, r3}
    InstanceOf <- TwoInstances
    MaxTries = 1
    Slots = 1
    MaxQueued = 1
    MaxReleases = 2
    Renewing = {r2}
    Pauses = {r3}
    Faulty = {r2}
    Mortal = {i2}
SPECIFICATION FairSpec
CHECK_DEADLOCK FALSE
INVARIANTS
    TypeOK
    NewWithinLimit
    LocalCountExact
    PermitsExact
    QueuedIsCounted
PROPERTIES
    QueueDrains
