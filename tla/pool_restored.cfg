CONSTANTS
    i1 = i1
    i2 = i2
    l1 = l1
    l2 = l2
    l3 = l3
    p1 = p1
    p2 = p2
    None = None
    Instances = {i1, i2}
    Leases = {l1}
    OwnerOf <- MCOwnerOf
    PoolOf <- MCPoolOf
    PoolLimit = 1
    GlobalLimit = 1
    Faulty = {i1}
    MaxRestarts = 1
    MaxFaults = 1
SPECIFICATION FairSpec
CHECK_DEADLOCK FALSE
PROPERTIES
    GuardRestored
