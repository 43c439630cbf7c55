SPECIFICATION FairSpec
CONSTANTS
    r1 = r1
    r2 = r2
    a1 = a1
    p1 = p1
    Reports = {r1, r2}
    Admins = {a1}
    Remotes = {p1}
    Kinds <- MCKinds
    MaxFailures = 2
    Warmup = 1
CHECK_DEADLOCK FALSE
PROPERTIES
    BacklogDrains
