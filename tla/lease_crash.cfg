CONSTANTS
    i1 = i1
    i2 = i2
    c1 = c1
    c2 = c2
    l1 = l1
    l2 = l2
    l3 = l3
    None = None
    Instances = {i1, i2}
    Creds = {c1, c2}
    Leases = {l1, l2, l3}
    CredOf <- MCCredOf
    OwnerOf <- LateOwnerOf
    RequestWeight <- LateWeight
    MaxWeight = 2
    MaxLocal = 2
    MaxGlobal = 2
    MaxAge = FALSE
    KeyExpiry = {}
    Pauses = {}
    Admin = FALSE
    Mortal = {i1}
    Stoppable = {}
SPECIFICATION FairSpec
CHECK_DEADLOCK FALSE
INVARIANTS
    DispatchedWithinLimits
    HeldIsRegistered
PROPERTIES
    DeadLeasesReclaimed
    ReleasesDrain
