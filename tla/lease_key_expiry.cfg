CONSTANTS
    i1 = i1
    i2 = i2
    c1 = c1
    c2 = c2
    l1 = l1
    l2 = l2
    l3 = l3
    None = None
    Instances = {i1, i2}
    Creds = {c1, c2}
    Leases = {l1, l3}
    CredOf <- MCCredOf
    OwnerOf <- MCOwnerOf
    RequestWeight <- MCWeight
    MaxWeight = 2
    MaxLocal = 2
    MaxGlobal = 3
    MaxAge = TRUE
    KeyExpiry = {c1, c2}
    Pauses = {}
    Admin = FALSE
    Mortal = {i1}
    Stoppable = {}
SPECIFICATION Spec
CHECK_DEADLOCK FALSE
INVARIANTS
    NoSlotIsLeaked
