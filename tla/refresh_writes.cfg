CONSTANTS
    i1 = i1
    i2 = i2
    a1 = a1
    a2 = a2
    a3 = a3
    None = None
    Initial = Initial
    Instances = {i1, i2}
    Attempts = {a1, a2}
    InstanceOf <- MCInstanceOf
    Kind <- Expiring
    HealthCallers = {a1}
    Faulty = {a1, a2}
    Perishable = {Initial}
    Edits = {"token"}
    Pauses = TRUE
    Mortal = {i1}
SPECIFICATION Spec
CHECK_DEADLOCK FALSE
INVARIANTS
    LockMatchesOutcome
    AnnouncedSuccessIsReal
PROPERTIES
    NoTokenReturns
