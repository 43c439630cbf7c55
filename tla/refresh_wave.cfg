CONSTANTS
    i1 = i1
    i2 = i2
    a1 = a1
    a2 = a2
    a3 = a3
    None = None
    Initial = Initial
    Instances = {i1, i2}
    Attempts = {a1, a2, a3}
    InstanceOf <- MCInstanceOf
    Kind <- Recovering
    HealthCallers = {a1, a3}
    Faulty = {a1}
    Perishable = {}
    Edits = {}
    Pauses = FALSE
    Mortal = {}
SPECIFICATION Spec
CHECK_DEADLOCK FALSE
INVARIANTS
    TypeOK
    SingleFlight
    HealthAtMostOnce
