SPECIFICATION OrderSpec
CONSTANTS
    a1 = a1
    a2 = a2
    b1 = b1
    b2 = b2
    Agents = {a1}
    Keys = {k1, k2}
    Bodies = {b1}
    TargetsOf <- AllTargets
    MaxTasks = 2
    Creators = {h1}
    Workers = {w1}
    MtlsRequired = TRUE
    None = None
INVARIANTS
    InOrderExecution
PROPERTIES
    CommandIsAcknowledged
    TaskFinishes
CHECK_DEADLOCK FALSE
