SPECIFICATION TasksSpec
CONSTANTS
    a1 = a1
    a2 = a2
    b1 = b1
    b2 = b2
    Agents = {a1, a2}
    Keys = {k1}
    Bodies = {b1, b2}
    TargetsOf <- SharedTargets
    MaxTasks = 2
    Creators = {h1, h2}
    Workers = {w1, w2}
    MtlsRequired = TRUE
    None = None
SYMMETRY Symmetry
INVARIANTS
    CountsMatchTargets
    PendingCommandHasOpenTarget
    AppliedWasExecuted
PROPERTIES
    FinishedTaskIsStable
    ImplementsDispatch
CHECK_DEADLOCK FALSE
