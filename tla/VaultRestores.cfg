SPECIFICATION Spec
CONSTANTS
    e1 = e1  e2 = e2  c1 = c1  c2 = c2  r1 = r1  r2 = r2  k1 = k1 k2 = k2  j1 = j1
    Evidence = {e1, e2}
    QuietEvidence = {e1}
    CreateKeys = {k1, k2}
    CustodyTypes <- Types
    Clerks = {c1, c2}
    MaxRows = 3
    Restorers = {r1}
    RestoreKeys = {j1}
    TableOrders <- Orders
    MaxBackups = 1
SYMMETRY Threads
INVARIANTS
    ChainVerifies
    RowTellsChain
PROPERTIES
    RestoresAsPreviewed
CHECK_DEADLOCK FALSE
