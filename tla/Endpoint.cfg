SPECIFICATION EndpointSpec
CONSTANTS
    Devices = {d1, d2}
    NoDevice = NoDevice
    Paths = {p1}
    Hashes = {x, y}
    Absent = Absent
    MaxEvents = 3
    MaxDeaths = 1
    Pids = {a, b, c}
    NoFile = NoFile
SYMMETRY Symmetry
INVARIANTS
    Reversible
    ObserveBlocksNothing
    DeliveredOrQueued
    ReplayedInOrder
    OneRunsAtATime
PROPERTIES
    ChangesAreAlerted
CHECK_DEADLOCK FALSE
