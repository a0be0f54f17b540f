SPECIFICATION GovernanceSpec
CONSTANTS
    Requests = {q1, q2}
    Uncontended = {q2}
    Users = {u1, u2, u3}
    Deciders = {h1, h2}
    None = None
    Runs = {r1, r2}
    Undisturbed = {r2}
    Admins = {u1, u2, u3}
    NoValue = NoValue
    Reasons = {b1, b2}
    Agents = {a1}
    Handlers = {h1, h2}
    Flags = {kill, flag}
    KILL_SWITCH = kill
    HighRisk = {kill, flag}
    FleetAgents = {f1}
    FlagThreads = {h1, h2}
    Patches = {k1, k2}
    Appliers = {h1, h2}
    MaxSnapshots = 4
    Endpoints = {f1, f2}
    Watchers = {h1, h2}
    Threads = {t1, t2, t3}
    NoThread = NoThread
SYMMETRY Symmetry
INVARIANTS
    ApprovedByEnough
    DispatchNeedsApproval
    RunTellsDispatch
    SwitchIsKept
    BackupPrecedesPatch
    OneAlertPerOutage
    LoopsAreKnown
PROPERTIES
    ApprovalsImplemented
CHECK_DEADLOCK FALSE
