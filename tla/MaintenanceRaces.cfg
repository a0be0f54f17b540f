SPECIFICATION Spec
CONSTANTS
    s1 = s1
    s2 = s2
    Schedules = {s1}
    Administered = {s1}
    StagesOf <- FourAndOne
    Agents = {a1}
    Executors = {e1, e2}
    Admins = {d1}
    Limits = {1}
    Horizon = 3
    Crashes = TRUE
    None = None
SYMMETRY Symmetry
INVARIANTS
    StagesInOrder
    OneExecutorPerRun
    RunTellsStages
CHECK_DEADLOCK FALSE
