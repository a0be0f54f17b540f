SPECIFICATION FairSpec
CONSTANTS
    s1 = s1
    s2 = s2
    Schedules = {s1, s2}
    Administered = {}
    StagesOf <- FourAndOne
    Agents = {a1}
    Executors = {e1, e2}
    Admins = {}
    Limits = {1, 2}
    Horizon = 2
    Crashes = FALSE
    None = None
PROPERTIES
    DueIsServed
    NextRunAdvances
CHECK_DEADLOCK FALSE
