SPECIFICATION FairSpec
CONSTANTS
    s1 = s1
    s2 = s2
    Schedules = {s1}
    Administered = {}
    StagesOf <- FourAndOne
    Agents = {a1}
    Executors = {e1}
    Admins = {}
    Limits = {1}
    Horizon = 1
    Crashes = TRUE
    None = None
PROPERTIES
    DueIsServed
CHECK_DEADLOCK FALSE
