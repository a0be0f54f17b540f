SPECIFICATION AdmissionSpec
CONSTANTS
    t1 = t1
    t2 = t2
    c1 = c1
    c2 = c2
    c3 = c3
    Tokens = {t1, t2}
    MaxUses <- TwoAndOne
    Clients = {c1, c2, c3}
    Stripped <- BlankBefore
    Sequential = {c1}
    MaxAgents = 1
    Handlers = {h1, h2}
    None = None
    Licenses = {l1, l2}
    NoLicense = NoLicense
    Activators = {h1, h2}
    MaxChallenges = 2
SYMMETRY Symmetry
INVARIANTS
    EnrolledWithinUses
    UseNamesItsAgent
    SeatsBounded
    UnlockedIsSigned
PROPERTIES
    EndedIsFinal
CHECK_DEADLOCK FALSE
