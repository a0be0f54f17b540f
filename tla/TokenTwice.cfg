SPECIFICATION AccessSpec
CONSTANTS
    Tokens = {t1}
    Workers = {w1}
    MaxLosses = 1
    None = None
    UnblockIds = {}
    Undisputed = {}
    Reviewers = {}
    NoRequest = NoRequest
    UserIds = {}
    UserThreads = {}
    NoUser = NoUser
    SessionKeys = {}
    SessionBodies = {}
    Operators = {}
    Consoles = {}
    NoOperator = NoOperator
INVARIANTS
    SingleUse
CHECK_DEADLOCK FALSE
