SPECIFICATION AccessSpec
CONSTANTS
    Tokens = {b1, b2}
    Workers = {w1}
    MaxLosses = 1
    None = None
    UnblockIds = {q1, q2}
    Undisputed = {q2}
    Reviewers = {h1, h2}
    NoRequest = NoRequest
    UserIds = {u1, u2, u3}
    UserThreads = {h1, h2}
    NoUser = NoUser
    SessionKeys = {k1, k2}
    SessionBodies = {b1, b2}
    Operators = {u1, u2, u3}
    Consoles = {h1, h2}
    NoOperator = NoOperator
SYMMETRY Symmetry
INVARIANTS
    OncePerProgram
    StatusTellsUse
    UnblocksOnce
PROPERTIES
    AdminsKept
    SessionsEndOnce
CHECK_DEADLOCK FALSE
