CONSTANTS
    Users = {u1, u2}
    Keys = {k1, k2}
    Links = {l1, l2, l3}
    Codes = {c1, c2}
    Callers = {p, q}
    MaxRequests = 6
    None = None
SPECIFICATION Spec
SYMMETRY Ids
INVARIANTS
    ClicksKeepLink
    OneLinkPerCode
    KeysDieFirst
CHECK_DEADLOCK FALSE
