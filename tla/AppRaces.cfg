CONSTANTS
    Programs = {g1, g2}
    Users = {u}
    Files = {f1, f2}
    Callers = {p, q}
    MaxAgreement = 2
    MaxRequests = 4
    None = None
SPECIFICATION Spec
SYMMETRY Symmetric
INVARIANTS
    OneDefaultProgram
    LogoStored
PROPERTIES
    JoinAcceptsCurrent
    JoinsWhereOpen
CHECK_DEADLOCK FALSE
