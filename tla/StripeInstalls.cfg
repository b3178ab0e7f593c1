CONSTANTS
    Apps = {a1, a2}
    Accounts = {x1, x2}
    Modes = {TRUE, FALSE}
    UserOf <- OneUser
    Reach <- EveryAccount
    Callers = {p, q}
    MaxRequests = 5
    None = None
SPECIFICATION Spec
SYMMETRY Symmetric
INVARIANTS
    OneAppPerStripeAccount
    OneRevenueSource
CHECK_DEADLOCK FALSE
