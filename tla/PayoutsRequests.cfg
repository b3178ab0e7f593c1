CONSTANTS
    a1 = a1
    a2 = a2
    Affiliates = {a1}
    Batches = {b1}
    Requests = {r1, r2}
    Callers = {c1, c2}
    Keys = {k1}
    MaxEntries = 2
    Commissions = {}
    Refunds = {1}
    Disputable = {}
    Amounts <- SmallAmounts
    MaxDetails = 1
    MinimumPayout = 2
    History <- OneApproved
    None = None
SPECIFICATION Spec
SYMMETRY Ids
INVARIANTS
    AllocatedOnce
    
CHECK_DEADLOCK FALSE
