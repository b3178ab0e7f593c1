CONSTANTS
    a1 = a1
    a2 = a2
    Affiliates = {a1}
    Batches = {b1, b2}
    Requests = {}
    Callers = {c1, c2}
    Keys = {}
    MaxEntries = 2
    Commissions = {}
    Refunds = {2}
    Disputable = {1}
    Amounts <- SmallAmounts
    MaxDetails = 1
    MinimumPayout = 1
    History <- OneApproved
    None = None
SPECIFICATION Spec
SYMMETRY Ids
INVARIANTS
    ActiveOnce
    ItemsFollowBatch
    DebtFollowsPayment
PROPERTIES
    BatchLifecycle
    AllocationSpec
CHECK_DEADLOCK FALSE
