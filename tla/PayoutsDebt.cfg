CONSTANTS
    a1 = a1
    a2 = a2
    Affiliates = {a1, a2}
    Batches = {b1, b2}
    Requests = {}
    Callers = {c1}
    Keys = {}
    MaxEntries = 5
    Commissions = {3}
    Refunds = {}
    Disputable = {}
    Amounts <- SmallAmounts
    MaxDetails = 1
    MinimumPayout = 1
    History <- IndebtedAndOther
    None = None
SPECIFICATION Spec
SYMMETRY Ids
INVARIANTS
    DebtAppliedOnce
CHECK_DEADLOCK FALSE
