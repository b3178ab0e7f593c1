CONSTANTS
    Payments = {p1}
    RefundIds = {r1, r2}
    DisputeIds = {d1, d2, d3}
    Amounts = {1, 2, 3}
    Commissions = {0, 1, 2}
    None = None
SPECIFICATION Spec
SYMMETRY Ids
INVARIANTS
    ExposureWithinPayment
    ReversalFollowsRefunds
    HoldHasOpenDispute
    DisputeNetsOut
    TakenBackIsBounded
CHECK_DEADLOCK FALSE
