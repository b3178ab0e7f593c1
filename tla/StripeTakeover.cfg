CONSTANTS
    pay = pay
    after = after
    closed = closed
    Events = {pay, after}
    Parent <- AfterPayment
    Type <- CheckoutAndDispute
    NotOwed = {}
    Workers = {w1, w2}
    Late = {pay}
    MaxFaults = 1
    AdminRetries = TRUE
    CanDisconnect = TRUE
    Livemode = FALSE
    MaxSwitches = 1
    None = None
SPECIFICATION Spec
SYMMETRY Ids
INVARIANTS
    AckedIsRecorded
    EmittedOnce
PROPERTIES
    OnlyOwnerMarks
    InboxSpec
