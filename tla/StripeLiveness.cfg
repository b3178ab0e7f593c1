CONSTANTS
    pay = pay
    after = after
    closed = closed
    Events = {pay, after, closed}
    Parent <- WithClosing
    Type <- InvoiceAndRefund
    NotOwed = {closed}
    Workers = {w1, w2}
    Late = {}
    MaxFaults = 1
    AdminRetries = FALSE
    CanDisconnect = FALSE
    Livemode = FALSE
    MaxSwitches = 0
    None = None
SPECIFICATION FairSpec
PROPERTIES
    EventuallyAcked
