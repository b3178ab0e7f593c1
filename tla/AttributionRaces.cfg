CONSTANTS
    Callers = {p, q}
    People = {x, y}
    Affiliates = {a, b}
    Clicks = {k}
    Customers = {r1, r2}
    MaxVersion = 2
    MaxChanges = 1
    None = None
SPECIFICATION Spec
SYMMETRY Symmetric
INVARIANTS
    FirstReferralWins
    SubjectErased
    TrackingRemoved
PROPERTIES
    PinnedAtAttribution
