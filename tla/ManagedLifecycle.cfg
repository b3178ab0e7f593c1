CONSTANTS
    Conns = {c1, c2}
    Accounts = {x, y}
    InstallKeys = {k1, k2}
    Callers = {p, q}
    MaxVersion = 2
    None = None
    x = x
    y = y
    site = site
    Sites <- SharedSite
SPECIFICATION Spec
SYMMETRY Symmetric
INVARIANTS
    TypeOK
    NeverLockedOut
    OneAppPerAccount
PROPERTIES
    RevokedOnlyWhenReplaced
    RedactionIsFinal
    NoForeignCredentials
