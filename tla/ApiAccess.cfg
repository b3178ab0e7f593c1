CONSTANTS
    a1 = a1
    a2 = a2
    b1 = b1
    m1 = m1
    orgA = orgA
    orgB = orgB
    orgM = orgM
    owner = owner
    affiliate = affiliate
    admin = admin
    Null = Null
    Apps = {a1, a2, b1, m1}
    Users = {owner, affiliate, admin}
    OrgOf <- MCOrgOf
    Affiliated <- MCAffiliated
    ManagedApp = m1
    Credentials <- MCCredentials
    MaxChanges = 2
SPECIFICATION ApiSpec
INVARIANTS
    OnlyOwnRows
    InactiveIsSilent
    RevokedIsRefused
    ClientsAdmitted
