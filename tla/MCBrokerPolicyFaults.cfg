SPECIFICATION MCSpec
CONSTANTS
    d1 = d1
    Devices = {d1}
    MaxCerts = 2
    Expiring = {1}
    Holder <- OneHolder
    Slots = {1}
    ClientsLeave = FALSE
    OpensslCanFail = FALSE
    MaxMishaps = 1
INVARIANTS
    TypeOK
    AppliedIsCurrent
    RevokedIsRefused
    RegistryAgreesWithIndex
PROPERTIES
    BlockedOneWayOrOther
