SPECIFICATION FairSpec
CONSTANTS
    d1 = d1
    Devices = {d1}
    MaxCerts = 1
    Expiring = {}
    Holder <- OneHolder
    Slots = {1, 2}
    ClientsLeave = TRUE
    OpensslCanFail = FALSE
    MaxMishaps = 1
PROPERTIES
    BlockedIsEventuallyRefused
    RevokedIsEventuallyRefused
