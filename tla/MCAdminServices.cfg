SPECIFICATION MCSpec
CONSTANTS
    d1 = d1
    a1 = a1
    j1 = j1
    j2 = j2
    MaxSerial = 4
    MaxFailures = 3
    Devices = {d1}
    Requests = {1, 2}
    Certs = {1, 2}
    Subject <- ForDevice
    KeyOf <- ForKey
    Issuer <- FromCa
    Cas = {a1}
    MaxLeaving = 1
    MaxRestarts = 1
    Services <- BrokerAndAdmin
    MaxEdits = 1
    MaxStaged = 1
    MaxMishaps = 1
    Releases = {1, 2, 3, 4}
    Info <- OnGithub
    Installed <- Running
    Podman <- PodmanVersion
    Checks = {j1, j2}
    MaxChanges = 1
    Topics = {"t1", "t2"}
    Values = {"v1"}
    Publications = {"p1"}
    Filters <- EachTopic
    MaxSubscriptions = 2
    RetainedLimit = 2
    MaxInbox = 2
    MaxDeliveries = 1
    MaxOutages = 1
    Capacity = 2
    MaxHour = 4
    MaxCount = 3
    MaxReboots = 3
INVARIANTS
    SerialsAccounted
    KeySentOnce
    KeysFollowRecords
    ReadyHolds
    TrustIsBacked
    ActiveNeedsIdentity
    CertificatesFitKeys
    ListIsExact
    LatestIsGreatest
    OfferIsAccepted
    RetainedAgrees
    TrafficIsObserved
PROPERTIES
    AcknowledgedIsLoaded
CHECK_DEADLOCK FALSE
