SPECIFICATION MCSpec
CONSTANTS
    k1 = k1
    f1 = f1
    mqtt = mqtt
    infrastructure = infrastructure
    mqttPage = mqttPage
    overviewPage = overviewPage
    Passkeys = {k1}
    Scopes = {"devices"}
    MaxSessions = 3
    MaxChallenges = 2
    MaxSecrets = 1
    MaxStep = 1
    MaxLate = 1
    MaxOverwrites = 1
    ViewScopes = {mqtt, infrastructure}
    ListPages = {mqttPage}
    VaultPages = {overviewPage}
    ScopeOf <- PageScope
    Reveals = {1, 2}
    Fetches = {f1}
    MaxHides = 2
    Streams = {"s1", "s2"}
    Limit = 1
    MaxVersions = 2
INVARIANTS
    ProofsWorkOnce
    GrantsFollowSessions
    SecondFactorBehindReveal
    ShownOnlyInView
    NoForgottenGrant
    VaultFollowsGrant
    StreamsCounted
PROPERTIES
    EnrolmentsAreProven
    LogsUnderGrant
CHECK_DEADLOCK FALSE
