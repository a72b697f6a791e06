SPECIFICATION Spec
CONSTANTS
    w1 = w1
    Writes = {w1}
    NoWrite = NoWrite
    MaxVersion = 2
    Schema <- MCSchema
    MaxOps = 1
    MaxLogins = 1
    MaxCrashes = 1
    BackendCanFail = TRUE
    JournalCanFail = TRUE
    SupervisorIsPrompt = FALSE
PROPERTY CommittedInstallationKept
CHECK_DEADLOCK FALSE
