SPECIFICATION Spec
CONSTANTS
    w1 = w1
    Writes = {w1}
    NoWrite = NoWrite
    MaxVersion = 2
    Schema <- MCSchema
    MaxOps = 1
    MaxLogins = 1
    MaxCrashes = 1
    BackendCanFail = TRUE
    JournalCanFail = FALSE
    SupervisorIsPrompt = FALSE
INVARIANT OfferedRollbackIsAdmitted
CHECK_DEADLOCK FALSE
