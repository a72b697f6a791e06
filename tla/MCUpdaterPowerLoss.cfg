SPECIFICATION Spec
CONSTANTS
    w1 = w1
    Writes = {w1}
    NoWrite = NoWrite
    MaxVersion = 2
    Schema <- MCSchema
    MaxOps = 1
    MaxLogins = 1
    MaxCrashes = 2
    BackendCanFail = FALSE
    JournalCanFail = FALSE
    SupervisorIsPrompt = FALSE
INVARIANT PowerLossNeedsNobody
CHECK_DEADLOCK FALSE
