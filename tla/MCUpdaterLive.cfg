SPECIFICATION FairSpec
CONSTANTS
    w1 = w1
    Writes = {w1}
    NoWrite = NoWrite
    MaxVersion = 2
    Schema <- MCSchema
    MaxOps = 2
    MaxLogins = 0
    MaxCrashes = 1
    BackendCanFail = TRUE
    JournalCanFail = FALSE
    SupervisorIsPrompt = FALSE
PROPERTIES
    OperationEnds
    ClientsReadmitted
CHECK_DEADLOCK FALSE
