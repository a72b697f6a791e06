SPECIFICATION Spec
CONSTANTS
    w1 = w1
    w2 = w2
    Writes = {w1, w2}
    NoWrite = NoWrite
    MaxVersion = 2
    Schema <- MCSchema
    MaxOps = 2
    MaxLogins = 1
    MaxCrashes = 2
    BackendCanFail = TRUE
    JournalCanFail = FALSE
    SupervisorIsPrompt = FALSE
SYMMETRY MCWrites
INVARIANTS
    NoAcknowledgedWriteLost
    NoWriterWhileUndecided
    SettledIsConsistent
    ReplayCounterKept
PROPERTIES
    ImplementsAtomicUpdate
CHECK_DEADLOCK FALSE
