SPECIFICATION Spec
CONSTANTS
    Parents = {p1, p2}
    None = none
    All = all
    MaxSessions = 2
    MaxPerParent = 2
    MaxOutputs = 2
    CleanupWorkflows = {w1, w2}
    OnTerminate = {w1}
    OnCancelled = {w2}
    Uninterruptible = FALSE
    EarlyCleanup = "while open"
    MayStop = TRUE
    MaySupplant = TRUE
    CleanupMayCancel = TRUE
INVARIANTS
    TypeOK
    CleanBeforeCleanupWorkflows
    OneEnd
    NothingLeftBehind
    ToldWhenAllFinished
PROPERTIES
    ImplementsContract
CHECK_DEADLOCK FALSE
