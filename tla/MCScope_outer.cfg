SPECIFICATION FairSpec
CONSTANTS
    Parents = {p1, p2}
    None = none
    All = all
    MaxSessions = 2
    MaxPerParent = 1
    MaxOutputs = 1
    CleanupWorkflows = {w}
    OnTerminate = {}
    OnCancelled = {w}
    Uninterruptible = FALSE
    EarlyCleanup = "while open"
    MayStop = FALSE
    MaySupplant = FALSE
    CleanupMayCancel = FALSE
PROPERTIES
    EndedSessionsFinish
    StarvedSessionsFinish
    CleanupIsAnswered
CHECK_DEADLOCK FALSE
