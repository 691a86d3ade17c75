SPECIFICATION Spec
CONSTANTS
    Labels = {l1}
    Serial = serial
    None = none
    MaxRequests = 3
    Modes = {"serial", "parallel"}
    Kinds = {"async"}
    Origin <- MCOrigin
    Offered <- MCOffered
    ReadyAtOnce = TRUE
    MayTrim = FALSE
    MayCleanTwice = FALSE
    MayDespawn = FALSE
INVARIANTS
    OneAtATime
CHECK_DEADLOCK FALSE
