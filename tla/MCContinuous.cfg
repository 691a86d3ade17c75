SPECIFICATION Spec
CONSTANTS
    l1 = l1
    l2 = l2
    Labels = {l1, l2}
    Serial = serial
    None = none
    MaxRequests = 4
    Modes = {"serial", "parallel"}
    Origin <- MCOrigin
    Offered <- MCOffered
    MayCleanHeld = TRUE
    MayFlushBetween = FALSE
INVARIANTS
    TypeOK
    HeldIsUnanswered
    OnlyCleanupSticks
PROPERTIES
    ServesInOrder
CHECK_DEADLOCK FALSE
