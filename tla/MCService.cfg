SPECIFICATION FairSpec
CONSTANTS
    Labels = {l1}
    Serial = serial
    None = none
    MaxRequests = 3
    Modes = {"serial", "parallel"}
    Kinds = {"async", "workflow"}
    Origin <- MCOrigin
    Offered <- MCOffered
    ReadyAtOnce = FALSE
    MayTrim = TRUE
    MayCleanTwice = FALSE
    MayDespawn = TRUE
INVARIANTS
    TypeOK
    OneAtATime
    NoLaneStuck
    OnlyItsLabelIsStoppedAsync
PROPERTIES
    EveryRequestEnds
    ServesInOrder
CHECK_DEADLOCK FALSE
