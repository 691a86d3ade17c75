SPECIFICATION Spec
CONSTANTS
    Shapes <- MCFeedCollect
    MaxSpread = 2
    MaxItems = 2
    MayInjectLost = FALSE
INVARIANTS
    StarvedOnlyIfStuck
CHECK_DEADLOCK FALSE
