SPECIFICATION Spec
CONSTANTS
    Shapes <- MCShapes
    MaxSpread = 3
    MaxItems = 3
    MayInjectLost = FALSE
INVARIANTS
    StarvedOnlyIfStuck
    QuietIsOver
PROPERTIES
    NothingMoreArrives
CHECK_DEADLOCK FALSE
