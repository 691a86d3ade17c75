SPECIFICATION SenderFairSpec
CONSTANTS
    Threads = {t1, t2}
    NoThread = none
INVARIANTS
    TypeOK
    OneCopy
    NoMissedNotification
    HookMeansUnseen
    InterruptReachesAll
PROPERTIES
    ImplementsOneShot
    WaitsReturn
CHECK_DEADLOCK FALSE
