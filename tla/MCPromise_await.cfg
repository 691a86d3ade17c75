SPECIFICATION SenderFairSpec
CONSTANTS
    Threads = {t1}
    NoThread = none
PROPERTY AwaitCompletes
CHECK_DEADLOCK FALSE
