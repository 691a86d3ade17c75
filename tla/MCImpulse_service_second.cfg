SPECIFICATION Spec
CONSTANTS
    MaxSteps = 2
    Chains = {1}
    Plans <- MCServiceSecond
INVARIANTS
    OnlyUnusedIsDropped
CHECK_DEADLOCK FALSE
