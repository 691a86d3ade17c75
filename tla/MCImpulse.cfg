SPECIFICATION FairSpec
CONSTANTS
    MaxSteps = 3
    Chains = {1}
    Plans <- MCPlans
INVARIANTS
    TypeOK
    CancelledIsOver
PROPERTIES
    DetachedRuns
    PromisesAnswered
    EndsClean
CHECK_DEADLOCK FALSE
