SPECIFICATION Spec
CONSTANTS
    Sessions = {s1}
    Values = {v1, v2}
    Joins = {join}
    Listens = {listen}
    Accesses = {access}
    KeyParts <- MCKeyParts
    Retention <- MCRetention
    None = none
    MaxInputs = 1
    MaxWaiting = 1
    MaxLength = 3
    MaxKeys = 1
    MaxCommands = 1
SYMMETRY MCSymmetry
INVARIANTS
    TypeOK
    EveryChangeIsSeen
    KeysAreTracked
    ClearedForGood
PROPERTIES
    ClosedGateWithholds
    ImplementsContract
CHECK_DEADLOCK FALSE
