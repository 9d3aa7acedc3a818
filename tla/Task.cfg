CONSTANTS
    Tasks = {t1}
    Workers = {w1, w2}
    NoMsg = NoMsg
    MaxRetries = 4
    MaxCrashes = 1
    MaxRedeliveries = 1
    MaxFaults = 1
SPECIFICATION FairSpec
INVARIANTS
    TypeOK
    NoTaskVanishes
    AttemptsBound
PROPERTIES
    CompletedStays
    KeepsPromise
    Settles
CHECK_DEADLOCK FALSE
