CONSTANTS
    Callers = {c1, c2, c3}
    Cost = 3
    Full = 3
    MaxTime = 14
SPECIFICATION BucketSpec
INVARIANTS
    BucketTypeOK
    TwiceTheRate
PROPERTIES
    TwoPerPeriod
CHECK_DEADLOCK FALSE
