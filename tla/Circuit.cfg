CONSTANTS
    Calls = {c1, c2, c3}
    Threshold = 3
    Pause = 3
    MaxSends = 5
SPECIFICATION FairSpec
INVARIANTS
    TypeOK
    OnlyStrays
PROPERTIES
    OpensOnStreak
    ClosesAgain
