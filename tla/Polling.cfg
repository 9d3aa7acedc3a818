CONSTANTS
    Records = {r1, r2, r3}
    Notified = {r1, r2}
    Pollers = {p1, p2}
    Interval = 1
    Overlap = 1
    PageSize = 2
    MaxLag = 1
SPECIFICATION FairSpec
INVARIANTS
    TypeOK
    TimelyPollsMissNothing
    InVersionOrder
PROPERTIES
    FinallyTold
