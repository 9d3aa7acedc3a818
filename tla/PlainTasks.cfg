CONSTANTS
    r24 = r24
    r2 = r2
    Events = {e1, e2}
    Types = {r24, r2}
    Before <- BeforeValue
    Half = 1
    Birthday = birthday
    Clients = {c1, c2}
    Checks = {k1, k2}
    Workers = {w1, w2}
    NoItem = NoItem
    Times = {4, 5}
    MaxTime = 4
    MaxCrashes = 1
    MaxRedeliveries = 1
    MaxBeats = 2
SPECIFICATION Spec
INVARIANTS
    TypeOK
    PublishedIsRun
    RepeatsBounded
    NoneMissed
    GreetingsBounded
CHECK_DEADLOCK FALSE
CONSTRAINT Bounds
SYMMETRY Symmetry
