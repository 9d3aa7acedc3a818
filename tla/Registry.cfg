SPECIFICATION FairSpec
CONSTANTS
    a = a
    b = b
    p1 = p1
    p2 = p2
    FirstOwner <- FirstOwnerValue
    Clients = {a, b}
    Phones = {p1, p2}
    Users = {u1, u2}
    None = None
    MaxUpdates = 3
    MaxCrashes = 1
    MaxErrors = 1
    MaxMoves = 1
    MaxDeactivations = 1
INVARIANTS
    OnePerPhone
    BoundIffSetUp
    LastWordHolds
    DeactivationSticks
    RepeatsConverge
PROPERTIES
    EveryUpdateHandled
CHECK_DEADLOCK FALSE
