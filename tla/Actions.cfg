CONSTANTS
    Presses = {p1, p2, p3}
    Actions = {confirm, cancel, reschedule}
    Updating = {confirm, cancel}
    Channels = {tg, wa}
    Timed = {tg}
    NoButton = NoButton
    Nobody = Nobody
SPECIFICATION Spec
INVARIANTS
    TypeOK
    DoneMeansApplied
    NoLateOverwrite
PROPERTIES
    RepeatsIgnored
CHECK_DEADLOCK FALSE
CONSTRAINT FewUndecided
SYMMETRY Symmetry
