CONSTANTS
    Presses = {p1, p2}
    Actions = {confirm, cancel, reschedule}
    Updating = {confirm, cancel}
    Channels = {tg, wa}
    Timed = {tg}
    NoButton = NoButton
    Nobody = Nobody
SPECIFICATION Spec
INVARIANT ProcessedOnce
CHECK_DEADLOCK FALSE
