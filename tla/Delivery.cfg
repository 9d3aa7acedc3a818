CONSTANTS
    Telegram = tg
    WhatsApp = wa
    Max = mx
    Executions = {e1, e2}
    Channels = {tg, wa}
    Templated = {tg, wa}
    Allowed = {tg, wa}
    Linked = {tg, wa}
    WithQuiet = {wa}
    Urgent = FALSE
    NoChannel = NoChannel
SPECIFICATION Spec
INVARIANTS
    TypeOK
    AuditAgrees
    FailureIsolated
    BlockedOnce
PROPERTIES
    CoveredStays
CHECK_DEADLOCK FALSE
SYMMETRY ExecutionSymmetry
CONSTRAINT Bounds
