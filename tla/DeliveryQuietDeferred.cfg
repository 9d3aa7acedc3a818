CONSTANTS
    Telegram = tg
    WhatsApp = wa
    Max = mx
    Executions = {e1}
    Channels = {tg}
    Templated = {tg}
    Allowed = {tg}
    Linked = {tg}
    WithQuiet = {tg}
    Urgent = FALSE
    NoChannel = NoChannel
SPECIFICATION FairSpec
PROPERTY QuietDeferred
CHECK_DEADLOCK FALSE
