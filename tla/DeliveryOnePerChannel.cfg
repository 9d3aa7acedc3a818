CONSTANTS
    Telegram = tg
    WhatsApp = wa
    Max = mx
    Executions = {e1}
    Channels = {tg, wa}
    Templated = {tg, wa}
    Allowed = {tg, wa}
    Linked = {tg, wa}
    WithQuiet = {wa}
    Urgent = FALSE
    NoChannel = NoChannel
SPECIFICATION Spec
INVARIANT OneMessagePerChannel
CHECK_DEADLOCK FALSE
