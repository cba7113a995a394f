SPECIFICATION Spec
CONSTANTS
    Tokens = {t1}
    NoToken = NoToken
    Orders = {o1}
    Unacknowledged = {}
    Master = TRUE
    MayForget = FALSE
    TradesLookback = FALSE
    SimulateExpiry = FALSE
    MaxCalls = 1
    MaxRestDrops = 0
    MaxTokenErrors = 1
    MaxDrops = 0
CHECK_DEADLOCK FALSE
INVARIANT
    DownloadedTokenIsUsed
