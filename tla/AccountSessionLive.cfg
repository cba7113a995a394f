SPECIFICATION FairSpec
CONSTANTS
    Tokens = {t1, t2}
    NoToken = NoToken
    Orders = {o1}
    Unacknowledged = {}
    Master = TRUE
    MayForget = FALSE
    TradesLookback = FALSE
    SimulateExpiry = TRUE
    MaxCalls = 2
    MaxRestDrops = 1
    MaxTokenErrors = 1
    MaxDrops = 1
INVARIANTS
    NothingWaitsInVain
PROPERTIES
    ReadyAgain
    StaleOrdersAreAsked
