SPECIFICATION Spec
CONSTANTS
    t1 = t1
    t2 = t2
    acknowledged = acknowledged
    unacknowledged = unacknowledged
    Tokens <- MCTokens
    NoToken = NoToken
    Orders <- MCOrders
    Unacknowledged <- MCUnacknowledged
    Master = TRUE
    MayForget = TRUE
    TradesLookback = TRUE
    SimulateExpiry = TRUE
    MaxCalls = 2
    MaxRestDrops = 1
    MaxTokenErrors = 1
    MaxDrops = 2
SYMMETRY TokenSymmetry
INVARIANTS
    TypeOK
    NoFault
    CounterMatchesQueries
    UnaskedOrdersArePending
    ReadyIsComplete
    TokenIsReplaced
PROPERTIES
    OneAtATime
    SubscribeBeforeFetch
