SPECIFICATION Spec
CONSTANTS
    o1 = o1
    foreign = foreign
    None = None
    Orders <- MCOrders
    Foreign <- MCForeign
    Wanted <- MCWanted
    Placed <- MCPlaced
    Size = 2
    MaxCancels = 1
    MaxLists = 3
INVARIANTS
    TypeOK
    EchoMatches
    OmsFollowsExchange
PROPERTIES
    OmsNeverGoesBack
CHECK_DEADLOCK FALSE
