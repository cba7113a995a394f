SPECIFICATION Spec
CONSTANTS
    s1 = s1
    s2 = s2
    hidden = hidden
    Symbols <- MCSymbols
    Discarded <- MCDiscarded
    SliceSize = 2
    TopOfBookFromTicker = TRUE
    EnableMbp = FALSE
    MaxCalls = 2
    MaxRestDrops = 2
    MaxRestErrors = 1
    MaxDrops = 1
SYMMETRY SymbolSymmetry
INVARIANTS
    TypeOK
    NoFault
    SubscribedOnce
    NoSubscriptionIsLost
    StreamsMatchSlices
    RestDownloadIsSound
    SubscriptionLimit
PROPERTIES
    OneHomeEach
