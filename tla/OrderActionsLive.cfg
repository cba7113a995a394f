SPECIFICATION FairSpec
CONSTANTS
    Requests = {"request"}
    Symbols = {"s1", "s2"}
    NoSymbol = "none"
    RetryLogon = TRUE
    MaxDrops = 2
    MaxCalls = 2
    MaxRaises = 1
    MaxAuthErrors = 1
PROPERTIES
    LogsOnAgain
    CallsAreAnswered
