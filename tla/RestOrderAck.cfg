SPECIFICATION Spec
CONSTANTS
    Requests = {"request"}
    Symbols = {"symbol"}
    NoSymbol = "none"
    RetryLogon = TRUE
    MaxDrops = 0
    MaxCalls = 1
    MaxRaises = 1
    MaxAuthErrors = 0
INVARIANT OrderIsAcknowledged
