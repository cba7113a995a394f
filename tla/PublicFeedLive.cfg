SPECIFICATION FairSpec
CONSTANTS
    Symbols = {s1, s2}
    Discarded = {s2}
    SliceSize = 1
    TopOfBookFromTicker = FALSE
    EnableMbp = FALSE
    MaxCalls = 2
    MaxRestDrops = 1
    MaxRestErrors = 1
    MaxDrops = 1
PROPERTIES
    EverySymbolIsSubscribed
    InstrumentsAgain
