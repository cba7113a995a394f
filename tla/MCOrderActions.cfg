SPECIFICATION Spec
CONSTANTS
    r1 = r1
    r2 = r2
    s1 = s1
    s2 = s2
    NoSymbol = NoSymbol
    Requests <- MCRequests
    Symbols <- MCSymbols
    RetryLogon = TRUE
    MaxDrops = 2
    MaxCalls = 2
    MaxRaises = 2
    MaxAuthErrors = 1
SYMMETRY RequestSymmetry
INVARIANTS
    TypeOK
    NoFault
    StatusIsOfThisSession
    AnswersAreTrue
PROPERTIES
    OneAnswerEach
