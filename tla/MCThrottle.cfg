SPECIFICATION Spec
CONSTANTS
    c1 = c1
    c2 = c2
    Connections <- MCConnections
    EnableRateLimit = TRUE
    DefaultBackoff = 1
    BlockedBackoff = 3
    HeaderValues <- MCHeaderValues
    MaxTime = 8
    MaxInFlight = 2
SYMMETRY Symmetry
INVARIANTS
    TypeOK
PROPERTIES
    BlockedIsSilent
CHECK_DEADLOCK FALSE
