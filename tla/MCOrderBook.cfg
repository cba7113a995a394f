SPECIFICATION FairSpec
CONSTANTS
    Symbols = {"s1", "s2"}
    Streams = {"s1", "s2"}
    StreamOf <- MCStreamOf
    MaxChanges = 4
    MaxDrops = 1
    MaxLosses = 1
    MaxErrors = 1
INVARIANTS
    TypeOK
    AwaitedIsAsked
    RequestsAreBounded
    ClientsHaveABook
PROPERTIES
    BookIsReplica
    BookRecovers
CHECK_DEADLOCK FALSE
