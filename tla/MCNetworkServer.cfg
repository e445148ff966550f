SPECIFICATION FairSpec
CONSTANTS
    Conns = {c1, c2}
    NoConn = NoConn
    MaxTransmits = 1
    BufLen = 1
CONSTRAINT OneAnswers
INVARIANTS
    TypeOK
    ListedIsUsable
    DeletedIsQuiet
    RunningServerCrash
PROPERTIES
    FailedIsRemoved
    DestructorReturns
CHECK_DEADLOCK FALSE
