SPECIFICATION FairSpec
CONSTANTS
    Conns = {c1}
    MaxTransmits = 3
    BufLen = 2
INVARIANTS
    TypeOK
    FifoConserved
    WireKeepsCountAndOrder
    BacklogWasMissed
PROPERTIES
    QuietAfterClose
    HeardCloseReturns
    ImplementsChannel
CHECK_DEADLOCK FALSE
