SPECIFICATION FairSpec
CONSTANTS
    Conns = {c1}
    MaxTransmits = 1
    BufLen = 1
PROPERTY CloseReturns
CHECK_DEADLOCK FALSE
