SPECIFICATION FairFramingSpec
CONSTANTS
    InitialSize = 4
    HeaderLens = {1, 3}
    BodyLens = {0, 2, 5}
    MaxRequests = 3
INVARIANTS
    BufferHasRoom
    EachRequestExact
PROPERTY WaitingClientAnswered
CHECK_DEADLOCK FALSE
