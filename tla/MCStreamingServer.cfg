SPECIFICATION Spec
CONSTANTS
    c1 = c1
    c2 = c2
    Conns = {c1, c2}
    Guest = c2
    Streams = {1, 2}
    MetaDataInterval = 3
    LengthValues = 2
    PacketSizes = {0, 2, 5}
    MaxBytes = 7
    BlockCounts = {1, 2}
    MaxTitles = 2
    MaxRequests = 3
INVARIANTS
    BlockEveryInterval
    AudioContiguous
    TitleOnceAndNewest
    CleanPlayerInStep
CONSTRAINTS
    GuestStaysShort
    ThirdRequestIsPlain
CHECK_DEADLOCK FALSE
