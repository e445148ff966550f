SPECIFICATION FairSpec
CONSTANTS
    Conns = {c1, c2}
    Nobody = Nobody
    MaxSetups = 2
    Polite = c2
INVARIANTS
    TypeOK
    GoneIsQuiet
    CrashHasCause
    SonosStopsWithLast
PROPERTY LostIsTakenDown
CONSTRAINT OneIsPolite
CHECK_DEADLOCK FALSE
