SPECIFICATION FairSpec
CONSTANTS
    Players = {p1, p2, b}
    Bridges = {b}
    Nobody = Nobody
    MaxSearches = 2
    MaxChanges = 1
    RbSize = 2
    Responses <- MCResponses
INVARIANTS
    AnnouncedOnce
    ListsAgree
    BytesInOrder
PROPERTY CompletedIsEnded
CONSTRAINT ZoneStillAtShutdown
CHECK_DEADLOCK FALSE
