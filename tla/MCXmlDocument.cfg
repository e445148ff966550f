SPECIFICATION DocumentSpec
CONSTANTS
    Documents <- MCDocuments
    Path <- MCPath
    Wanted = "uuid"
    Count = 2
    Doc = Doc
    Null = Null
    MaxLength = 4
INVARIANTS
    WellLinked
    ChunksOnce
    ParsedIsSource
    EveryPlayerVisited
CHECK_DEADLOCK FALSE
