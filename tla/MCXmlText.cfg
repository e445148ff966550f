SPECIFICATION Spec
CONSTANTS
    Units <- MCUnits
    Titles <- MCTitles
    MaxUnits = 3
    Width = 16777216
INVARIANTS
    UnreadIntact
    DecodedIsMeaning
CHECK_DEADLOCK FALSE
