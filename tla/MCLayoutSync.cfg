SPECIFICATION FairSpec
CONSTANTS
    Browsers = {"anna", "ben"}
    Settled = {"ben"}
    MaxReads <- MCReads
    MaxEdits = 2
    MaxIncidents <- MCIncidents
INVARIANTS
    UnsavedWorkIsAccountedFor
    ConflictIsReal
PROPERTIES
    NoOneElsesWorkIsLost
    ViewersConverge
CHECK_DEADLOCK FALSE
