SPECIFICATION Spec
CONSTANTS
    Browsers = {"anna", "ben"}
    Settled = {"ben"}
    MaxReads <- MCReads
    MaxEdits = 2
    MaxIncidents <- MCNoIncidents
PROPERTIES
    DraftsAreRetained
CHECK_DEADLOCK FALSE
