SPECIFICATION Spec
CONSTANTS
    MaxBodies = 2
    Callbacks <- MCCallbacks
    MaxCalls = 2
    MaxCommands = 2
    Matches <- MCMatches
INVARIANTS
    AlwaysFailFast
CHECK_DEADLOCK FALSE
