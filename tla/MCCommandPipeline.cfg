SPECIFICATION FairSpec
CONSTANTS
    Commands = {c1, c2}
    Devices <- MCDevices
    Inputs <- MCInputs
    MaxFaults = 1
    MaxRestarts = 1
INVARIANTS
    SuccessIsProven
    DispatchIsAudited
    HistoryIsTrue
PROPERTIES
    CompletedIsFinal
    ImplementsVerifiedCommand
    WaitIsBounded
    RecordsAreCompleted
CHECK_DEADLOCK FALSE
