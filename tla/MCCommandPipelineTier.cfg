SPECIFICATION Spec
CONSTANTS
    Commands = {c1}
    Devices <- MCDevices
    Inputs <- AllInputs
    MaxFaults = 0
    MaxRestarts = 0
INVARIANTS
    TierIsNeverRaised
CHECK_DEADLOCK FALSE
