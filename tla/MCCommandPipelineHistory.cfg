SPECIFICATION Spec
CONSTANTS
    Commands = {c1}
    Devices <- MCDevices
    Inputs <- MCInputs
    MaxFaults = 1
    MaxRestarts = 1
INVARIANTS
    InterruptedMeansInFlight
CHECK_DEADLOCK FALSE
