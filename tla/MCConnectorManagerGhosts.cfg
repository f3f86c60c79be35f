CONSTANTS
    Instances <- MCInstances
    Types <- MCTypes
    TypeOf <- MCTypeOf
    Devices <- MCDevices
    Reach <- MCReach
    MaxDisables = 1
    MaxPolls = 1
    MaxActions = 1
    MaxFaults = 0
    MaxRestarts = 0
SPECIFICATION Spec
INVARIANT
    DisabledOwnsNothing
CHECK_DEADLOCK FALSE
