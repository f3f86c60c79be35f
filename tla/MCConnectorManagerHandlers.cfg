CONSTANTS
    Instances <- MCInstances
    Types <- MCTypes
    TypeOf <- MCTypeOf
    Devices <- MCDevices
    Reach <- MCReach
    MaxDisables = 1
    MaxPolls = 1
    MaxActions = 1
    MaxFaults = 1
    MaxRestarts = 0
SPECIFICATION Spec
INVARIANT
    SiblingAlwaysKeepsHandlers
CHECK_DEADLOCK FALSE
