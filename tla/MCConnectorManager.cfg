CONSTANTS
    Instances <- MCInstances
    Types <- MCTypes
    TypeOf <- MCTypeOf
    Devices <- MCDevices
    Reach <- MCReach
    MaxDisables = 1
    MaxPolls = 1
    MaxActions = 1
    MaxFaults = 1
    MaxRestarts = 2
SPECIFICATION Spec
INVARIANTS
    StoreAgrees
    HandlersFollowInstances
PROPERTIES
    DisabledStaysDisabled
    SiblingKeepsDevices
CHECK_DEADLOCK FALSE
