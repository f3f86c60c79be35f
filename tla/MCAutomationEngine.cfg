SPECIFICATION FairEngineSpec
CONSTANTS
    Rules <- MCRules
    Keys <- MCKeys
    RuleOf <- MCRuleOf
    StateKeys <- MCStateKeys
    Kind <- MCKind
    Editors <- MCEditors
    MaxActive = 1
    MaxQueuePerRule = 2
    MaxRequests = 3
    MaxTime = 1
    MaxRevision = 2
    MaxDepth = 1
    MaxInFlight = 1
INVARIANTS
    RegistryFollowsRows
    LaterRequestsRunLaterRules
    MixedChainsAreBounded
PROPERTIES
    DeletedRuleIsNotWoken
    QueuedEventuallyStarts
CHECK_DEADLOCK FALSE
