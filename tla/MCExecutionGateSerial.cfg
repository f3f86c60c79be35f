SPECIFICATION Spec
CONSTANTS
    Rules <- MCRules
    Keys <- MCKeys
    RuleOf <- MCRuleOf
    StateKeys <- MCStateKeys
    MaxActive = 2
    MaxQueuePerRule = 2
    MaxRequests = 4
    MaxTime = 0
INVARIANTS
    PerSourceSerialization
CHECK_DEADLOCK FALSE
