SPECIFICATION FairSpec
CONSTANTS
    Rules <- MCRules
    Keys <- MCKeys
    RuleOf <- MCRuleOf
    StateKeys <- MCStateKeys
    MaxActive = 2
    MaxQueuePerRule = 2
    MaxRequests = 4
    MaxTime = 1
PROPERTIES
    QueuedEventuallyStarts
CHECK_DEADLOCK FALSE
