SPECIFICATION Spec
CONSTANTS
    Rules <- MCRules
    Keys <- MCKeys
    RuleOf <- MCRuleOf
    StateKeys <- MCStateKeys
    MaxActive = 3
    MaxQueuePerRule = 2
    MaxRequests = 6
    MaxTime = 1
INVARIANTS
    CapsRespected
    WorkConserving
    CoalescingIsFaithful
PROPERTIES
    RuleQueuesAreFifo
CHECK_DEADLOCK FALSE
