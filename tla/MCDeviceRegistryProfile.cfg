CONSTANTS
    Topics <- MCTopics
    Ids <- MCIds
    LegacyId <- MCLegacyId
    HashedId <- MCHashedId
    ConnectorIds <- MCConnectorIds
    MaxUpdates = 3
    MaxFaults = 1
    MaxRestarts = 1
SPECIFICATION Spec
INVARIANT
    ProfileAlwaysSurvives
CHECK_DEADLOCK FALSE
