CONSTANTS
    Topics <- MCTopics
    Ids <- MCIds
    LegacyId <- MCLegacyId
    HashedId <- MCHashedId
    ConnectorIds <- MCConnectorIds
    MaxUpdates = 4
    MaxFaults = 2
    MaxRestarts = 2
SPECIFICATION FairSpec
INVARIANTS
    MemoryIsExact
    ProfileSurvives
PROPERTY
    BatchIsWritten
CHECK_DEADLOCK FALSE
