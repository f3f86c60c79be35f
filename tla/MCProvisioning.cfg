CONSTANTS
    Anonymous <- MCAnonymous
    Credentials <- MCCredentials
    Callers <- MCCallers
    Devices <- MCDevices
    MaxClients = 2
    MaxTimers = 2
    MaxPassword = 3
    MaxCrashes = 1
    MaxOutages = 1
SPECIFICATION FairSpec
INVARIANTS
    RevokedStaysOut
    NextAttemptIsAdmitted
    FilesFollowSettings
    ConnectionInv
PROPERTY
    ReconnectsEventually
CHECK_DEADLOCK FALSE
