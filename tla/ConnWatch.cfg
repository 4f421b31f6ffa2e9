CONSTANTS
    Mode = "NRM"
    Links <- WatchLinks
    Secondaries <- OneSecondary
    RetryMax = 1
    MaxRestarts = 2
SPECIFICATION FairSpec
INVARIANTS
    Surveillance
PROPERTIES
    HalfOpenDetected
    Concludes
CHECK_DEADLOCK FALSE
