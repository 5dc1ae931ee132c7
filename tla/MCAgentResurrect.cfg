SPECIFICATION Spec
CONSTANTS
    MaxSessions = 3
    Starts <- SpawnedOnly
    Ends <- KeepOnly
    Kills = TRUE
    Failures = FALSE
CHECK_DEADLOCK FALSE
PROPERTY
    ReleaseIsFinal
