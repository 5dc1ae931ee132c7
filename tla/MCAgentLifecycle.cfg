SPECIFICATION FairSpec
CONSTANTS
    MaxSessions = 3
    Starts <- SpawnedOrFromDisk
    Ends <- AnyEnd
    Kills = TRUE
    Failures = TRUE
CHECK_DEADLOCK FALSE
INVARIANTS
    TypeOK
    OneWriter
    NoOrphan
PROPERTIES
    ParkKeepsEntry
    IdleLeaves
    RevivalSettles
