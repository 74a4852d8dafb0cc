SPECIFICATION FairSpec
CONSTANTS
    Requests = {1, 2}
    Public = {1, 2}
    Blobs = {2}
    MaxAttempts = 3
    Max429 = 1
    Max5xx = 1
    MaxOffline = 1
    MaxSessions = 2
INVARIANTS
    EventsTellTheTruth
    WithinLimits
PROPERTIES
    AbortEndsRequest
CHECK_DEADLOCK FALSE
