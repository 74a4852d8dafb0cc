SPECIFICATION FairSpec
CONSTANTS
    n1 = n1
    n2 = n2
    n3 = n3
    n4 = n4
    Cases <- MCCases
    PageSize = 2
    MaxOngoing = 2
    MaxExpired = 1
    MaxPauses = 1
    Files <- MCFiles
    DefaultChunk = 2
    MaxRead = 3
    MaxSeek = 6
    MayOvertake = FALSE
    Nodes = {n1, n2, n3, n4}
    Requests <- MCRequests
    MaxThumbnails = 2
    MaxAttempts = 1
    Downloads = {1, 2, 3}
    Kinds <- MCKinds
    MaxDownloads = 2
INVARIANTS
    DeliveredIsRevision
    StreamIsPositioned
    DownloadsAccounted
PROPERTIES
    EverythingEnds
CHECK_DEADLOCK FALSE
