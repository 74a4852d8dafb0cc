SPECIFICATION FairSpec
CONSTANTS
    d1 = d1
    d2 = d2
    p1 = p1
    Downloads = {d1, d2}
    Paths = {p1}
    DestOf <- OneDest
    MaxRevision = 2
    BlocksOf <- BlockCount
    Signed <- HasSignature
    OldLength = 3
    None = None
INVARIANTS
    CompletedIsRight
    DestinationIsSound
PROPERTIES
    DownloadsEnd
CHECK_DEADLOCK FALSE
