SPECIFICATION FairSpec
CONSTANTS
    AlbumCases <- MCAlbumCases
    LoadSize = 2
    BatchLimit = 3
    MaxAlbumFaults = 1
    MaxMeanwhile = 2
    Items = {"x", "y"}
    OldFiles = {"y"}
    NodeNames = {"a", "b"}
    MaxCryptoOps = 3
    MaxCached = 1
    LinkRequests = {"r1", "r2"}
    MaxExpiries = 3
    MaxLinkFaults = 1
    SmallCases <- MCSmallCases
    StreamSizes = {0, 1, 2, 3}
    MaxEncryptionRetries = 1
    Uploads = {1, 2, 3}
    Requests <- SomeRequests
    ClientUids = {"a", "b"}
    MaxFiles = 2
    MaxSize = 3
    MaxResent = 1
    None = None
INVARIANTS
    ClientTypeOK
    AlbumCallsAreTrue
    NodesAreReadable
    UploadsAreTrue
    NeverRefusedTwiceWithOne
PROPERTIES
    OthersWorkIsKept
    ClientProgress
CHECK_DEADLOCK FALSE
