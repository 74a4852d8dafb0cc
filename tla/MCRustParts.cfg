SPECIFICATION RustFairSpec
CONSTANTS
    MaxEvents = 2
    n1 = n1
    u1 = u1
    u2 = u2
    Names = {n1}
    Uploads = {u1, u2}
    NameOf <- OneName
    Versions = {4}
    Length <- LengthOf
    BlockSize = 2
    MaxFileSize = 4
    MaxAttempts = 2
    MaxEdits = 1
    None = None
INVARIANTS
    FeedTypeOK
    NoEventSkipped
PROPERTIES
    DeliversAtLeastOnce
    FeedProgress
    UploadsEnd
CHECK_DEADLOCK FALSE
