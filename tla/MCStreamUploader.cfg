SPECIFICATION FairSpec
CONSTANTS
    Inputs <- SomeInputs
    ChunkSize = 2
    MaxBuffered = 1
    MaxUploading = 2
    MaxEncryptRetries = 1
    MaxUploadRetries = 1
    None = None
INVARIANTS
    CommittedIsWhole
    UploadEndsRight
    WithinBounds
PROPERTIES
    AbortEndsAll
CHECK_DEADLOCK FALSE
