SPECIFICATION Spec
CONSTANTS
    n1 = n1
    u1 = u1
    u2 = u2
    Names = {n1}
    Uploads = {u1, u2}
    NameOf <- OneName
    Versions = {1, 2, 4, 5, 6, 7}
    Length <- LengthOf
    BlockSize = 2
    MaxFileSize = 4
    MaxAttempts = 2
    MaxEdits = 1
    None = None
INVARIANTS
    CommittedIsWhole
    OutcomesAreTrue
PROPERTIES
    TerminalIsFinal
SYMMETRY SameUploads
CHECK_DEADLOCK FALSE
