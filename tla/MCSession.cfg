SPECIFICATION FairSpec
CONSTANTS
    m1 = m1
    r1 = r1
    u1 = u1
    Managers = {m1}
    Requests = {r1}
    Owner <- AllOfM1
    Uids = {u1}
    None = None
    MaxToken = 4
    MaxAttempts = 2
INVARIANTS
    TypeOK
    PostsLiveToken
    ResumeLoadsLiveToken
    RetryUsesNewerToken
PROPERTIES
    SessionProgress
CHECK_DEADLOCK FALSE
