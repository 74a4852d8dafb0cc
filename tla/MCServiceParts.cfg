SPECIFICATION ServicesFairSpec
CONSTANTS
    NSubscribers = 2
    EventPageSize = 1
    MaxEvents = 2
    MaxFailures = 1
    ParentNode = "p"
    ChildNodes = {"c", "d"}
    Batches <- MCBatches
    Window = 2
    People = {"a", "b"}
    Registered = {"a"}
    Requested <- MCRequested
    MaxOthers = 2
    MaxFaults = 1
    NListed = 2
    MaxShared = 2
    MaxTroubles = 1
    RootCallers = {"a", "b"}
    MaxVolumeFaults = 2
INVARIANTS
    EventsAreTold
    SharingDoesAsAsked
    ClientAgreesWithServer
PROPERTIES
    ServicesProgress
CHECK_DEADLOCK FALSE
