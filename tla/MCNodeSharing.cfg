SPECIFICATION SharingSpec
CONSTANTS
    People = {"a", "b"}
    Registered = {"a", "b"}
    Requested <- MCRequested
    MaxOthers = 2
    MaxFaults = 1
INVARIANT OnlyEmptyIsDeleted
CHECK_DEADLOCK FALSE
