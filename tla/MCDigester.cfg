SPECIFICATION FairSpec
CONSTANTS
    MaxHeight = 2
    Unreadable = {1}
    Capacity = 1
    Retries = 2
    MaxFaults = 4
    MaxCrashes = 2
INVARIANTS
    TypeOK
    LastBlockDigested
    DigestedOnce
PROPERTIES
    DigestsInOrder
    EventuallyDigested
    DigestReachesHead
CHECK_DEADLOCK FALSE
