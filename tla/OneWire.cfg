SPECIFICATION FairSpec
CONSTANTS
    W = 4
    Room = 8
    Retries = 1
    Valid <- EvenIds
    MaxNoise = 1
    MaxMoves = 1
CHECK_DEADLOCK FALSE
INVARIANTS TypeOK FoundReal AllFound
PROPERTIES DiscoverySpec SearchEnds
