SPECIFICATION FairSpec
CONSTANTS
    MaxStates = 3
    MinPriority = 2
    MaxPriority = 5
INVARIANTS
    TypeOK
    NothingLost
    AnyStateMayBeNext
    NewestForkFirst
PROPERTIES
    ForksGainNothing
    NoPathStarves
