SPECIFICATION FairSpec
CONSTANTS
    Tasks = {"a", "b", "c"}
    Children <- OneParent
    PoolSize = 2
    MaxThreads = 6
    Late = FALSE
INVARIANTS RunByOne Quiet
PROPERTIES EverySettles ShutdownEnds
CHECK_DEADLOCK FALSE
