SPECIFICATION FairSpec
CONSTANTS
    Lanes = {0, 1}
    node <- MCnode
    MEMORY_MODE = 3
    MISS_LATENCY <- MCMissLatency
    Programs <- MCPrograms
    MaxBacklog = 5
INVARIANTS
    TypeOK
    OneExecuting
PROPERTIES
    InOrder
    KeepsCompleting
