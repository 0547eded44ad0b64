SPECIFICATION HostSpec
CONSTANTS
    Lines = {0, 64, 128}
    OUTSTANDING_REQUESTS = 2
    Iters <- MCIters
    Nodes <- FastNodes
    memaddr_map <- FastMap
    MEM_MSHR_SIZE = 2
    Lanes = {0, 1, 2}
    num_lanes = 3
    node <- FastNode
    MEMORY_MODE = 3
    MISS_LATENCY <- MCMissLatency
    Chains <- MCChains
    instruction_list <- MCInstructions
    un_dependencies <- MCDependencies
    level <- MCLevel
    block <- MCBlock
    SCHEDULER = 1
    MaxChunks = 3
    HostRequests <- MCHostRequests
    CHUNK_LIMIT = 0
    MaxRequests = 4
INVARIANTS
    HostOwnsAnswers
    LoadedAfterPredecessorsStart
    FinishMeansAllRun
    FreeMeansDrained
PROPERTIES
    HostFinishes
    ImplementsCore
