SPECIFICATION Spec
CONSTANTS
    Lines = {0, 64}
    OUTSTANDING_REQUESTS = 16
    Iters <- MCIters
    Nodes <- FastNodes
    memaddr_map <- FastMap
    MEM_MSHR_SIZE = 2
    Lanes = {0, 1, 2}
    num_lanes = 3
    node <- FastNode
    MEMORY_MODE = 3
    MISS_LATENCY <- MCMissLatency
    Chains <- MCChains
    instruction_list <- MCInstructions
    un_dependencies <- MCDependencies
    level <- MCLevel
    block <- MCBlock
    SCHEDULER = 0
    MaxChunks = 1
INVARIANT
    LoadedAfterPredecessorsComplete
