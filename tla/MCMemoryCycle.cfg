SPECIFICATION FairSpec
CONSTANTS
    Lines <- MCLines
    OUTSTANDING_REQUESTS = 2
    Iters <- MCIters
    Nodes <- MCNodes
    memaddr_map <- MCmemaddr_map
    MEM_MSHR_SIZE = 3
INVARIANTS
    CountMatchesTables
    ResponseFindsIssued
    IssuedInOrder
    IssuedMatchesRuby
    MshrConserved
PROPERTIES
    EveryAccessAnswered
