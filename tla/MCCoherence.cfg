CONSTANTS
    p1 = p1
    p2 = p2
    a1 = a1
    a2 = a2
    Procs = {p1, p2}
    Addrs = {a1, a2}
    Workloads <- MCWorkloads
    L1_WAYS = 1
    L2_WAYS = 1
    OUTSTANDING_REQUESTS = 1
SPECIFICATION Spec
INVARIANTS
    TypeOK
    NoInvalidTransition
    Coherent
    UnwrittenStoreKept
    RequestInOnePlace
    OneMemoryOp
PROPERTIES
    CleanReplacementIsClean
