CONSTANTS
    NUM_RANKS = 2
    NUM_BANKS = 2
    CMD_QUEUE_DEPTH = 4
    TRANS_QUEUE_DEPTH = 1
    TOTAL_ROW_ACCESSES = 2
    REFRESH_CYCLES = 30
    Addrs <- MCAddrs
    Location <- MCLocation
    T <- MCTiming
    Workloads <- MCWorkloads

SPECIFICATION Spec
INVARIANTS
    LegalSchedule
    RequestInOnePlace
    ActStaysWithColumn
    OneBurst
    RefreshNotForgotten
PROPERTIES
    RequestCompletes
