SPECIFICATION DSpec
CONSTANTS
    NTASK = 3
    MAX_LOCKS = 1
    HIGHEST_PRIORITY = 1
    Locks = {}
    Conds = {recv_block_queue}
    Sems = {}
    Barriers = {}
    NULL = NULL
    Prios = {1}
    SleepTimes = {}
    SemVals = {}
    Goals = {}
    LimitBound = 0
    ClearsOwnSlots = TRUE
    recv_block_queue = recv_block_queue
    PNUM = 8
    NUM_DMA_DESC = 2
    MaxExec = 2
    Foreign = {1}
    Slack = 2
INVARIANTS
    CountsPackets
    IndexInRing
PROPERTIES
    FileInOrder
    Finishes
CHECK_DEADLOCK FALSE
