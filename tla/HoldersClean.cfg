SPECIFICATION HolderSpec
CONSTANTS
    NTASK = 3
    MAX_LOCKS = 1
    HIGHEST_PRIORITY = 2
    Locks = {l1, l2}
    Conds = {}
    Sems = {s1}
    Barriers = {}
    NULL = NULL
    Prios = {1}
    SleepTimes = {}
    SemVals = {2}
    Goals = {}
    LimitBound = 2
    ClearsOwnSlots = TRUE
    ExitHolding = TRUE
INVARIANTS
    HolderKeepsLock
PROPERTIES
    SyncSpec
