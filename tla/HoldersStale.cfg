SPECIFICATION HolderSpec
CONSTANTS
    NTASK = 4
    MAX_LOCKS = 2
    HIGHEST_PRIORITY = 2
    Locks = {l1}
    Conds = {}
    Sems = {}
    Barriers = {}
    NULL = NULL
    Prios = {1}
    SleepTimes = {}
    SemVals = {}
    Goals = {}
    LimitBound = 0
    ClearsOwnSlots = FALSE
    ExitHolding = TRUE
INVARIANTS
    HolderKeepsLock
