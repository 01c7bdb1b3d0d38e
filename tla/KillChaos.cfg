SPECIFICATION KillSpec
CONSTANTS
    NTASK = 3
    MAX_LOCKS = 1
    HIGHEST_PRIORITY = 3
    Locks = {l1}
    Conds = {}
    Sems = {}
    Barriers = {}
    NULL = NULL
    Prios = {1}
    SleepTimes = {1}
    SemVals = {}
    Goals = {}
    LimitBound = 0
    ClearsOwnSlots = FALSE
    ExitHolding = TRUE
INVARIANTS
    LinkedOnce
    ExitIsFinal
    PickAgrees
CHECK_DEADLOCK FALSE
