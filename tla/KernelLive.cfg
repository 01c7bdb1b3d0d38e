SPECIFICATION LiveSpec
CONSTANTS
    NTASK = 3
    MAX_LOCKS = 1
    HIGHEST_PRIORITY = 2
    Locks = {l1}
    Conds = {c1}
    Sems = {}
    Barriers = {b1}
    NULL = NULL
    Prios = {1}
    SleepTimes = {0, 1}
    SemVals = {}
    Goals = {2}
    LimitBound = 0
    ClearsOwnSlots = FALSE
    ExitHolding = FALSE
PROPERTIES
    ReadyRuns
    SleepEnds
    SyncSpec
