SPECIFICATION BSpec
CONSTANTS
    NTASK = 4
    MAX_LOCKS = 2
    HIGHEST_PRIORITY = 2
    Locks = {}
    Conds = {}
    Sems = {}
    Barriers = {b1}
    NULL = NULL
    Prios = {1}
    SleepTimes = {1, 3}
    SemVals = {}
    Goals = {}
    LimitBound = 0
    ClearsOwnSlots = FALSE
    Rounds = 3
    Rest = {1, 3}
INVARIANTS
    RoundsInStep
PROPERTIES
    OpensFull
CHECK_DEADLOCK FALSE
