SPECIFICATION Spec
CONSTANTS
    Proc = {p0, p1, p2}
    Shell = p0
    MAX_LOCKS = 2
    Locks = {l1}
    Conds = {c1}
    Sems = {s1}
    Barriers = {b1}
    NULL = NULL
    SemVals = {1}
    Goals = {2}
INVARIANTS
    TypeOK
    MutualExclusion
    LockedIffHeld
    NoLostWakeup
    SemConserved
    BarrierConserved
CHECK_DEADLOCK FALSE
