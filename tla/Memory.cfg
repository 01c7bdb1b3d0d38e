SPECIFICATION Spec
CONSTANTS
    NTASK = 3
    NPAGE = 11
    RESERVED = 2
    NTLB = 2
    MAX_LOCKS = 3
    PIDS = 5
    MaxPid = 6
    MaxAgain = 1
INVARIANTS
    TypeOK
    PagesOwned
    Isolated
    OwnStack
    CodeKept
CHECK_DEADLOCK FALSE
