SPECIFICATION MSpec
CONSTANTS
    Proc = {p0, p1, p2}
    Shell = p0
    MAX_LOCKS = 1
    Locks <- MCLocks
    Conds <- MCConds
    Sems = {}
    Barriers = {}
    NULL = NULL
    SemVals = {}
    Goals = {}
    MaxBox = 1
    MAILBOX_SIZE = 2
    Names = {n1}
    Mails <- MCMails
    MaxSends = 3
    MaxLong = 1
INVARIANTS
    Fifo
    Accounted
    NoneForgotten
PROPERTIES
    Served
