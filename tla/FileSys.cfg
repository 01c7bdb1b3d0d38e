SPECIFICATION Spec
CONSTANTS
    NI = 5
    PER = 5
    FIT = 4
    NB = 6
    RESERVED = 2
    ROOTBLOCK = 1
    NCELL = 4
    Names = {"a", "b"}
    PlaneName = "b"
    Plane <- MCPlane
    CdPaths <- MCCdPaths
    MaxCalls = 6
    MaxBoots = 1
INVARIANTS
    CountAgrees
    EntriesWhole
    BlocksPrivate
    PathAgrees
    Durable
PROPERTIES
    MakesTyped
    Promise
CHECK_DEADLOCK FALSE
