SPECIFICATION Spec
CONSTANTS
    Workers = {w1}
    Clients = {c1}
    MaxJobs = 1
    MayThrow = FALSE
    TaskCalls = {}
    StrayIds = {0}
INVARIANTS
    UnknownIdsReturn
CHECK_DEADLOCK FALSE
