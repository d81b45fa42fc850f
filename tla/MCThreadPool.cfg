SPECIFICATION Spec
CONSTANTS
    Workers = {w1, w2}
    Clients = {c1, c2}
    MaxJobs = 3
    MayThrow = TRUE
    TaskCalls = {"add", "for_task", "for_all"}
    StrayIds = {}
SYMMETRY Symmetry
INVARIANTS
    NobodySleepsInVain
    TasksRunOnce
    ExceptionsReachOneCaller
PROPERTIES
    WaitsEndInTime
CHECK_DEADLOCK FALSE
