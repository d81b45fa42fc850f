SPECIFICATION LoopSpec
CONSTANTS
    Workers = {w1, w2}
    Clients = {c1}
    MaxJobs = 3
    MayThrow = TRUE
    TaskCalls = {"add", "for_all"}
    StrayIds = {}
    Nums = {5}
    chunks_per_thread = 1
INVARIANTS
    HelperOutlivesTasks
CHECK_DEADLOCK FALSE
