SPECIFICATION LoopFairSpec
CONSTANTS
    Workers = {w1, w2}
    Clients = {c1}
    MaxJobs = 4
    MayThrow = TRUE
    TaskCalls = {"add", "for_all"}
    StrayIds = {}
    Nums = {1, 2, 5}
    chunks_per_thread = 1
INVARIANTS
    EveryIndexOnce
    OneHelperPerException
PROPERTIES
    LoopsEnd
CHECK_DEADLOCK FALSE
