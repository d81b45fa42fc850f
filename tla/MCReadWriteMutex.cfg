SPECIFICATION FairSpec
CONSTANTS
    Threads = {t1, t2, t3, t4}
    MaxLocks = 2
INVARIANTS
    NobodySleepsInVain
PROPERTIES
    ImplementsRWLock
    WriterGetsThrough
