SPECIFICATION StraySpec
CONSTANTS
    Threads = {t1, t2, t3, t4}
    MaxLocks = 2
PROPERTIES
    StrayUnlockHasNoEffect
