SPECIFICATION Spec
CONSTANTS
    Producers = {p1}
    Consumers = {c1}
    Watchers = {w1}
    Items = {a}
    Blank = blank
    Num = 1
    Uses <- Drained
INVARIANTS
    DrainEndsWithDequeue
CHECK_DEADLOCK FALSE
