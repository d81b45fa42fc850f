SPECIFICATION Spec
CONSTANTS
    Producers = {p1}
    Consumers = {c1, c2}
    Watchers = {w1}
    Items = {a}
    Blank = blank
    Num = 1
    Uses <- Blocked
INVARIANTS
    EnoughDequeuesAreNoticed
CHECK_DEADLOCK FALSE
