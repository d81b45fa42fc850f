SPECIFICATION Spec
CONSTANTS
    Producers = {p1, p2}
    Consumers = {c1, c2}
    Watchers = {w1, w2}
    Items = {a, b}
    Blank = blank
    Num = 1
    Uses <- MCUses
SYMMETRY Symmetry
INVARIANTS
    EveryItemHasATaker
    NobodySleepsInVain
    NobodyInsideAtDelete
PROPERTIES
    ImplementsFifo
CHECK_DEADLOCK FALSE
