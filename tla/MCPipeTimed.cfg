SPECIFICATION FairSpec
CONSTANTS
    Producers = {p1}
    Consumers = {c1}
    Watchers = {}
    Items = {a}
    Blank = blank
    Num = 1
    Uses <- HandOver
PROPERTIES
    TimedEnqueueReturns
CHECK_DEADLOCK FALSE
