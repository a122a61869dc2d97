SPECIFICATION Spec
CONSTANTS
    a = a
    b = b
    t1 = t1
    t2 = t2
    Empty = Empty
    NoBearer = NoBearer
    Callers = {a, b}
    Tokens = {t1}
    MaxFailures = 1
INVARIANTS CachedFromSource
CHECK_DEADLOCK FALSE
