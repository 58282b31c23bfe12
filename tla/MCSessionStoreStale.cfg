SPECIFICATION InTurnSpec
CONSTANTS
    Callers = {c1, c2}
    Ids = {s1, s2}
    NoId = NoId
    TTLs <- NoChange
    Limits <- NoChange
    DefaultTTL = 1
    DefaultMax = 2
    MaxTime = 2
INVARIANT OldestAtBack
CHECK_DEADLOCK FALSE
