SPECIFICATION InTurnSpec
CONSTANTS
    Callers = {c1, c2}
    Ids = {s1, s2, s3}
    NoId = NoId
    TTLs <- MCTTLs
    Limits <- MCLimits
    DefaultTTL = 1
    DefaultMax = 2
    MaxTime = 2
SYMMETRY Symmetry
INVARIANTS TypeOK MapMatchesList ClosedExactlyWhenGone SizeWithinLimit OldestAtBackInTurn
PROPERTIES EvictionJustified DirectorySpec NoExpiredHitInTurn
CHECK_DEADLOCK FALSE
