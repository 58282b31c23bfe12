SPECIFICATION ShellSpec
CONSTANTS
    s1 = s1
    s2 = s2
    s3 = s3
    path = path
    home = home
    good = good
    bad = bad
    root = root
    sub = sub
    outside = outside
    Callers = {c1, c2}
    Ids <- MCIds
    NoId = NoId
    TTLs <- MCNoChange
    Limits <- MCNoChange
    DefaultTTL = 1
    DefaultMax = 1
    MaxTime = 2
    Requests <- MCRequests
    Keys = {path, home}
    Values = {good, bad}
    BadValue = bad
    Unset = Unset
    Dirs = {root, sub, outside}
    OutsideDir = outside
    NoDir = NoDir
    BaseDir = root
    MaxCommands = 2
    MaxCalls = 3
INVARIANTS ShellTypeOK NoLeakOnError OnlyValidSettings ResultsExplainOutcome
PROPERTIES EnvOnlyMerged OnlyOwnUndone
CHECK_DEADLOCK FALSE
