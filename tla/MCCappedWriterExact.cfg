SPECIFICATION Spec
CONSTANTS
    Byte <- MCByte
    Zero = 0
    MinCap = 2
    MaxCap = 4
    Requested <- MCRequested
    MaxWrite = 5
    MaxTotal = 10
INVARIANT NoFalseAlarm
CHECK_DEADLOCK FALSE
