SPECIFICATION Spec
CONSTANTS
    Timer <- MCTimer
    Sec <- MCSec
    Once <- MCOnce
    NoTimer = NoTimer
    MaxNode = 3
    MaxLate = 1
    Promptness = {FALSE}
CHECK_DEADLOCK FALSE
INVARIANT
    NeverDropped
