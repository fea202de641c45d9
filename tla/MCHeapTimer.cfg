SPECIFICATION FairSpec
CONSTANTS
    Timer <- MCTimer
    Sec <- MCSec
    Once <- MCOnce
    NoTimer = NoTimer
    MaxNode = 3
    MaxLate = 1
    Promptness = {TRUE, FALSE}
CHECK_DEADLOCK FALSE
INVARIANTS
    TypeOK
    WaitsOnce
    OnTime
PROPERTIES
    KeysFrozen
    NeverEarly
    EveryTimerIsHandled
