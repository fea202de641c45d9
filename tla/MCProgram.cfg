SPECIFICATION FairSpec
CONSTANTS
    Signal = {int, term}
    NLocal = 2
    Timer = 2
    NInit = 2
    None = None
CHECK_DEADLOCK FALSE
INVARIANTS
    TypeOK
    UninitOnce
    OrderlyEnd

    
