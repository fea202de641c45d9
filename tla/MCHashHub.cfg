SPECIFICATION FairSpec
CONSTANTS
    Link = {l1, l2}
    Worker = {w1, w2}
    Interval = 2
    Span = 3
    Backlog = 1
    Prompt = TRUE
    NoLink = NoLink
CHECK_DEADLOCK FALSE
INVARIANTS
    TypeOK
    NodeInOnePlace
    FreedUntouched
    CalledWhileOpen
    OneOfEach
PROPERTIES
    HubComesBy
