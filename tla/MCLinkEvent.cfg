SPECIFICATION FairSpec
CONSTANTS
    Link = {l1}
    Fd = {f1}
    Packet = {p1, p2}
    Sender = {s1}
    Receiver = {r1}
    Handler = {h1}
    Backlog = 1
    None = None
CHECK_DEADLOCK FALSE
PROPERTY
    EventIsKept
