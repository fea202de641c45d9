SPECIFICATION Spec
CONSTANTS
    Link = {l1, l2}
    Fd = {f1}
    Packet = {p1, p2}
    Sender = {s1, s2}
    Receiver = {r1}
    Handler = {h1}
    Backlog = 1
    None = None
SYMMETRY Interchangeable
CHECK_DEADLOCK FALSE
INVARIANTS
    TypeOK
    OwnSocket
    NoCrossTalk
    NotOvertaken
    ClosedOnce
