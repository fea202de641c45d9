SPECIFICATION FairSpec
CONSTANTS
    NoNode = NoNode
    TgCount <- OnePoolOfTwo
    NGroup = 1
    ExecFunc = {0}
    GroupFunc = {}
    Node = {n1, n2}
    WaitSec = 1
PROPERTIES
    SubmittedReturns
    ExitEndsThreads
    ShutdownEnds
