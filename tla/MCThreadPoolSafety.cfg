SPECIFICATION Spec
CONSTANTS
    NoNode = NoNode
    TgCount <- OnePoolOfTwo
    NGroup = 1
    ExecFunc = {0}
    GroupFunc = {0}
    Node = {n1, n2, n3}
    WaitSec = 1
INVARIANTS
    TypeOK
    NodeInOnePlace
    ExitAccountsForNodes
    SubmissionOrder
    CountIsLive
PROPERTY
    KeepsPromise
