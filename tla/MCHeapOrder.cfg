SPECIFICATION Spec
CONSTANTS
    Item <- MCItem
    Rank <- MCRank
    NoItem = NoItem
    MaxNode = 7
CHECK_DEADLOCK FALSE
INVARIANTS
    RootIsLeast
