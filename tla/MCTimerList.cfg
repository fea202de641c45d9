SPECIFICATION FairSpec
CONSTANTS
    Link = {l1, l2, l3}
    Batch <- MCBatch
    NoBatch = NoBatch
    Prompt = TRUE
CHECK_DEADLOCK FALSE
INVARIANTS
    TypeOK
    OneTimer
    EntryInOnePlace
    FreedIsEmpty
PROPERTIES
    EveryLinkIsChecked
    EmptyBatchIsFreed
