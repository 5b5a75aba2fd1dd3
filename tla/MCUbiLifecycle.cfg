SPECIFICATION FairSpec
CONSTANTS
    b1 = b1
    b2 = b2
    None = None
    Disk <- ThreeDisks
    Base <- TwoBases
    Thread = {t1}
    Deletion <- OneDeletion
    Faults = {"decode", "alloc", "layout", "create_ch", "read_submit", "metadata", "channel"}
INVARIANTS FreedIsForgotten OneOwnerPerBase AnswerOwed
PROPERTIES RemovalCompletes DeletedIsFreed RequestsAnswered
CHECK_DEADLOCK FALSE
