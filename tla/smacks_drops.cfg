SPECIFICATION FairSpec
CONSTANTS
    MaxUnacked = 2
    MaxSent = 3
    MaxPushed = 2
    MaxDrops = 3
    Forgets = TRUE
    None = None
INVARIANTS TypeOK HandledOnce SeenOnce AcksAddUp
PROPERTIES AckedWereHandled 
CHECK_DEADLOCK FALSE
