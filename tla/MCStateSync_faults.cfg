SPECIFICATION FairSpec
CONSTANTS
    Message = {m1}
    TransferID = {t1, t2}
    None = None
    Parts = 1
    MaxTime = 2
    MaxOpens = 1
    MaxFaults = 1
CHECK_DEADLOCK FALSE
INVARIANTS CursorSafe CleanWhenDown
PROPERTIES FirstChannelExchanges
