SPECIFICATION FairSpec
CONSTANTS
    Message = {m1}
    TransferID = {t1, t2}
    None = None
    Parts = 2
    MaxTime = 1
    MaxOpens = 2
    MaxFaults = 0

CHECK_DEADLOCK FALSE
PROPERTY ResentAfterBreak
