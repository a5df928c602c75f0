SPECIFICATION FairSpec
CONSTANTS
    m1 = m1
    x1 = x1
    x2 = x2
    c1 = c1
    c2 = c2
    Message <- OneMessage
    Chunk = {x1}
    MsgOf <- ShortMsgOf
    Readable <- OneMessage
    Direct = {m1}
    Checker = {c1, c2}
    Loop = c1
    NoMsg = NoMsg
    TTLs = {2}
    MaxTime = 2
    MaxFaults = 2
CHECK_DEADLOCK FALSE
INVARIANTS NothingSkipped PublishedOnce
PROPERTIES RetryKept EventuallySaved
