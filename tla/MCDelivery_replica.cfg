SPECIFICATION FairSpec
CONSTANTS
    p1 = p1
    p2 = p2
    p3 = p3
    me = me
    m1 = m1
    a1 = a1
    c1 = c1
    c2 = c2
    kMe = kMe
    kTo = kTo
    kOther = kOther
    kGroup = kGroup
    noKey = noKey
    Peer = {p1, p2, p3}
    Self = me
    Key <- Keys
    SelfKey = kMe
    KeyOf <- WithReplica
    MembersOf <- OneMembersOf
    Message <- OneMessage
    File <- ShortFiles
    Chunk = {c1}
    MsgOf <- ShortMsgOf
    FileOf <- ShortMsgOf
    TextFile <- OneTextFile
    RecipientOf <- ShortRecipientOf
    Legacy = {p1}
    TTLs = {0}
    DefaultTTL = 1
    BatchSize = 1
    r1 = r1
    r2 = r2
    ReqId = {r1, r2}
    NoReq = NoReq
    MaxTime = 2
    MaxFaults = 1
CHECK_DEADLOCK FALSE
INVARIANT PlacedIsHeld
PROPERTIES EventuallyPlaced OwnCopyEventuallyListed
