SPECIFICATION Spec
CONSTANTS
    p1 = p1
    p2 = p2
    p3 = p3
    me = me
    m1 = m1
    a1 = a1
    c1 = c1
    c2 = c2
    kMe = kMe
    kTo = kTo
    kOther = kOther
    kGroup = kGroup
    noKey = noKey
    Peer = {p2}
    Self = me
    Key <- Keys
    SelfKey = kMe
    KeyOf <- WithMember
    MembersOf <- OneMembersOf
    Message <- OneMessage
    File <- OneFiles
    Chunk = {c1, c2}
    MsgOf <- OneMsgOf
    FileOf <- OneFileOf
    TextFile <- OneTextFile
    RecipientOf <- OneRecipientOf
    Legacy = {}
    TTLs = {1}
    DefaultTTL = 2
    BatchSize = 1
    r1 = r1
    r2 = r2
    ReqId = {r1, r2}
    NoReq = NoReq
    MaxTime = 2
    MaxFaults = 2
SYMMETRY ReqSymmetry
CHECK_DEADLOCK FALSE
INVARIANTS PlacedIsHeld EveryCopyIsListed SenderServes
PROPERTY KeepsPromise
