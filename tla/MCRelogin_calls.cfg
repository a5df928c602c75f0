SPECIFICATION FairSpec
CONSTANTS
    p1 = p1
    p2 = p2
    Peer = {p1, p2}
    Legacy = {p2}
    Attempt = {1, 2, 3}
    SourceOf <- ThereAndBack
    Version = {1, 2}
    Count <- Growing
    MaxFaults = 1
    MaxErrors = 1
CHECK_DEADLOCK FALSE
INVARIANTS IdentityWhole ImportsAreWhole ImportBeforeIdentity
PROPERTIES EventuallyFree SuccessIsWhole
