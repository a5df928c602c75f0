CONSTANTS
    Node = {1, 2}
    Caller = {c1}
    MaxConns = 3
    MaxFaults = 1
SPECIFICATION FairSpec
CHECK_DEADLOCK FALSE
INVARIANT ChannelIsCurrent
INVARIANT NoStrayConnection
INVARIANT GlareResolves
PROPERTY OpensOrGoes
