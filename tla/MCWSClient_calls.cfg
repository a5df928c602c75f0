CONSTANTS
    Call = {c1, c2}
    Connector = {loop, dialer}
    MaxSocks = 3
    MaxFaults = 2
SPECIFICATION FairSpec
CHECK_DEADLOCK FALSE
INVARIANTS OneSocket NoAnswerLost
PROPERTY Reconnects
PROPERTY RelaysAsPromised
