CONSTANTS
    Workers = 2
    QueueSize = 1
    Reqs = 4
    OwnerOf <- ThreeAndOne
    Apart = {1, 2}
    Stopping = {1}
    MaxTries = 1
    Slow = {4}
SPECIFICATION FairSpec
CHECK_DEADLOCK FALSE
INVARIANTS StoreOutlivesWork NotAllWait
PROPERTY Settles
