CONSTANTS
    Installed = {10}
    Host = "app"
    Late = {"delete"}
    MaxStarts = 2
    MaxFaults = 2
SPECIFICATION FairSpec
CHECK_DEADLOCK FALSE
INVARIANTS EndpointKept OpensAgain
PROPERTIES ListedAsCurrent GroupListed
