SPECIFICATION FairSpec
CONSTANTS
    f1 = f1
    n1 = n1
    File = {f1}
    Name = {n1}
    NameOf <- OneFile
    TotalChunks = 2
    Answers = {"good", "bad"}
    TTL = 1
    MaxTime = 2
    MaxFaults = 2
    MaxErrors = 1
CHECK_DEADLOCK FALSE
INVARIANTS CompletedIsThere ContextsEnd
PROPERTIES EventuallySettled CancelIsFinal NeverForgotten
