CONSTANTS
    NodeCount = 4
    Clients = {0, 3}
    Values = {1}
    Types = {"GET", "PUT"}
    Quorums = {2}
    MaxRequests = 1
    MaxPending = 1
    MaxCuts = 1
    MaxEarly = 1
SPECIFICATION FairSpec
INVARIANT NoKeyError
PROPERTIES Converges EventuallyAnswered
CHECK_DEADLOCK FALSE
