CONSTANTS
    NodeCount = 4
    Clients = {3}
    Values = {1}
    Types = {"PUT"}
    Quorums = {1}
    MaxRequests = 2
    MaxPending = 1
    MaxCuts = 1
    MaxEarly = 0
SPECIFICATION Spec
INVARIANT LatestWinsAtRest
CHECK_DEADLOCK FALSE
