CONSTANTS
    NodeCount = 4
    Clients = {0, 3}
    Values = {1, 2}
    Types = {"GET", "PUT", "DELETE"}
    Quorums = {2}
    MaxRequests = 2
    MaxPending = 2
    MaxCuts = 0
    MaxEarly = 0
SPECIFICATION Spec
INVARIANTS QuorumsMeet LatestWinsAtRest
PROPERTY StoredByQuorum
CHECK_DEADLOCK FALSE
