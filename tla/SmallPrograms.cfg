CONSTANTS
    Names = {1, 2, 3, 4, 5, 6, 7, 8}
    Hash <- DistinctHash
    Hashes = {0, 1, 2, 3, 4, 5, 6, 7, 8, 9, 10, 11, 12, 13, 14, 15, 16, 17}
    Texts = {x, y}
    MaxSent = 5
    Limit = 2
    Lossy = TRUE
    Duplicating = TRUE
    Clients = {a, b}
    NoMessage = NoMessage
    Workers = 3
    MaxMessages = 2
    MaxRestarts = 1
    Procs = {p, q, r}
    Origin = p
    Fanouts = {1, 2}
    MaxLosses = 1
    N = 3
    Users = {u, v}
    Puts <- TwoPuts
    NoValue = NoValue
    MaxFaults = 2
    MaxPings = 3
    MaxDropped = 2
    Servers = {s, t}
    Queries <- FourQueries
    Missing = Missing
    MaxLog = 3
    MaxRestores = 2
    Paths <- FewPaths
    Directory = Directory
    Empty = Empty
    Bodies = {text}
SPECIFICATION SmallSpec
INVARIANTS GivesUpOnlyAfterRun StreamsAgree NothingLost OutboxAsRead ReadsAreCurrent QuorumReadsAdvance MapFollowsLog SearchFindsOwner
PROPERTIES ImplementsOnce SpreadsAndEnds OnePongForEachPing RepliesAreTrue SplitFollowsOwner HeirOwnsAll
CHECK_DEADLOCK FALSE
