CONSTANTS
    Texts = {a}
    MaxMessages = 3
    Limit = 1
    Lossy = TRUE
    Duplicating = TRUE
SPECIFICATION FairSpec
INVARIANTS ReceiverMemoryBounded WindowNeverStuck
PROPERTIES ImplementsOnce Quiesces
CHECK_DEADLOCK FALSE
