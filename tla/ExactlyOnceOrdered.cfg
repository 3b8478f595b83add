CONSTANTS
    Texts = {a, b}
    MaxMessages = 3
    Limit = 1
    Lossy = TRUE
    Duplicating = TRUE
SPECIFICATION FairSpec
INVARIANTS ForgottenOnlyIfReceived HeldBackOnlyBehindGap
PROPERTY ImplementsFairChannel
CHECK_DEADLOCK FALSE
