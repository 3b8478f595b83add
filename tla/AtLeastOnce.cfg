CONSTANTS
    Texts = {a, b}
    MaxMessages = 3
    Lossy = TRUE
    Duplicating = TRUE
SPECIFICATION FairSpec
INVARIANT ForgottenOnlyIfDelivered
PROPERTY EventuallyDelivered
CHECK_DEADLOCK FALSE
