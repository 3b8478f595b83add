CONSTANTS
    Procs = {p1, p2, p3}
    Quotas <- OneMessage
SPECIFICATION FairSpec
INVARIANT RelayingBounded
PROPERTIES UniformAgreement Validity
CHECK_DEADLOCK FALSE
