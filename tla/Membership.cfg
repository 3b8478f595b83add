CONSTANTS
    Procs = {a, b, c}
    Unsteady = {b}
    Disturbances = {"leave", "early", "crash", "cut", "loss", "hasty"}
    MaxRounds = 1
    MaxDisturbances = 1
SPECIFICATION FairSpec
INVARIANT NoFalseSuspicion
PROPERTIES VersionsGrow Converges
CHECK_DEADLOCK FALSE
