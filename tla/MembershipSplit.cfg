CONSTANTS
    Procs = {a, b, c}
    Unsteady = {}
    Disturbances = {"loss", "hasty"}
    MaxRounds = 1
    MaxDisturbances = 2
SPECIFICATION FairSpec
PROPERTY Converges
CHECK_DEADLOCK FALSE
