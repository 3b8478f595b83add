CONSTANTS
    Initial = {2, 6}
    Spare = {0, 4}
    Keys = {1, 5, 7}
    Values = {v, w}
    Absent = Absent
    MaxRequests = 2
    MaxChanges = 2
    MaxCrashes = 1
    Overlapping = FALSE
SPECIFICATION Spec
SYMMETRY Symmetry
INVARIANTS SingleCopy PlacedWhenSettled
PROPERTY ImplementsMap
CHECK_DEADLOCK FALSE
