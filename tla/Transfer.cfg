SPECIFICATION Spec
CONSTANTS
    Depth = 2
    Size = 2
    MaxVersions = 3
    MaxOps = 2
INVARIANTS InsideOnly Whole
PROPERTY OpEnds
CHECK_DEADLOCK FALSE
