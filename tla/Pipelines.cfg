SPECIFICATION Spec
CONSTANTS
    Slot = {s1, s2}
    Handle = {h1}
    NoHandle = NoHandle
    Pipe = Pipe
    MaxStarts = 3
    MaxBatches = 2
INVARIANTS ToldOnce RecordLives FirstFailureReported ListingWhole
PROPERTY EndsTold
CHECK_DEADLOCK FALSE
