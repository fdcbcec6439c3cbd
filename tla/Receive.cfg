SPECIFICATION FairSpec
CONSTANTS
    SPL_SIZE = 1
    Hdr = 2
    Trfm = 1
    Ids = {1, 2}
    Unknown = 3
    Frames <- AllFrames
    MaxFrames = 2
INVARIANTS Aligned NothingSkipped
PROPERTIES Protected EveryFrameEnds
