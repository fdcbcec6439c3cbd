SPECIFICATION Spec
CONSTANTS
    MaxPdu = 3
    MaxChain = 3
    Charges = {0, 1}
    Grants = {0, 2}
    MaxCredits = 3
    Timeout = 0
    CallerFrees = "after"
INVARIANTS CompoundOrderInService OwnedLive
PROPERTY FramesWhole
