SPECIFICATION FairSpec
CONSTANTS
    MaxPdu = 3
    MaxChain = 1
    Charges = {0, 1}
    Grants = {0, 1}
    MaxCredits = 2
    Timeout = 1
    CallerFrees = "no"
INVARIANTS NoDangling NothingLost
PROPERTIES Implements QueuedSettles
