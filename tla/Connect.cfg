SPECIFICATION FairSpec
CONSTANTS
    MaxAddresses = 3
    Timeout = 3
    Attempt = 2
    MaxLegs = 2
INVARIANTS RejectionReported EveryAddressTried PolicyHeld
PROPERTY Ends
