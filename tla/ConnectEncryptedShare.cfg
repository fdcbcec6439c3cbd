SPECIFICATION Spec
CONSTANTS
    MaxAddresses = 3
    Timeout = 3
    Attempt = 2
    MaxLegs = 2
INVARIANT ShareEncryptionHonored
