SPECIFICATION FairSpec
CONSTANTS
    Size = 2
    MaxTries = 2
    Others = {"create", "delete", "read", "link"}
INVARIANTS DoneIsWhole LinksSpared CleanedUp
PROPERTY Ends
