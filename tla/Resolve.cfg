SPECIFICATION FairSpec
CONSTANTS
    V4 = {a1, a2}
    V6 = {b1}
    Deadline = 3
    Grace = 2
    MaxAddresses = 2
    MaxAnswers = 2
INVARIANTS ResultSound GraceKept CancelPrompt
PROPERTY Ends
