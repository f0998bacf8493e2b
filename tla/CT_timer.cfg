CONSTANTS
    AckTimeout = 2
    Limits = {1, 3, 4, 9}
SPECIFICATION FairSpec
INVARIANTS TypeOK SpacedOut GivenUpLate AllAttempts InTime
PROPERTY Ends
CHECK_DEADLOCK FALSE
