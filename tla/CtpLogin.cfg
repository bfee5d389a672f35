SPECIFICATION FairSpec
CONSTANTS
    Retries = 3
    MaxRefused = 5
    MaxBreaks = 2
    MaxSession = 8
CHECK_DEADLOCK FALSE
INVARIANTS
    Inv
    GivesUpAfterRetries
PROPERTIES
    LoginDecided
