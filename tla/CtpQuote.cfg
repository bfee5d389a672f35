SPECIFICATION FairSpec
CONSTANTS
    TopicOrder <- MCThreeTopics
    Listed = {"rb1901"}
    BatchMax = 2
    MaxCalls = 2
    MaxLosses = 2
CHECK_DEADLOCK FALSE
INVARIANTS
    Inv
PROPERTIES
    GetsSubscribed
