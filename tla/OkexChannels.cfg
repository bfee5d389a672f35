SPECIFICATION ChannelsFairSpec
CONSTANTS
    Channels <- MCChannels
    SubTopicsConf <- MCConf
    Known <- MCChannels
    Gateways <- MCGateways
    MaxCalls = 3
    MaxBreaks = 1
    MaxQueued = 3
CHECK_DEADLOCK FALSE
INVARIANTS
    Inv
    KeptThroughBreaks
PROPERTIES
    GetsSubscribed
    GoesAway
