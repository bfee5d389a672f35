SPECIFICATION FairSpec
CONSTANTS
    SymbolOrder <- MCSymbolOrder
    Exchanges <- MCExchanges
    Unknown = Unknown
    Listed <- MCListed
    Streams <- MCStreams
    MaxCalls = 2
    MaxLosses = 1
CHECK_DEADLOCK FALSE
INVARIANTS
    Inv
    ExchangeIsKnown
    StreamsTogether
PROPERTIES
    GetsSubscribed
