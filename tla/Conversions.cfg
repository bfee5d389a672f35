SPECIFICATION ConversionsSpec
CONSTANTS
    Words <- MCWords
    Orders <- MCOrders
    Foreign <- MCForeign
    Ids <- MCIds
    Quotes <- MCQuotes
    Digits <- MCDigits
    Investor <- MCInvestor
    Day <- MCDay
    None = None
CHECK_DEADLOCK FALSE
INVARIANTS
    NoticeIsTrue
    PlacedAsMeant
    NoticeIsTheOrder
    CancelNamesOrder
    TopicIsOwn
