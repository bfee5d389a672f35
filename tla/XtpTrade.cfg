SPECIFICATION FairSpec
CONSTANTS
    Orders = {o1, o2}
    Queries = {q1, q2}
    Clients = {c1, c2}
    Kinds = {order, trade}
    NoOrder = NoOrder
    NoQuery = NoQuery
    NoWs = NoWs
    MaxMessage = 2
    MaxLogin = 2
    MaxEvent = 2
    MaxForeign = 1
    MaxRows = 1
CHECK_DEADLOCK FALSE
INVARIANTS
    Inv
    ConfirmedWithOwn
    ConfirmedBeforeStatus
PROPERTIES
    ImplementsQueryPromise
    MessageAnswered
