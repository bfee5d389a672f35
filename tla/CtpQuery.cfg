SPECIFICATION FairSpecUp
CONSTANTS
    c1 = c1
    c2 = c2
    q1 = q1
    q2 = q2
    order = order
    Clients = {c1, c2}
    Queries = {q1, q2}
    Kinds = {order}
    TradingDay = TradingDay
    NoQuery = NoQuery
    NoWs = NoWs
    FirstId = 1
    MaxLogin = 2
    MaxRows = 1
INVARIANTS
    Inv
    AnswersAsker
PROPERTIES
    QueryAnswered
