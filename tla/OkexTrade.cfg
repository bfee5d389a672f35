SPECIFICATION FairSpec
CONSTANTS
    o1 = o1
    o2 = o2
    x1 = x1
    x2 = x2
    Orders = {o1, o2}
    OutsideIds = {x1, x2}
    NoOid = NoOid
    NoOrder = NoOrder
    Expire = 1
    MaxTime = 4
    MaxStatus = 2
    ChanCap = 2
    LiveStatus <- MCLive
    DeadStatus <- MCDead
INVARIANTS
    IInv
    OwnIds
PROPERTIES
    ForgottenOnlyWhenFinished
    InsertAnswered
    ImplementsOrderFeed
