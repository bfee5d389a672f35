SPECIFICATION Spec
CONSTANTS
    o1 = o1
    o2 = o2
    x1 = x1
    x2 = x2
    Orders = {o1, o2}
    SysIds = {x1, x2}
    NoSys = NoSys
    NoOrder = NoOrder
    Keep = 0
    CleanEvery = 2
    Status <- MCStatus
    Submit <- MCSubmit
    MaxSession = 2
    MaxNotify = 3
    MaxTime = 2
SYMMETRY MCSymmetry
CHECK_DEADLOCK FALSE
INVARIANTS
    Inv
    ConfirmedInSession
PROPERTIES
    ForgottenWhenOver
