SPECIFICATION Spec
CONSTANTS
    o1 = o1
    o2 = o2
    x1 = x1
    x2 = x2
    Orders = {o1}
    SysIds = {x1}
    NoSys = NoSys
    NoOrder = NoOrder
    Keep = 1
    CleanEvery = 2
    Status <- MCStatus
    Submit <- MCSubmit
    MaxSession = 2
    MaxNotify = 2
    MaxTime = 3
SYMMETRY MCSymmetry
CHECK_DEADLOCK FALSE
INVARIANT ConfirmedBeforeStatus
