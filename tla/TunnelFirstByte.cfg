SPECIFICATION Spec
CONSTANTS
    Conns = {c1}
    Ids <- MCOwnIds
    IdOf <- MCOwnIdOf
    Denied = {}
    NoConn = NoConn
    QueueCap = 1
    RenewalEnabled = FALSE
    Window = 2
    MaxDown = 2
    MaxUp = 1
    MaxTicks = 0
CHECK_DEADLOCK FALSE
INVARIANT StreamStartsAtFirstByte
