SPECIFICATION Spec
CONSTANTS
    Conns = {c1}
    Ids <- MCOwnIds
    IdOf <- MCOwnIdOf
    Denied = {}
    NoConn = NoConn
    QueueCap = 2
    RenewalEnabled = TRUE
    Window = 2
    MaxDown = 3
    MaxUp = 2
    MaxTicks = 1
CHECK_DEADLOCK FALSE
INVARIANTS TypeOK NoSocketLeak
PROPERTY ServesSessions
