SPECIFICATION Spec
CONSTANTS
    Conns = {c1, c2}
    Ids <- MCOneId
    IdOf <- MCOneIdOf
    Denied = {}
    NoConn = NoConn
    QueueCap = 1
    RenewalEnabled = FALSE
    Window = 1
    MaxDown = 1
    MaxUp = 1
    MaxTicks = 0
CHECK_DEADLOCK FALSE
SYMMETRY MCSymmetry
INVARIANTS NoCrossTalk WireProtocol Registered
PROPERTY ServesSessions
