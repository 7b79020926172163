SPECIFICATION FairSpec
CONSTANTS
    Conns = {c1, c2}
    Ids <- MCOwnIds
    IdOf <- MCOwnIdOf
    Denied = {c2}
    NoConn = NoConn
    QueueCap = 1
    RenewalEnabled = FALSE
    Window = 1
    MaxDown = 1
    MaxUp = 1
    MaxTicks = 0
CHECK_DEADLOCK FALSE
PROPERTIES RequestAnswered CloseIsReported DestroyHonoured LinkLossEndsRunOrStuck ShutdownDrainsOrLate ServesSessions
