SPECIFICATION FairSpec
CONSTANTS
    Routes <- MCRoutes
    MaxProxies = 2
    HostnameLength = 1
    ReplyLengths = {0, 1}
    MaxTunnelBytes = 2
    IoErrors = TRUE
INVARIANTS
    StreamAligned
    RequestsInOrder
    VerdictHonest
PROPERTY ConnectReturns
CHECK_DEADLOCK FALSE
