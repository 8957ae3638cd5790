\* docs/LLD.md: a tunnel copies until one side closes.
CONSTANTS
    c1 = c1  c2 = c2
    Conns <- OneConn
    MaxConnections = 1
    MaxExchanges = 2
SPECIFICATION FairSpec
PROPERTY TunnelUntilOneSideCloses
CHECK_DEADLOCK FALSE
