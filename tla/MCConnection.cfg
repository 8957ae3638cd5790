\* Two clients compete for one slot; peers act in any order and leave in the end.
CONSTANTS
    c1 = c1  c2 = c2
    Conns <- TwoConns
    MaxConnections = 1
    MaxExchanges = 2
SPECIFICATION FinitePeersSpec
INVARIANTS TypeOK SlotsConserved ActiveCountsOpen PolicyIsObeyed
PROPERTIES RecordedOnce UpstreamReleased TunnelFollowsClient EveryClientIsServed
CHECK_DEADLOCK FALSE
