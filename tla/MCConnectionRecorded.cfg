\* proxy.py: every transaction is teed to the capture pipeline.
CONSTANTS
    c1 = c1  c2 = c2
    Conns <- OneConn
    MaxConnections = 1
    MaxExchanges = 2
SPECIFICATION Spec
INVARIANT EveryTransactionRecorded
CHECK_DEADLOCK FALSE
