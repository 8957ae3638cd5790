\* LLD: queued records are not thrown away by a stop.
CONSTANTS
    r1 = r1  r2 = r2  r3 = r3  w1 = w1  w2 = w2  k1 = k1
    NoRule = NoRule
    Records <- MCTwoRecords
    Workers <- MCOneWorker
    Bodies <- MCBodies
    Rules <- MCRules
    RuleOf <- MCRuleOf
    Faults <- NoFaults
    QueueSize = 2
    BatchSize = 2
SPECIFICATION Spec
INVARIANT QueuedRecordsAreFlushed
CHECK_DEADLOCK FALSE
