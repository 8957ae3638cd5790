\* Three records, two workers, every service may fail at any time, one rule may be deleted.
CONSTANTS
    r1 = r1  r2 = r2  r3 = r3  w1 = w1  w2 = w2  k1 = k1
    NoRule = NoRule
    Records <- MCRecords
    Workers <- MCWorkers
    Bodies <- MCBodies
    Rules <- MCRules
    RuleOf <- MCRuleOf
    Faults <- AllFaults
    QueueSize = 2
    BatchSize = 2
SPECIFICATION FairShutdownSpec
INVARIANTS TypeOK SingleOwner LiveAfterCommit RefsResolve WrittenNeverOverstates ClosedIsQuiet
PROPERTIES CancelFlushesBatch ImplementsLog AcceptedIsSettled ShutdownCompletes
CHECK_DEADLOCK FALSE
