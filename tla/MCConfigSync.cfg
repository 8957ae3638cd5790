\* Timer, listener, API, a failing database and a restart, in any order.
CONSTANTS
    a = a  b = b  sealed = sealed  h1 = h1  h2 = h2  NoCA = NoCA
    CAs <- WithSealed
    Readable <- TwoReadable
    Hosts <- TwoHosts
    CacheSize = 1
    MaxAttempts = 2
    MaxWrites = 2
    MaxRestarts = 1
SPECIFICATION FairSpec
INVARIANTS TypeOK CacheIsCoherent ServingHasPolicy
PROPERTIES NeverUnloaded StartupEnds Converges
CHECK_DEADLOCK FALSE
