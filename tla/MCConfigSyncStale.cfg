\* docs/LLD.md: the next connection sees the new rule.
CONSTANTS
    a = a  b = b  sealed = sealed  h1 = h1  h2 = h2  NoCA = NoCA
    CAs <- TwoReadable
    Readable <- TwoReadable
    Hosts <- TwoHosts
    CacheSize = 1
    MaxAttempts = 2
    MaxWrites = 1
    MaxRestarts = 0
SPECIFICATION Spec
PROPERTIES SnapshotNeverGoesBack
CHECK_DEADLOCK FALSE
