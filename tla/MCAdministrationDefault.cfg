\* A proxy whose default decision is to keep bodies, as its settings allow.
CONSTANTS
    Handlers = {h1, h2}
    Emails = {root, other}
    Root = root
    Passwords = {p1, p2}
    MaxRequests = 3
    Replicas = {r1, r2}
    SeedDefaults = TRUE
    MaxStarts = 3
    CAs = {a, b, c}
    CaHandlers = {h1, h2}
    MaxCaRequests = 5
    Ids = {1, 2, 3}
    RuleHandlers = {h1, h2}
    MaxRuleRequests = 4
    Payloads <- SomePayloads
    Changes <- SomeChanges
    Queries <- SomeQueries
    Glob <- SomeGlob
    Net <- SomeNet
    DefaultAction = "intercept"
    DefaultCapture = TRUE
SPECIFICATION MCSpec
SYMMETRY Symmetry
INVARIANTS DryRunMirrors
CHECK_DEADLOCK FALSE
