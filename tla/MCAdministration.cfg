\* Two requests at a time: three about users while two replicas start, five about three
\* authorities, four about three rules.
CONSTANTS
    Handlers = {h1, h2}
    Emails = {root, other}
    Root = root
    Passwords = {p1, p2}
    MaxRequests = 3
    Replicas = {r1, r2}
    SeedDefaults = TRUE
    MaxStarts = 3
    CAs = {a, b, c}
    CaHandlers = {h1, h2}
    MaxCaRequests = 5
    Ids = {1, 2, 3}
    RuleHandlers = {h1, h2}
    MaxRuleRequests = 4
    Payloads <- SomePayloads
    Changes <- SomeChanges
    Queries <- SomeQueries
    Glob <- SomeGlob
    Net <- SomeNet
    DefaultAction = "intercept"
    DefaultCapture = FALSE
SPECIFICATION MCSpec
SYMMETRY Symmetry
INVARIANTS Types SeededOnce TwoActiveNeedsInsert DryRunAgrees
PROPERTIES OnlyRivalsTakeAccess SoloKeepsOne
CHECK_DEADLOCK FALSE
