\* Three flows, two of one instant, on pages of one row.
CONSTANTS
    Requests = {}
    Responses = {}
    CaptureLimit = 0
    MaxRequests = 0
    MaxInterims = 0
    Flows = {1, 2, 3}
    StartedAt <- SomeInstants
    Replicas = {r1}
    Window = 1
    Limit = 1
    MaxTime = 2
    Sockets = {w1, w2}
    Arrivals = {a1, a2, a3}
    Minute = 2
    PerMinute = 1
    LastTick = 3
SPECIFICATION MCSpec
INVARIANTS PagesShowEverything
CHECK_DEADLOCK FALSE
