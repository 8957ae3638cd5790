\* One connection with two requests, and peers that leave at any token and stop reading at any
\* write; three flows, two of one instant, a purge and a database that fails; two browsers;
\* three arrivals over two minutes.
CONSTANTS
    Requests <- SomeRequests
    Responses <- SomeResponses
    CaptureLimit = 1
    MaxRequests = 2
    MaxInterims = 1
    Flows = {1, 2, 3}
    StartedAt <- SomeInstants
    Replicas = {r1}
    Window = 1
    Limit = 1
    MaxTime = 2
    Sockets = {w1, w2}
    Arrivals = {a1, a2, a3}
    Minute = 2
    PerMinute = 1
    LastTick = 3
SPECIFICATION MCSpec
INVARIANTS Types InStep AnswersMatch RecordIsExact NothingAfterLast PagesSkipOnlyTies RateBound
PROPERTIES ExchangesEnd RetentionHolds FeedsAreReleased
CHECK_DEADLOCK FALSE
