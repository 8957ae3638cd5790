----------------------------- MODULE MCTraffic -----------------------------
(* Finite instances, for one run of TLC, of what traffic passes: the rate   *)
(* limit, an exchange, flows and the live feed.  They share no variable, so *)
(* that a step of one cannot touch what the properties of another speak    *)
(* of: TLC explores one at a time, the one in "focus", and the sum of      *)
(* their states instead of the product.                                    *)
EXTENDS Backpressure, FlowStore, LiveFeed, RateLimit

VARIABLE focus

everything == <<flowVars, storeVars, feedVars, rateVars, focus>>

MCInit == /\ focus \in {"exchange", "flows", "feed", "rate"}
          /\ FlowInit /\ StoreInit /\ FeedInit /\ RateInit
          /\ redis \/ focus = "feed"

InExchange(Act) == focus = "exchange" /\ Act /\ UNCHANGED <<storeVars, feedVars, rateVars, focus>>
InFlows(Act)    == focus = "flows" /\ Act /\ UNCHANGED <<flowVars, feedVars, rateVars, focus>>
InFeed(Act)     == focus = "feed" /\ Act /\ UNCHANGED <<flowVars, storeVars, rateVars, focus>>
InRate(Act)     == focus = "rate" /\ Act /\ UNCHANGED <<flowVars, storeVars, feedVars, focus>>

MCNext == InExchange(FlowNext) \/ InFlows(StoreNext) \/ InFeed(FeedNext) \/ InRate(RateNext)

(* The fairness of Backpressure, FlowStore and LiveFeed. *)
MCFairness ==
    /\ WF_everything(InExchange(FlowProxy))
    /\ \A s \in Sides : /\ WF_everything(InExchange(WritesOn(s)))
                        /\ WF_everything(InExchange(EndsRelay(s)))
    /\ \A r \in Replicas : WF_everything(InFlows(Sweeping(r)))
    /\ \A w \in Sockets : /\ WF_everything(InFeed(Opening(w)))
                          /\ WF_everything(InFeed(Closing(w)))

MCSpec == MCInit /\ [][MCNext]_everything /\ MCFairness

(* Every variable has its type. *)
Types == FlowTypeOK /\ StoreTypeOK /\ FeedTypeOK /\ RateTypeOK

(* The exchange, when it is in focus, ends: see EndsUnlessStalled. *)
ExchangesEnd == focus = "exchange" => EndsUnlessStalled

\* The first two flows began at the same instant.
SomeInstants == [f \in Flows |-> IF f = 3 THEN 1 ELSE 0]

R(method, coding, size, last, expect) ==
    [method |-> method, coding |-> coding, size |-> size, last |-> last, expect |-> expect]
A(status, coding, size, last) ==
    [status |-> status, coding |-> coding, size |-> size, last |-> last]

\* HEAD without a body, a length, chunked with 100 Continue, and the last one.
SomeRequests == {R("HEAD", "absent", 0, FALSE, FALSE), R("GET", "length", 1, FALSE, FALSE),
                 R("GET", "chunked", 2, FALSE, TRUE), R("GET", "length", 2, TRUE, FALSE)}

\* Every coding, a 204, a 1xx, a 101 and an announced close.
SomeResponses == {A("final", "length", 1, FALSE), A("final", "chunked", 2, FALSE),
                  A("final", "absent", 2, FALSE), A("final", "length", 0, TRUE),
                  A("empty", "absent", 0, FALSE), A("interim", "absent", 0, FALSE),
                  A("switch", "absent", 0, FALSE)}
=============================================================================
