---------------------------- MODULE Backpressure ----------------------------
(***************************************************************************)
(* The steps of Exchange between writes that wait.  writer.drain() returns *)
(* when the transport holds less than its high-water mark, so not before   *)
(* the peer reads, and has no timeout (http1.py, proxy.py).  A peer may    *)
(* stop reading at any time, and for any time.                             *)
(***************************************************************************)
EXTENDS Exchange

VARIABLE full  \* the peers for whom more is held than the mark

flowVars == <<vars, full>>

FlowInit == Init /\ full = {}

-----------------------------------------------------------------------------
(* A write to a peer may pass the mark; then the drain that follows waits.  *)
Sends(s) == full' \in {full, full \cup {s}}
Silent == UNCHANGED full
Drained == full = {}
Writer == Other(Reader)

(* pump_body drains after every unit, but not within the end of a chunked   *)
(* body: once, after the trailers.                                         *)
Pumps == \/ Unit /\ IF body'.trailers /\ ~body'.ended THEN Silent ELSE Sends(Writer)
         \/ EndsWithStream /\ IF body.trailers THEN Sends(Writer) ELSE Silent

(* The coroutine does nothing while a write of its own waits. *)
Serves == /\ Drained
          /\ \/ TakeRequest /\ Sends("origin")
             \/ TakeResponse /\ Sends("client")
             \/ Pumps
             \/ /\ \/ BadRequest \/ NoMoreRequests \/ ResponseTimeout \/ Fails \/ Overlong
                   \/ RequestSent \/ ResponseSent \/ BothRelaysDone
                /\ Silent

(* The 101 is drained before the two relays begin: nothing has been relayed *)
(* to a client that has yet to take it.                                    *)
Upgrading == pc = "relay" /\ "client" \in full /\ rec.response = 0

(* Each relay waits for its own writes only. *)
RelaysOn(s) == /\ ~Upgrading /\ Other(s) \notin full
               /\ \/ Relays(s) /\ Sends(Other(s))
                  \/ RelayEnds(s) /\ Silent

FlowProxy == Serves \/ \E s \in Sides : RelaysOn(s)

(* A loss is noticed by the read or the write that is being waited for. *)
LosesWaiting == /\ LosesPeer /\ Silent
                /\ IF pc = "relay" THEN Upgrading ELSE \A s \in full : ~up[s]

RelayLosesWaiting(s) == /\ RelayLost(s) /\ Other(s) \in full /\ ~Upgrading
                        /\ full' = full \ {Other(s)}

(* A peer reads on, until the transport has little left to send. *)
ReadsOn(s) == s \in full /\ full' = full \ {s} /\ UNCHANGED vars

FlowNext == \/ FlowProxy \/ LosesWaiting
            \/ \E s \in Sides : RelayLosesWaiting(s) \/ ReadsOn(s)
            \/ Peers /\ Silent

FlowSpec == FlowInit /\ [][FlowNext]_flowVars

(* The event loop runs the proxy, whose reads of heads have timeouts; a     *)
(* peer that began a message goes on with it, but for a client that waits   *)
(* for 100 Continue; an upgraded connection is ended by its peers.  That a  *)
(* peer reads what it is sent is not assumed.                              *)
WritesOn(s) == Writes(s) /\ Silent
EndsRelay(s) == pc = "relay" /\ Leaves(s) /\ Silent
FairFlowSpec == /\ FlowSpec
                /\ WF_flowVars(FlowProxy)
                /\ \A s \in Sides : WF_flowVars(WritesOn(s)) /\ WF_flowVars(EndsRelay(s))

-----------------------------------------------------------------------------
(* Every variable has its type. *)
FlowTypeOK == TypeOK /\ full \subseteq Sides

(* An exchange whose peers complete what they begin ends, but for three     *)
(* waits that have no timeout: for an origin that stops reading (say,       *)
(* because it has answered early), for a client that stops reading, and for *)
(* a client that holds its body back until a 100 Continue, which the proxy  *)
(* would relay only after that body.  An interim response excepted, after   *)
(* which the proxy may wait for the body of an answer to HEAD.              *)
WaitsForContinue == pc = "reqBody" /\ awaiting /\ wire["client"] = <<>> /\ up["client"]
EndsUnlessStalled ==
    [](interims = 0) => \/ <>(pc = "closed")
                        \/ <>[]WaitsForContinue
                        \/ <>[]("origin" \in full) \/ <>[]("client" \in full)
=============================================================================
