------------------------------ MODULE Exchange ------------------------------
(***************************************************************************)
(* One pair of streams under _serve_http: heads are read, bodies pumped    *)
(* and teed (services/proxy/decrypt0rx_proxy/http1.py), a response is      *)
(* awaited and delivered, and the connection is reused or closed           *)
(* (proxy.py).  A stream is a sequence of tokens: a head, or a unit of     *)
(* body that one read returns.  The proxy is one coroutine; the two peers  *)
(* frame their messages as RFC 9112 says and may leave at any token.  Here  *)
(* a write never waits: Backpressure restricts the steps to those that the *)
(* proxy can take between two writes that do, and says when it must.       *)
(***************************************************************************)
EXTENDS Integers, Sequences

CONSTANTS Requests,      \* shapes of requests the client may send
          Responses,     \* shapes of responses the origin may send
          CaptureLimit,  \* capture_max_bytes of the decision, 0 without capture
          MaxRequests,   \* bound: requests per connection
          MaxInterims    \* bound: interim (1xx) responses per connection

Codings == {"length", "chunked", "absent"}

ASSUME RequestsAssumption ==
    Requests \subseteq [method: {"GET", "HEAD"}, coding: Codings, size: Nat,
                        last: BOOLEAN, expect: BOOLEAN]
ASSUME ResponsesAssumption ==
    Responses \subseteq [status: {"interim", "switch", "empty", "final"}, coding: Codings,
                         size: Nat, last: BOOLEAN]
ASSUME LimitAssumption == CaptureLimit \in Nat
ASSUME BoundsAssumption == MaxRequests \in Nat /\ MaxInterims \in Nat

VARIABLES pc,       \* where the coroutine is suspended
          wire,     \* per sender: tokens under way to the proxy
          outbox,   \* per sender: the rest of the message it is sending
          up,       \* per sender: it has not ended its stream
          composed, \* requests the client has begun to send
          awaiting, \* the client withholds a body until it hears 100 Continue
          answered, \* requests the origin has given a final response to
          interims, \* interim responses the origin has sent
          taken,    \* request heads the proxy has read and sent to the origin
          answers,  \* response heads the proxy has read and sent to the client
          body,     \* pump_body: the body being pumped and its _Tee
          rec,      \* sizes and bodies_truncated of the current FlowRecord
          copying,  \* after a 101: the senders whose bytes are still relayed
          log       \* the FlowRecords submitted

streams  == <<wire, outbox, up>>
client   == <<composed, awaiting>>
origin   == <<answered, interims>>
exchange == <<taken, answers, body, rec, copying, log>>
vars == <<pc, streams, client, origin, exchange>>

Sides == {"client", "origin"}
Other(s) == IF s = "client" THEN "origin" ELSE "client"

RequestHeads  == [kind: {"head"}, id: Nat \ {0}, msg: Requests]
ResponseHeads == [kind: {"head"}, id: Nat \ {0}, msg: Responses]
Marks == [kind: {"data", "last", "blank", "bad"}]
Heads(s) == IF s = "client" THEN RequestHeads ELSE ResponseHeads

Mark(k) == [kind |-> k]
Fin == [kind |-> "fin"]

\* Mutant of RequestFraming: a length is the only sign of a body.
RequestFramingLengthOnly(msg) == IF msg.coding = "length" THEN "length" ELSE "none"

(* body_framing *)
RequestFraming(msg) == IF msg.coding = "absent" THEN "none" ELSE msg.coding

ResponseFraming(msg, method) == IF msg.status # "final" \/ method = "HEAD" THEN "none"
                                ELSE IF msg.coding = "absent" THEN "eof" ELSE msg.coding

(* The start of pump_body, with an empty _Tee. *)
StartBody(framing, size) ==
    [framing |-> framing, left |-> IF framing = "length" THEN size ELSE 0,
     trailers |-> FALSE, ended |-> framing = "none",
     kept |-> 0, total |-> 0, truncated |-> FALSE]

NoBody == StartBody("none", 0)
NewRecord == [request |-> 0, response |-> 0, truncated |-> FALSE]

(* _Tee.feed, one unit at a time. *)
Feed(b) == [b EXCEPT !.total = @ + 1,
                     !.kept = IF b.kept < CaptureLimit THEN @ + 1 ELSE @,
                     !.truncated = @ \/ b.kept >= CaptureLimit]

Init == /\ pc = "head"
        /\ wire = [s \in Sides |-> <<>>]
        /\ outbox = [s \in Sides |-> <<>>]
        /\ up = [s \in Sides |-> TRUE]
        /\ composed = 0 /\ awaiting = FALSE
        /\ answered = 0 /\ interims = 0
        /\ taken = <<>> /\ answers = <<>>
        /\ body = NoBody /\ rec = NewRecord
        /\ copying = {}
        /\ log = <<>>

-----------------------------------------------------------------------------
(* The peers                                                               *)

Units(n) == [i \in 1..n |-> Mark("data")]

(* The tokens of a message: a close-delimited body and an announced close   *)
(* are followed by the end of the stream.                                  *)
Message(head, bodiless) ==
    <<head>>
    \o (IF bodiless THEN <<>> ELSE Units(head.msg.size))
    \o (IF ~bodiless /\ head.msg.coding = "chunked" THEN <<Mark("last"), Mark("blank")>> ELSE <<>>)

Compose(s, tokens) == outbox' = [outbox EXCEPT ![s] = tokens]

ClientComposes ==
    /\ up["client"] /\ outbox["client"] = <<>> /\ composed < MaxRequests
    /\ \E r \in Requests :
          Compose("client", Message([kind |-> "head", id |-> composed + 1, msg |-> r],
                                    r.coding = "absent"))
    /\ composed' = composed + 1
    /\ UNCHANGED <<pc, wire, up, awaiting, origin, exchange>>

(* A head that does not parse: malformed, too large or cut off. *)
Garbles(s) ==
    /\ up[s] /\ outbox[s] = <<>>
    /\ s = "client" => composed < MaxRequests
    /\ s = "origin" => answered < Len(taken)
    /\ Compose(s, <<Mark("bad"), Fin>>)
    /\ UNCHANGED <<pc, wire, up, client, origin, exchange>>

OriginAnswers ==
    /\ up["origin"] /\ outbox["origin"] = <<>> /\ answered < Len(taken)
    /\ \E r \in Responses :
          LET request == taken[answered + 1].msg
              head == [kind |-> "head", id |-> answered + 1, msg |-> r]
              bodiless == r.status # "final" \/ request.method = "HEAD"
              ends == r.last \/ (~bodiless /\ r.coding = "absent")
          IN /\ Compose("origin", Message(head, bodiless) \o (IF ends THEN <<Fin>> ELSE <<>>))
             /\ IF r.status = "interim"
                THEN interims < MaxInterims /\ interims' = interims + 1 /\ UNCHANGED answered
                ELSE answered' = answered + 1 /\ UNCHANGED interims
    /\ UNCHANGED <<pc, wire, up, client, exchange>>

(* A client that expects 100 Continue stops after its head. *)
Writes(s) ==
    LET token == Head(outbox[s])
    IN /\ up[s] /\ outbox[s] # <<>> /\ ~(s = "client" /\ awaiting)
       /\ outbox' = [outbox EXCEPT ![s] = Tail(@)]
       /\ IF token = Fin
          THEN up' = [up EXCEPT ![s] = FALSE] /\ UNCHANGED wire
          ELSE wire' = [wire EXCEPT ![s] = Append(@, token)] /\ UNCHANGED up
       /\ awaiting' = IF s = "client" /\ token.kind = "head" /\ token.msg.expect
                      THEN TRUE ELSE awaiting
       /\ UNCHANGED <<pc, composed, origin, exchange>>

(* A peer ends its stream, in the middle of a message or not. *)
Leaves(s) ==
    /\ up[s]
    /\ up' = [up EXCEPT ![s] = FALSE]
    /\ outbox' = [outbox EXCEPT ![s] = <<>>]
    /\ UNCHANGED <<pc, wire, client, origin, exchange>>

-----------------------------------------------------------------------------
(* read_request_head and read_response_head                                *)

Ready(s) == wire[s] # <<>>
Next1(s) == Head(wire[s])
AtEof(s) == wire[s] = <<>> /\ ~up[s]

Read(s) == wire' = [wire EXCEPT ![s] = Tail(@)]
Submit(r, error) == log' = Append(log, [request |-> r.request, response |-> r.response,
                                        truncated |-> r.truncated, error |-> error])
Request == taken[Len(taken)].msg

(* The head is forwarded before its body is looked at. *)
TakeRequest ==
    /\ pc = "head" /\ Ready("client") /\ Next1("client").kind = "head"
    /\ Read("client")
    /\ taken' = Append(taken, Next1("client"))
    /\ body' = StartBody(RequestFraming(Next1("client").msg), Next1("client").msg.size)
    /\ rec' = NewRecord
    /\ pc' = "reqBody"
    /\ UNCHANGED <<outbox, up, client, origin, answers, copying, log>>

(* A ProtocolError outside the try of _serve_http: 400 by _on_client, and   *)
(* no record.                                                              *)
BadRequest == /\ pc = "head" /\ Ready("client") /\ Next1("client").kind # "head"
              /\ Read("client")
              /\ pc' = "closed"
              /\ UNCHANGED <<outbox, up, client, origin, exchange>>

(* The end of the client's stream, a reset, or client_idle_timeout. *)
NoMoreRequests == /\ pc = "head" /\ (~Ready("client") \/ ~up["client"])
                  /\ pc' = "closed"
                  /\ UNCHANGED <<streams, client, origin, exchange>>

TakeResponse ==
    /\ pc = "respHead" /\ Ready("origin") /\ Next1("origin").kind = "head"
    /\ Read("origin")
    /\ answers' = Append(answers, Next1("origin"))
    /\ awaiting' = FALSE
    /\ IF Next1("origin").msg.status = "switch"
       THEN pc' = "relay" /\ copying' = Sides /\ UNCHANGED body
       ELSE /\ pc' = "respBody"
            /\ body' = StartBody(ResponseFraming(Next1("origin").msg, Request.method),
                                 Next1("origin").msg.size)
            /\ UNCHANGED copying
    /\ UNCHANGED <<outbox, up, composed, origin, taken, rec, log>>

\* Mutant of ResponseTimeout: the connection is kept after a timeout.
ResponseTimeoutKeeps == /\ pc = "respHead" /\ ~Ready("origin")
                        /\ pc' = "head"
                        /\ UNCHANGED <<streams, client, origin, exchange>>

(* upstream_read_timeout leaves through _on_client, without a record. *)
ResponseTimeout == /\ pc = "respHead" /\ ~Ready("origin")
                   /\ pc' = "closed"
                   /\ UNCHANGED <<streams, client, origin, exchange>>

-----------------------------------------------------------------------------
(* pump_body                                                               *)

Reader == IF pc = "reqBody" THEN "client" ELSE "origin"
Pumping == pc \in {"reqBody", "respBody"}

\* Mutant of Complete: the loop runs while remaining >= 0.
CompleteLate(b) == b.ended \/ (b.framing = "length" /\ b.left < 0)

Complete(b) == b.ended \/ (b.framing = "length" /\ b.left = 0)

Unit ==
    LET s == Reader
    IN /\ Pumping /\ ~Complete(body) /\ Ready(s)
       /\ \/ body.framing = "length" /\ body' = Feed([body EXCEPT !.left = @ - 1])
          \/ body.framing = "eof" /\ body' = Feed(body)
          \/ body.framing = "chunked" /\ ~body.trailers /\ Next1(s).kind = "data"
             /\ body' = Feed(body)
          \/ body.framing = "chunked" /\ ~body.trailers /\ Next1(s).kind = "last"
             /\ body' = [body EXCEPT !.trailers = TRUE]
          \/ body.framing = "chunked" /\ body.trailers
             /\ body' = [body EXCEPT !.ended = Next1(s).kind = "blank"]
       /\ Read(s)
       /\ UNCHANGED <<pc, outbox, up, client, origin, taken, answers, rec, copying, log>>

\* Mutant of EndsWithStream: trailers go on until their blank line.
EndsWithStreamEofOnly == /\ Pumping /\ ~Complete(body) /\ AtEof(Reader)
                         /\ body.framing = "eof"
                         /\ body' = [body EXCEPT !.ended = TRUE]
                         /\ UNCHANGED <<pc, streams, client, origin, taken, answers, rec,
                                        copying, log>>

(* An end of stream completes a body without a length, and trailers. *)
EndsWithStream == /\ Pumping /\ ~Complete(body) /\ AtEof(Reader)
                  /\ body.framing = "eof" \/ body.trailers
                  /\ body' = [body EXCEPT !.ended = TRUE]
                  /\ UNCHANGED <<pc, streams, client, origin, taken, answers, rec, copying, log>>

(* A line that is not the chunk size or the head that is expected. *)
BadLine == \/ /\ Pumping /\ ~Complete(body) /\ Ready(Reader)
              /\ body.framing = "chunked" /\ ~body.trailers
              /\ Next1(Reader).kind \notin {"data", "last"}
           \/ pc = "respHead" /\ Ready("origin") /\ Next1("origin").kind # "head"

(* ProtocolError or IncompleteReadError in the exchange: such a line, or an *)
(* end of stream inside a body or before a response.                       *)
Malformed ==
    \/ BadLine
    \/ /\ Pumping /\ ~Complete(body) /\ AtEof(Reader)
       /\ body.framing = "length" \/ (body.framing = "chunked" /\ ~body.trailers)
    \/ pc = "respHead" /\ AtEof("origin")

(* A line over 64 KiB, the limit of the StreamReader, is a ValueError: 400  *)
(* by _on_client, and no record.                                           *)
Overlong == /\ \/ BadLine
               \/ Pumping /\ ~Complete(body) /\ Ready(Reader) /\ body.trailers
            /\ pc' = "closed"
            /\ UNCHANGED <<streams, client, origin, exchange>>

(* A peer that has left may have reset the stream that is read or written:  *)
(* after a 101 only while the 101 itself is written, since _relay catches. *)
PeerLost == \/ Pumping /\ \E s \in Sides : ~up[s]
            \/ pc = "respHead" /\ ~up["origin"]
            \/ pc = "relay" /\ copying = Sides /\ rec.response = 0 /\ ~up["client"]

Aborts == /\ Submit(rec, TRUE)
          /\ pc' = "closed"
          /\ UNCHANGED <<streams, client, origin, taken, answers, body, rec, copying>>

Fails == Malformed /\ Aborts
LosesPeer == PeerLost /\ Aborts

RequestSent ==
    /\ pc = "reqBody" /\ Complete(body)
    /\ rec' = [rec EXCEPT !.request = body.total, !.truncated = @ \/ body.truncated]
    /\ pc' = "respHead"
    /\ UNCHANGED <<streams, client, origin, taken, answers, body, copying, log>>

\* Mutant of KeepAlive: the origin's wish to close is not looked at.
KeepAliveClientOnly == body.framing # "eof" /\ ~Request.last

(* The client's wish is its Connection header, or HTTP/1.0 without keep-alive. *)
KeepAlive == body.framing # "eof" /\ ~Request.last /\ ~answers[Len(answers)].msg.last

\* Mutant of ResponseSent: the truncation of the request body is overwritten.
ResponseSentOverwrites ==
    /\ pc = "respBody" /\ Complete(body)
    /\ rec' = [rec EXCEPT !.response = body.total, !.truncated = body.truncated]
    /\ Submit(rec', FALSE)
    /\ pc' = IF KeepAlive THEN "head" ELSE "closed"
    /\ UNCHANGED <<streams, client, origin, taken, answers, body, copying>>

ResponseSent ==
    /\ pc = "respBody" /\ Complete(body)
    /\ rec' = [rec EXCEPT !.response = body.total, !.truncated = @ \/ body.truncated]
    /\ Submit(rec', FALSE)
    /\ pc' = IF KeepAlive THEN "head" ELSE "closed"
    /\ UNCHANGED <<streams, client, origin, taken, answers, body, copying>>

-----------------------------------------------------------------------------
(* _relay in both directions after a 101                                   *)

Relays(s) ==
    /\ pc = "relay" /\ s \in copying /\ Ready(s)
    /\ Read(s)
    /\ rec' = IF s = "client" THEN [rec EXCEPT !.request = @ + 1]
                              ELSE [rec EXCEPT !.response = @ + 1]
    /\ UNCHANGED <<pc, outbox, up, client, origin, taken, answers, body, copying, log>>

RelayEnds(s) ==
    /\ pc = "relay" /\ s \in copying
    /\ AtEof(s) \/ (Ready(s) /\ ~up[Other(s)])
    /\ copying' = copying \ {s}
    /\ UNCHANGED <<pc, streams, client, origin, taken, answers, body, rec, log>>

(* A write that waits fails when its peer is lost. *)
RelayLost(s) ==
    /\ pc = "relay" /\ s \in copying /\ ~up[Other(s)]
    /\ copying' = copying \ {s}
    /\ UNCHANGED <<pc, streams, client, origin, taken, answers, body, rec, log>>

BothRelaysDone == /\ pc = "relay" /\ copying = {}
                  /\ Submit(rec, FALSE)
                  /\ pc' = "closed"
                  /\ UNCHANGED <<streams, client, origin, taken, answers, body, rec, copying>>

-----------------------------------------------------------------------------
Proxy == \/ TakeRequest \/ BadRequest \/ NoMoreRequests
         \/ TakeResponse \/ ResponseTimeout
         \/ Unit \/ EndsWithStream \/ Fails \/ Overlong \/ RequestSent \/ ResponseSent
         \/ (\E s \in Sides : Relays(s) \/ RelayEnds(s)) \/ BothRelaysDone

Peers == \/ ClientComposes \/ OriginAnswers
         \/ \E s \in Sides : Garbles(s) \/ Writes(s) \/ Leaves(s)

Losses == LosesPeer \/ \E s \in Sides : RelayLost(s)

Next == Proxy \/ Losses \/ Peers

Spec == Init /\ [][Next]_vars

-----------------------------------------------------------------------------
Bodiless(k) == answers[k].msg.status # "final" \/ taken[k].msg.method = "HEAD"
Switched(k) == answers[k].msg.status = "switch"
CloseDelimited(k) == ~Bodiless(k) /\ answers[k].msg.coding = "absent"
Finished == {k \in DOMAIN log : ~log[k].error /\ ~Switched(k)}

Record == [request: Nat, response: Nat, truncated: BOOLEAN]
BodyState == [framing: {"none", "length", "chunked", "eof"}, left: Nat, trailers: BOOLEAN,
              ended: BOOLEAN, kept: Nat, total: Nat, truncated: BOOLEAN]

(* Every variable has its type. *)
TypeOK == /\ pc \in {"head", "reqBody", "respHead", "respBody", "relay", "closed"}
          /\ wire \in [Sides -> Seq(RequestHeads \cup ResponseHeads \cup Marks)]
          /\ \A s \in Sides : wire[s] \in Seq(Heads(s) \cup Marks)
          /\ \A s \in Sides : outbox[s] \in Seq(Heads(s) \cup Marks \cup {Fin})
          /\ DOMAIN outbox = Sides
          /\ up \in [Sides -> BOOLEAN]
          /\ composed \in 0..MaxRequests /\ awaiting \in BOOLEAN
          /\ answered \in Nat /\ interims \in 0..MaxInterims
          /\ taken \in Seq(RequestHeads) /\ answers \in Seq(ResponseHeads)
          /\ body \in BodyState /\ rec \in Record
          /\ copying \subseteq Sides
          /\ log \in Seq([request: Nat, response: Nat, truncated: BOOLEAN, error: BOOLEAN])

(* The proxy and its peers agree where messages end: where the proxy looks  *)
(* for a head, the stream holds one (or what its sender meant as one),      *)
(* after bodies of every framing, HEAD and early answers - as long as the   *)
(* origin sends no interim response.                                       *)
InStep == interims = 0 =>
              /\ pc = "head" /\ Ready("client") => Next1("client").kind \in {"head", "bad"}
              /\ pc = "respHead" /\ Ready("origin") => Next1("origin").kind \in {"head", "bad"}

(* On a reused connection each request gets its own answer, as long as the  *)
(* origin sends no interim response, which _exchange takes for the final    *)
(* one.                                                                    *)
AnswersMatch ==
  interims = 0 =>
    /\ \A k \in DOMAIN taken : taken[k].id = k
    /\ pc \in {"respBody", "relay"} => answers[Len(answers)].id = Len(taken)

(* A FlowRecord without an error has the sizes of the bodies that its peers *)
(* sent; only a close-delimited body can have been cut without notice.     *)
SizesAreExact ==
    interims = 0 =>
        \A k \in Finished :
            /\ log[k].request = IF taken[k].msg.coding = "absent" THEN 0 ELSE taken[k].msg.size
            /\ IF CloseDelimited(k) THEN log[k].response <= answers[k].msg.size
               ELSE log[k].response = IF Bodiless(k) THEN 0 ELSE answers[k].msg.size

(* A record says that bodies were truncated exactly when one of the two was *)
(* longer than the capture limit, and no more than the limit is held.      *)
TruncationIsExact ==
    /\ body.kept <= CaptureLimit
    /\ \A k \in Finished : log[k].truncated <=> (log[k].request > CaptureLimit
                                                 \/ log[k].response > CaptureLimit)

(* What a FlowRecord says of the bodies is exact. *)
RecordIsExact == SizesAreExact /\ TruncationIsExact

(* The streams are not used again after an exchange that failed, that       *)
(* either peer announced as its last, or whose response ends with the       *)
(* stream.                                                                 *)
NothingAfterLast ==
    \A k \in DOMAIN log :
        log[k].error \/ taken[k].msg.last \/ answers[k].msg.last \/ CloseDelimited(k)
        => Len(taken) = k /\ pc = "closed"
=============================================================================
