--------------------------- MODULE ExchangeProofs ---------------------------
(***************************************************************************)
(* Proofs about Exchange.tla, for every set of requests and responses,     *)
(* every capture limit and any number of requests of a connection.         *)
(***************************************************************************)
EXTENDS Exchange, SequenceTheorems, TLAPS

Last == Len(answers)

(* Where the coroutine is tells how many heads it has passed on.            *)
CountInv ==
    /\ pc = "head" => Len(taken) = Len(log) /\ Len(answers) = Len(log)
    /\ pc \in {"reqBody", "respHead"} => Len(taken) = Len(log) + 1 /\ Len(answers) = Len(log)
    /\ pc \in {"respBody", "relay"} => Len(taken) = Len(log) + 1 /\ Len(answers) = Len(log) + 1

(* An exchange after which the streams may be used again.                   *)
Reusable(k) == ~log[k].error /\ ~taken[k].msg.last /\ ~answers[k].msg.last /\ ~CloseDelimited(k)

LastInv == \A k \in DOMAIN log : Reusable(k) \/ (k = Len(taken) /\ pc = "closed")

(* The response being delivered, and the one that began a relay.            *)
AnswerInv ==
    /\ pc = "respBody" => /\ answers[Last].msg.status # "switch"
                          /\ body.framing = "eof" <=> CloseDelimited(Last)
    /\ pc = "relay" => answers[Last].msg.status = "switch"

(* The tee holds the beginning of a body up to the limit.                   *)
Tee(b) == /\ b.kept = IF b.total <= CaptureLimit THEN b.total ELSE CaptureLimit
          /\ b.truncated <=> b.total > CaptureLimit

RecInv == /\ pc = "reqBody" => ~rec.truncated
          /\ pc \in {"respHead", "respBody"} => (rec.truncated <=> rec.request > CaptureLimit)

ExchangeInv == /\ CountInv /\ LastInv /\ AnswerInv /\ Tee(body) /\ RecInv /\ TruncationIsExact

-----------------------------------------------------------------------------
(* Types                                                                   *)

LEMMA HeadTypes == \A s \in Sides : Heads(s) \subseteq RequestHeads \cup ResponseHeads
BY DEF Heads, Sides

LEMMA UnitsType == ASSUME NEW n \in Nat
                   PROVE  Units(n) \in Seq(Marks) /\ Len(Units(n)) = n
                          /\ \A i \in 1 .. n : Units(n)[i] = Mark("data")
<1>1. Mark("data") \in Marks
  BY DEF Mark, Marks
<1>2. Units(n) \in [1 .. n -> Marks]
  BY <1>1 DEF Units
<1>3. QED BY <1>2 DEF Units

LEMMA MessageType ==
    ASSUME NEW s \in Sides, NEW head \in Heads(s), NEW bodiless \in BOOLEAN
    PROVE  Message(head, bodiless) \in Seq(Heads(s) \cup Marks)
<1> DEFINE T == Heads(s) \cup Marks
           u == IF bodiless THEN <<>> ELSE Units(head.msg.size)
           e == IF ~bodiless /\ head.msg.coding = "chunked"
                THEN <<Mark("last"), Mark("blank")>> ELSE <<>>
<1>1. head.msg.size \in Nat
  BY RequestsAssumption, ResponsesAssumption DEF Heads, RequestHeads, ResponseHeads
<1>2. <<head>> \in Seq(T)
  OBVIOUS
<1>3. u \in Seq(T)
  <2>1. Units(head.msg.size) \in Seq(Marks)
    BY <1>1, UnitsType
  <2>2. Seq(Marks) \subseteq Seq(T)
    OBVIOUS
  <2>3. <<>> \in Seq(T)
    OBVIOUS
  <2>4. QED BY <2>1, <2>2, <2>3
<1>4. e \in Seq(T)
  <2>1. Mark("last") \in T /\ Mark("blank") \in T
    BY DEF Mark, Marks
  <2>2. <<Mark("last"), Mark("blank")>> \in Seq(T) /\ <<>> \in Seq(T)
    BY <2>1
  <2>3. QED BY <2>2
<1>5. Message(head, bodiless) = <<head>> \o u \o e
  BY DEF Message
<1> HIDE DEF T, u, e
<1>6. <<head>> \o u \in Seq(T)
  BY <1>2, <1>3, ConcatProperties
<1>7. <<head>> \o u \o e \in Seq(T)
  BY <1>4, <1>6, ConcatProperties
<1>8. QED BY <1>5, <1>7 DEF T

LEMMA BodyTypes ==
    /\ \A m \in Requests : StartBody(RequestFraming(m), m.size) \in BodyState
    /\ \A m \in Responses : \A method :
          StartBody(ResponseFraming(m, method), m.size) \in BodyState
    /\ NoBody \in BodyState /\ NewRecord \in Record
BY RequestsAssumption, ResponsesAssumption
   DEF RequestFraming, ResponseFraming, StartBody, NoBody, NewRecord, BodyState, Record, Codings

(* One more unit in the tee, which keeps it as far as the limit allows.      *)
LEMMA FeedUnit ==
    ASSUME NEW b \in BodyState
    PROVE  /\ Feed(b) \in BodyState
           /\ Feed(b).total = b.total + 1
           /\ Feed(b).kept = IF b.kept < CaptureLimit THEN b.kept + 1 ELSE b.kept
           /\ Feed(b).truncated <=> (b.truncated \/ b.kept >= CaptureLimit)
           /\ Feed(b).framing = b.framing
<1> DEFINE k == IF b.kept < CaptureLimit THEN b.kept + 1 ELSE b.kept
           t == b.truncated \/ b.kept >= CaptureLimit
<1>1. k \in Nat /\ b.total + 1 \in Nat
  BY LimitAssumption DEF BodyState
<1>2. t \in BOOLEAN
  OBVIOUS
<1>3. Feed(b) = [b EXCEPT !.total = b.total + 1, !.kept = k, !.truncated = t]
  BY DEF Feed
<1> HIDE DEF k, t
<1>4. /\ Feed(b) \in BodyState /\ Feed(b).total = b.total + 1
      /\ Feed(b).kept = k /\ Feed(b).truncated = t /\ Feed(b).framing = b.framing
  BY <1>1, <1>2, <1>3 DEF BodyState
<1>5. QED BY <1>4 DEF k, t

(* The proxy takes a token from a stream.                                   *)
LEMMA ReadTypes ==
    ASSUME TypeOK, NEW s \in Sides, Ready(s)
    PROVE  /\ Next1(s) \in Heads(s) \cup Marks
           /\ Next1(s).kind = "head" => Next1(s) \in Heads(s)
           /\ Read(s) => /\ wire' \in [Sides -> Seq(RequestHeads \cup ResponseHeads \cup Marks)]
                         /\ \A t \in Sides : wire'[t] \in Seq(Heads(t) \cup Marks)
<1>1. wire[s] \in Seq(Heads(s) \cup Marks) /\ wire[s] # <<>>
  BY DEF TypeOK, Ready
<1>2. Next1(s) \in Heads(s) \cup Marks /\ Tail(wire[s]) \in Seq(Heads(s) \cup Marks)
  BY <1>1, HeadTailProperties DEF Next1
<1>3. Next1(s).kind = "head" => Next1(s) \in Heads(s)
  BY <1>2 DEF Marks
<1>4. ASSUME Read(s)
      PROVE  /\ wire' \in [Sides -> Seq(RequestHeads \cup ResponseHeads \cup Marks)]
             /\ \A t \in Sides : wire'[t] \in Seq(Heads(t) \cup Marks)
  <2>1. Tail(wire[s]) \in Seq(RequestHeads \cup ResponseHeads \cup Marks)
    <3>1. Heads(s) \cup Marks \subseteq RequestHeads \cup ResponseHeads \cup Marks
      BY HeadTypes
    <3>2. QED BY <1>2, <3>1
  <2>2. wire' = [wire EXCEPT ![s] = Tail(wire[s])]
    BY <1>4 DEF Read
  <2>3. QED BY <1>2, <2>1, <2>2 DEF TypeOK
<1>5. QED BY <1>2, <1>3, <1>4

(* A peer prepares a message.                                               *)
LEMMA ComposeTypes ==
    ASSUME TypeOK, NEW s \in Sides, NEW tokens \in Seq(Heads(s) \cup Marks \cup {Fin}),
           Compose(s, tokens)
    PROVE  /\ \A t \in Sides : outbox'[t] \in Seq(Heads(t) \cup Marks \cup {Fin})
           /\ DOMAIN outbox' = Sides
BY DEF TypeOK, Compose

LEMMA InitTypes == Init => TypeOK
<1> SUFFICES ASSUME Init PROVE TypeOK
  OBVIOUS
<1> USE DEF Init
<1>1. /\ wire \in [Sides -> Seq(RequestHeads \cup ResponseHeads \cup Marks)]
      /\ \A s \in Sides : wire[s] \in Seq(Heads(s) \cup Marks)
      /\ \A s \in Sides : outbox[s] \in Seq(Heads(s) \cup Marks \cup {Fin})
      /\ DOMAIN outbox = Sides
      /\ up \in [Sides -> BOOLEAN]
  OBVIOUS
<1>2. body \in BodyState /\ rec \in Record
  BY BodyTypes
<1>3. composed \in 0 .. MaxRequests /\ interims \in 0 .. MaxInterims
  BY BoundsAssumption
<1>4. /\ pc = "head" /\ awaiting = FALSE /\ answered \in Nat /\ copying \subseteq Sides
      /\ taken \in Seq(RequestHeads) /\ answers \in Seq(ResponseHeads)
      /\ log \in Seq([request: Nat, response: Nat, truncated: BOOLEAN, error: BOOLEAN])
  OBVIOUS
<1> HIDE DEF Init
<1>5. QED BY <1>1, <1>2, <1>3, <1>4 DEF TypeOK

-----------------------------------------------------------------------------
(* The peers disturb no variable of the exchange.                           *)

LEMMA PeersLeaveExchange == Peers => UNCHANGED <<pc, exchange>>
BY DEF Peers, ClientComposes, OriginAnswers, Garbles, Writes, Leaves

LEMMA PeersTypes == TypeOK /\ Peers => TypeOK'
<1> SUFFICES ASSUME TypeOK, Peers PROVE TypeOK'
  OBVIOUS
<1> USE DEF streams, client, origin, exchange
<1>1. CASE ClientComposes
  <2>1. PICK r \in Requests :
          Compose("client", Message([kind |-> "head", id |-> composed + 1, msg |-> r],
                                    r.coding = "absent"))
    BY <1>1 DEF ClientComposes
  <2>2. composed' \in 0 .. MaxRequests /\ composed + 1 \in Nat \ {0}
    BY <1>1, BoundsAssumption DEF TypeOK, ClientComposes
  <2> DEFINE head == [kind |-> "head", id |-> composed + 1, msg |-> r]
             m == Message(head, r.coding = "absent")
  <2>3. head \in Heads("client") /\ "client" \in Sides
    BY <2>2 DEF Heads, RequestHeads, Sides
  <2>4. m \in Seq(Heads("client") \cup Marks)
    BY <2>3, MessageType
  <2> HIDE DEF m
  <2>5. m \in Seq(Heads("client") \cup Marks \cup {Fin})
    BY <2>4
  <2>6. Compose("client", m)
    BY <2>1 DEF m
  <2>7. /\ \A t \in Sides : outbox'[t] \in Seq(Heads(t) \cup Marks \cup {Fin})
        /\ DOMAIN outbox' = Sides
    BY <2>3, <2>5, <2>6, ComposeTypes
  <2>8. UNCHANGED <<pc, wire, up, awaiting, origin, exchange>>
    BY <1>1 DEF ClientComposes
  <2>9. QED BY <2>2, <2>7, <2>8 DEF TypeOK
<1>2. CASE OriginAnswers
  <2> DEFINE head(r) == [kind |-> "head", id |-> answered + 1, msg |-> r]
             bodiless(r) == r.status # "final" \/ taken[answered + 1].msg.method = "HEAD"
             ends(r) == r.last \/ (~bodiless(r) /\ r.coding = "absent")
             tokens(r) == Message(head(r), bodiless(r)) \o (IF ends(r) THEN <<Fin>> ELSE <<>>)
  <2>1. PICK r \in Responses :
          /\ Compose("origin", tokens(r))
          /\ IF r.status = "interim"
             THEN interims < MaxInterims /\ interims' = interims + 1 /\ UNCHANGED answered
             ELSE answered' = answered + 1 /\ UNCHANGED interims
    BY <1>2 DEF OriginAnswers
  <2>2. answered' \in Nat /\ interims' \in 0 .. MaxInterims
    BY <2>1, BoundsAssumption DEF TypeOK
  <2> DEFINE T == Heads("origin") \cup Marks \cup {Fin}
             f == IF ends(r) THEN <<Fin>> ELSE <<>>
             m == Message(head(r), bodiless(r))
  <2>3. head(r) \in Heads("origin") /\ "origin" \in Sides
    BY DEF TypeOK, Heads, ResponseHeads, Sides
  <2>4. m \in Seq(Heads("origin") \cup Marks)
    BY <2>3, MessageType
  <2>5. f \in Seq(T)
    <3>1. Fin \in T /\ <<Fin>> \in Seq(T) /\ <<>> \in Seq(T)
      OBVIOUS
    <3>2. QED BY <3>1
  <2>6. Compose("origin", m \o f)
    BY <2>1
  <2> HIDE DEF m, f
  <2>7. m \in Seq(T)
    BY <2>4
  <2>8. m \o f \in Seq(T)
    BY <2>5, <2>7, ConcatProperties
  <2>9. /\ \A t \in Sides : outbox'[t] \in Seq(Heads(t) \cup Marks \cup {Fin})
        /\ DOMAIN outbox' = Sides
    BY <2>3, <2>6, <2>8, ComposeTypes
  <2>10. UNCHANGED <<pc, wire, up, client, exchange>>
    BY <1>2 DEF OriginAnswers
  <2>11. QED BY <2>2, <2>9, <2>10 DEF TypeOK
<1>3. ASSUME NEW s \in Sides, Garbles(s) PROVE TypeOK'
  <2>1. <<Mark("bad"), Fin>> \in Seq(Heads(s) \cup Marks \cup {Fin})
    BY DEF Mark, Marks
  <2>2. Compose(s, <<Mark("bad"), Fin>>)
    BY <1>3 DEF Garbles
  <2>3. /\ \A t \in Sides : outbox'[t] \in Seq(Heads(t) \cup Marks \cup {Fin})
        /\ DOMAIN outbox' = Sides
    BY <2>1, <2>2, ComposeTypes
  <2>4. UNCHANGED <<pc, wire, up, client, origin, exchange>>
    BY <1>3 DEF Garbles
  <2>5. QED BY <2>3, <2>4 DEF TypeOK
<1>4. ASSUME NEW s \in Sides, Writes(s) PROVE TypeOK'
  <2> DEFINE T == Heads(s) \cup Marks
             token == Head(outbox[s])
  <2>1. outbox[s] \in Seq(T \cup {Fin}) /\ outbox[s] # <<>>
    BY <1>4 DEF TypeOK, Writes
  <2>2. token \in T \cup {Fin} /\ Tail(outbox[s]) \in Seq(T \cup {Fin})
    BY <2>1, HeadTailProperties
  <2>3. /\ \A t \in Sides : outbox'[t] \in Seq(Heads(t) \cup Marks \cup {Fin})
        /\ DOMAIN outbox' = Sides
    BY <1>4, <2>2 DEF TypeOK, Writes
  <2>4. up' \in [Sides -> BOOLEAN]
    BY <1>4 DEF TypeOK, Writes
  <2>5. /\ wire' \in [Sides -> Seq(RequestHeads \cup ResponseHeads \cup Marks)]
        /\ \A t \in Sides : wire'[t] \in Seq(Heads(t) \cup Marks)
    <3>1. CASE token = Fin
      <4>1. wire' = wire
        BY <1>4, <3>1 DEF Writes
      <4>2. QED BY <4>1 DEF TypeOK
    <3>2. CASE token # Fin
      <4>1. wire' = [wire EXCEPT ![s] = Append(wire[s], token)]
        BY <1>4, <3>2 DEF Writes
      <4>2. token \in T
        BY <2>2, <3>2
      <4>3. token \in RequestHeads \cup ResponseHeads \cup Marks
        BY <4>2, HeadTypes
      <4>4. Append(wire[s], token) \in Seq(T)
        BY <4>2, AppendProperties DEF TypeOK
      <4>5. Append(wire[s], token) \in Seq(RequestHeads \cup ResponseHeads \cup Marks)
        BY <4>3, AppendProperties DEF TypeOK
      <4>6. QED BY <4>1, <4>4, <4>5 DEF TypeOK
    <3>3. QED BY <3>1, <3>2
  <2>6. awaiting' \in BOOLEAN
    BY <1>4 DEF TypeOK, Writes
  <2>7. UNCHANGED <<pc, composed, origin, exchange>>
    BY <1>4 DEF Writes
  <2>8. QED BY <2>3, <2>4, <2>5, <2>6, <2>7 DEF TypeOK
<1>5. ASSUME NEW s \in Sides, Leaves(s) PROVE TypeOK'
  <2>1. up' = [up EXCEPT ![s] = FALSE] /\ outbox' = [outbox EXCEPT ![s] = <<>>]
        /\ UNCHANGED <<pc, wire, client, origin, exchange>>
    BY <1>5 DEF Leaves
  <2>2. /\ \A t \in Sides : outbox'[t] \in Seq(Heads(t) \cup Marks \cup {Fin})
        /\ DOMAIN outbox' = Sides
    BY <2>1 DEF TypeOK
  <2>3. up' \in [Sides -> BOOLEAN]
    BY <2>1 DEF TypeOK
  <2>4. QED BY <2>1, <2>2, <2>3 DEF TypeOK
<1>6. QED BY <1>1, <1>2, <1>3, <1>4, <1>5 DEF Peers

-----------------------------------------------------------------------------
(* The steps of the proxy keep the types                                   *)

LEMMA SubmitTypes ==
    ASSUME TypeOK, NEW r \in Record, NEW error \in BOOLEAN, Submit(r, error)
    PROVE  /\ log' \in Seq([request: Nat, response: Nat, truncated: BOOLEAN, error: BOOLEAN])
           /\ Len(log') = Len(log) + 1
           /\ \A k \in DOMAIN log : k \in DOMAIN log' /\ log'[k] = log[k]
           /\ \A k \in DOMAIN log' : k \in DOMAIN log \/ k = Len(log) + 1
           /\ log'[Len(log) + 1] = [request |-> r.request, response |-> r.response,
                                    truncated |-> r.truncated, error |-> error]
<1> DEFINE R == [request: Nat, response: Nat, truncated: BOOLEAN, error: BOOLEAN]
           e == [request |-> r.request, response |-> r.response,
                 truncated |-> r.truncated, error |-> error]
<1>1. e \in R
  BY DEF Record
<1>2. log \in Seq(R)
  BY DEF TypeOK
<1>3. log' = Append(log, e)
  BY DEF Submit
<1> HIDE DEF R, e
<1>4. /\ log' \in Seq(R) /\ Len(log') = Len(log) + 1 /\ log'[Len(log) + 1] = e
      /\ \A k \in 1 .. Len(log) : log'[k] = log[k]
  BY <1>1, <1>2, <1>3, AppendProperties
<1>5. DOMAIN log = 1 .. Len(log) /\ DOMAIN log' = 1 .. Len(log) + 1 /\ Len(log) \in Nat
  BY <1>2, <1>4, LenProperties
<1>6. QED BY <1>4, <1>5 DEF R, e

LEMMA SentRecord ==
    ASSUME rec \in Record, body \in BodyState
    PROVE  /\ [rec EXCEPT !.request = body.total, !.truncated = @ \/ body.truncated] \in Record
           /\ [rec EXCEPT !.response = body.total, !.truncated = @ \/ body.truncated] \in Record
           /\ [rec EXCEPT !.request = @ + 1] \in Record
           /\ [rec EXCEPT !.response = @ + 1] \in Record
<1> DEFINE t == rec.truncated \/ body.truncated
<1>1. t \in BOOLEAN /\ body.total \in Nat /\ rec.request + 1 \in Nat /\ rec.response + 1 \in Nat
  BY DEF Record, BodyState
<1> HIDE DEF t
<1>2. /\ [rec EXCEPT !.request = body.total, !.truncated = t] \in Record
      /\ [rec EXCEPT !.response = body.total, !.truncated = t] \in Record
      /\ [rec EXCEPT !.request = rec.request + 1] \in Record
      /\ [rec EXCEPT !.response = rec.response + 1] \in Record
  BY <1>1 DEF Record
<1>3. QED BY <1>2 DEF t

LEMMA UnitTypes == ASSUME TypeOK, Unit PROVE body' \in BodyState
<1>1. body \in BodyState
  BY DEF TypeOK
<1>2. CASE body.framing = "length" /\ body' = Feed([body EXCEPT !.left = @ - 1])
  <2>1. body.left - 1 \in Nat
    BY <1>1, <1>2 DEF Unit, Complete, BodyState
  <2>2. [body EXCEPT !.left = @ - 1] \in BodyState
    BY <1>1, <2>1 DEF BodyState
  <2>3. QED BY <1>2, <2>2, FeedUnit
<1>3. CASE body' = Feed(body)
  BY <1>1, <1>3, FeedUnit
<1>4. CASE body' = [body EXCEPT !.trailers = TRUE]
  BY <1>1, <1>4 DEF BodyState
<1>5. CASE body' = [body EXCEPT !.ended = Next1(Reader).kind = "blank"]
  <2> DEFINE e == Next1(Reader).kind = "blank"
  <2>1. e \in BOOLEAN
    OBVIOUS
  <2> HIDE DEF e
  <2>2. [body EXCEPT !.ended = e] \in BodyState
    BY <1>1, <2>1 DEF BodyState
  <2>3. QED BY <1>5, <2>2 DEF e
<1>6. QED BY <1>2, <1>3, <1>4, <1>5 DEF Unit

LEMMA ProxyTypes == TypeOK /\ (Proxy \/ Losses) => TypeOK'
<1> SUFFICES ASSUME TypeOK, Proxy \/ Losses PROVE TypeOK'
  OBVIOUS
<1> USE DEF streams, client, origin, exchange
<1>1. "client" \in Sides /\ "origin" \in Sides /\ Reader \in Sides
  BY DEF Sides, Reader
<1>2. CASE TakeRequest
  <2>1. /\ wire' \in [Sides -> Seq(RequestHeads \cup ResponseHeads \cup Marks)]
        /\ \A t \in Sides : wire'[t] \in Seq(Heads(t) \cup Marks)
    BY <1>1, <1>2, ReadTypes DEF TakeRequest
  <2>2. Next1("client") \in RequestHeads
    BY <1>1, <1>2, ReadTypes DEF TakeRequest, Heads
  <2>3. taken' \in Seq(RequestHeads)
    BY <1>2, <2>2, AppendProperties DEF TypeOK, TakeRequest
  <2>4. body' \in BodyState /\ rec' \in Record
    BY <1>2, <2>2, BodyTypes DEF TakeRequest, RequestHeads
  <2>5. pc' = "reqBody" /\ UNCHANGED <<outbox, up, client, origin, answers, copying, log>>
    BY <1>2 DEF TakeRequest
  <2>6. QED BY <2>1, <2>3, <2>4, <2>5 DEF TypeOK
<1>3. CASE BadRequest
  <2>1. /\ wire' \in [Sides -> Seq(RequestHeads \cup ResponseHeads \cup Marks)]
        /\ \A t \in Sides : wire'[t] \in Seq(Heads(t) \cup Marks)
    BY <1>1, <1>3, ReadTypes DEF BadRequest
  <2>2. pc' = "closed" /\ UNCHANGED <<outbox, up, client, origin, exchange>>
    BY <1>3 DEF BadRequest
  <2>3. QED BY <2>1, <2>2 DEF TypeOK
<1>4. CASE NoMoreRequests \/ ResponseTimeout \/ Overlong
  <2>1. pc' = "closed" /\ UNCHANGED <<streams, client, origin, exchange>>
    BY <1>4 DEF NoMoreRequests, ResponseTimeout, Overlong
  <2>2. QED BY <2>1 DEF TypeOK
<1>5. CASE TakeResponse
  <2>1. /\ wire' \in [Sides -> Seq(RequestHeads \cup ResponseHeads \cup Marks)]
        /\ \A t \in Sides : wire'[t] \in Seq(Heads(t) \cup Marks)
    BY <1>1, <1>5, ReadTypes DEF TakeResponse
  <2>2. Next1("origin") \in ResponseHeads
    BY <1>1, <1>5, ReadTypes DEF TakeResponse, Heads
  <2>3. answers' \in Seq(ResponseHeads)
    BY <1>5, <2>2, AppendProperties DEF TypeOK, TakeResponse
  <2>4. /\ body' \in BodyState /\ copying' \subseteq Sides /\ awaiting' \in BOOLEAN
        /\ pc' \in {"relay", "respBody"}
    <3>1. Next1("origin").msg \in Responses
      BY <2>2 DEF ResponseHeads
    <3>2. StartBody(ResponseFraming(Next1("origin").msg, Request.method),
                    Next1("origin").msg.size) \in BodyState
      BY <3>1, BodyTypes
    <3>3. QED BY <1>5, <3>2 DEF TypeOK, TakeResponse
  <2>5. UNCHANGED <<outbox, up, composed, origin, taken, rec, log>>
    BY <1>5 DEF TakeResponse
  <2>6. QED BY <2>1, <2>3, <2>4, <2>5 DEF TypeOK
<1>6. CASE Unit
  <2>1. /\ wire' \in [Sides -> Seq(RequestHeads \cup ResponseHeads \cup Marks)]
        /\ \A t \in Sides : wire'[t] \in Seq(Heads(t) \cup Marks)
    BY <1>1, <1>6, ReadTypes DEF Unit
  <2>2. UNCHANGED <<pc, outbox, up, client, origin, taken, answers, rec, copying, log>>
    BY <1>6 DEF Unit
  <2>3. QED BY <1>6, <2>1, <2>2, UnitTypes DEF TypeOK
<1>7. CASE EndsWithStream
  <2>1. body' = [body EXCEPT !.ended = TRUE]
        /\ UNCHANGED <<pc, streams, client, origin, taken, answers, rec, copying, log>>
    BY <1>7 DEF EndsWithStream
  <2>2. body' \in BodyState
    BY <2>1 DEF TypeOK, BodyState
  <2>3. QED BY <2>1, <2>2 DEF TypeOK
<1>8. CASE Aborts
  <2>1. log' \in Seq([request: Nat, response: Nat, truncated: BOOLEAN, error: BOOLEAN])
    BY <1>8, SubmitTypes DEF TypeOK, Aborts
  <2>2. pc' = "closed" /\ UNCHANGED <<streams, client, origin, taken, answers, body, rec, copying>>
    BY <1>8 DEF Aborts
  <2>3. QED BY <2>1, <2>2 DEF TypeOK
<1>9. CASE RequestSent
  <2>1. /\ rec' = [rec EXCEPT !.request = body.total, !.truncated = @ \/ body.truncated]
        /\ pc' = "respHead"
        /\ UNCHANGED <<streams, client, origin, taken, answers, body, copying, log>>
    BY <1>9 DEF RequestSent
  <2>2. rec' \in Record
    BY <2>1, SentRecord DEF TypeOK
  <2>3. QED BY <2>1, <2>2 DEF TypeOK
<1>10. CASE ResponseSent
  <2>1. /\ rec' = [rec EXCEPT !.response = body.total, !.truncated = @ \/ body.truncated]
        /\ Submit(rec', FALSE) /\ pc' \in {"head", "closed"}
        /\ UNCHANGED <<streams, client, origin, taken, answers, body, copying>>
    BY <1>10 DEF ResponseSent
  <2>2. rec' \in Record
    BY <2>1, SentRecord DEF TypeOK
  <2>3. log' \in Seq([request: Nat, response: Nat, truncated: BOOLEAN, error: BOOLEAN])
    BY <2>1, <2>2, SubmitTypes
  <2>4. QED BY <2>1, <2>2, <2>3 DEF TypeOK
<1>11. ASSUME NEW s \in Sides, Relays(s) PROVE TypeOK'
  <2>1. /\ wire' \in [Sides -> Seq(RequestHeads \cup ResponseHeads \cup Marks)]
        /\ \A t \in Sides : wire'[t] \in Seq(Heads(t) \cup Marks)
    BY <1>11, ReadTypes DEF Relays
  <2>2. rec' \in Record
    BY <1>11, SentRecord DEF TypeOK, Relays
  <2>3. UNCHANGED <<pc, outbox, up, client, origin, taken, answers, body, copying, log>>
    BY <1>11 DEF Relays
  <2>4. QED BY <2>1, <2>2, <2>3 DEF TypeOK
<1>12. ASSUME NEW s \in Sides, RelayEnds(s) \/ RelayLost(s) PROVE TypeOK'
  <2>1. copying' \subseteq Sides
        /\ UNCHANGED <<pc, streams, client, origin, taken, answers, body, rec, log>>
    BY <1>12 DEF TypeOK, RelayEnds, RelayLost
  <2>2. QED BY <2>1 DEF TypeOK
<1>13. CASE BothRelaysDone
  <2>1. /\ Submit(rec, FALSE) /\ pc' = "closed"
        /\ UNCHANGED <<streams, client, origin, taken, answers, body, rec, copying>>
    BY <1>13 DEF BothRelaysDone
  <2>2. log' \in Seq([request: Nat, response: Nat, truncated: BOOLEAN, error: BOOLEAN])
    BY <2>1, SubmitTypes DEF TypeOK
  <2>3. QED BY <2>1, <2>2 DEF TypeOK
<1>14. QED BY <1>2, <1>3, <1>4, <1>5, <1>6, <1>7, <1>8, <1>9, <1>10, <1>11, <1>12, <1>13
           DEF Proxy, Losses, LosesPeer, Fails

(* Every variable has its type; a head leaves a stream of its own sender    *)
(* only, and no length of a body becomes negative.                         *)
THEOREM TypeCorrect == Spec => []TypeOK
<1>1. TypeOK /\ [Next]_vars => TypeOK'
  <2>1. TypeOK /\ UNCHANGED vars => TypeOK'
    BY DEF vars, streams, client, origin, exchange, TypeOK
  <2>2. QED BY <2>1, ProxyTypes, PeersTypes DEF Next
<1>2. QED BY <1>1, InitTypes, PTL DEF Spec

-----------------------------------------------------------------------------
(* What the log says of the streams and of the bodies                      *)

LEMMA InitInv == Init => ExchangeInv
<1> SUFFICES ASSUME Init PROVE ExchangeInv
  OBVIOUS
<1>1. pc = "head" /\ Len(taken) = 0 /\ Len(answers) = 0 /\ Len(log) = 0 /\ DOMAIN log = {}
  BY DEF Init
<1>2. body.kept = 0 /\ body.total = 0 /\ body.truncated = FALSE
  BY DEF Init, NoBody, StartBody
<1>3. Tee(body) /\ body.kept <= CaptureLimit
  BY <1>2, LimitAssumption DEF Tee
<1>4. QED BY <1>1, <1>3 DEF ExchangeInv, CountInv, LastInv, AnswerInv, RecInv, TruncationIsExact,
                           Finished

LEMMA StartTee == ASSUME NEW framing, NEW size PROVE Tee(StartBody(framing, size))
BY LimitAssumption DEF Tee, StartBody

LEMMA TeeBound == ASSUME NEW b \in BodyState, Tee(b) PROVE b.kept <= CaptureLimit
BY LimitAssumption DEF Tee, BodyState

LEMMA FeedTee == ASSUME NEW b \in BodyState, Tee(b) PROVE Tee(Feed(b))
<1>1. b.kept \in Nat /\ b.total \in Nat
  BY DEF BodyState
<1>2. /\ Feed(b).total = b.total + 1
      /\ Feed(b).kept = IF b.kept < CaptureLimit THEN b.kept + 1 ELSE b.kept
      /\ Feed(b).truncated <=> (b.truncated \/ b.kept >= CaptureLimit)
  BY FeedUnit
<1>3. /\ b.kept = IF b.total <= CaptureLimit THEN b.total ELSE CaptureLimit
      /\ b.truncated <=> b.total > CaptureLimit
  BY DEF Tee
<1>4. QED BY <1>1, <1>2, <1>3, LimitAssumption DEF Tee

LEMMA UnitTee == ASSUME TypeOK, Tee(body), Unit
                 PROVE  Tee(body') /\ body'.framing = body.framing
<1>1. body \in BodyState
  BY DEF TypeOK
<1>2. CASE body.framing = "length" /\ body' = Feed([body EXCEPT !.left = @ - 1])
  <2> DEFINE b == [body EXCEPT !.left = @ - 1]
  <2>1. body.left - 1 \in Nat
    BY <1>1, <1>2 DEF Unit, Complete, BodyState
  <2>2. b \in BodyState /\ b.framing = body.framing /\ b.kept = body.kept
        /\ b.total = body.total /\ b.truncated = body.truncated
    BY <1>1, <2>1 DEF BodyState
  <2>3. body' = Feed(b)
    BY <1>2
  <2> HIDE DEF b
  <2>4. Tee(b)
    BY <2>2 DEF Tee
  <2>5. QED BY <2>2, <2>3, <2>4, FeedTee, FeedUnit
<1>3. CASE body' = Feed(body)
  BY <1>1, <1>3, FeedTee, FeedUnit
<1>4. CASE body' = [body EXCEPT !.trailers = TRUE]
  BY <1>1, <1>4 DEF BodyState, Tee
<1>5. CASE body' = [body EXCEPT !.ended = Next1(Reader).kind = "blank"]
  <2> DEFINE e == Next1(Reader).kind = "blank"
  <2> HIDE DEF e
  <2>1. body' = [body EXCEPT !.ended = e]
    BY <1>5 DEF e
  <2>2. QED BY <1>1, <2>1 DEF BodyState, Tee
<1>6. QED BY <1>2, <1>3, <1>4, <1>5 DEF Unit

(* What one exchange has recorded outlives the next heads.                  *)
LEMMA KeepsRecords ==
    ASSUME TypeOK, ExchangeInv, log' = log,
           Len(log) <= Len(taken), Len(log) <= Len(answers), pc # "closed",
           \A k \in DOMAIN taken : taken'[k] = taken[k],
           \A k \in DOMAIN answers : answers'[k] = answers[k],
           body'.kept <= CaptureLimit
    PROVE  LastInv' /\ TruncationIsExact'
<1>1. \A k \in DOMAIN log : /\ taken'[k] = taken[k] /\ answers'[k] = answers[k]
                            /\ log'[k] = log[k]
  BY LenProperties DEF TypeOK
<1>2. \A k \in DOMAIN log : /\ Reusable(k)' <=> Reusable(k)
                            /\ Switched(k)' <=> Switched(k)
  BY <1>1 DEF Reusable, Switched, CloseDelimited, Bodiless
<1>3. LastInv'
  BY <1>2 DEF ExchangeInv, LastInv
<1>4. TruncationIsExact'
  BY <1>1, <1>2 DEF ExchangeInv, TruncationIsExact, Finished
<1>5. QED BY <1>3, <1>4

(* A new record: the last one of the streams, or one of a reusable exchange. *)
LEMMA AddsRecord ==
    ASSUME TypeOK, ExchangeInv, pc # "closed", UNCHANGED <<taken, answers, body>>,
           NEW r \in Record, NEW error \in BOOLEAN, Submit(r, error),
           Len(taken) = Len(log) + 1,
           \/ pc' = "closed"
           \/ /\ ~error /\ ~taken[Len(taken)].msg.last /\ ~answers[Len(taken)].msg.last
              /\ ~CloseDelimited(Len(taken)),
           \/ error \/ Switched(Len(taken))
           \/ r.truncated <=> (r.request > CaptureLimit \/ r.response > CaptureLimit)
    PROVE  LastInv' /\ TruncationIsExact'
<1>0. PICK n \in Nat : n = Len(log) + 1 /\ n = Len(taken)
  BY LenProperties DEF TypeOK
<1> DEFINE e == [request |-> r.request, response |-> r.response,
                truncated |-> r.truncated, error |-> error]
<1>1. /\ \A k \in DOMAIN log : k \in DOMAIN log' /\ log'[k] = log[k]
      /\ \A k \in DOMAIN log' : k \in DOMAIN log \/ k = n
      /\ log'[n] = e
  BY <1>0, SubmitTypes
<1>2. \A k : /\ Switched(k)' <=> Switched(k)
             /\ CloseDelimited(k)' <=> CloseDelimited(k)
  BY DEF Switched, CloseDelimited, Bodiless
<1>3. log'[n].error = error /\ log'[n].truncated = r.truncated
      /\ log'[n].request = r.request /\ log'[n].response = r.response
  BY <1>1
<1> HIDE DEF e
<1>4. LastInv'
  <2>1. \A k \in DOMAIN log : Reusable(k)'
    BY <1>1, <1>2 DEF ExchangeInv, LastInv, Reusable
  <2>2. Reusable(n)' \/ (n = Len(taken') /\ pc' = "closed")
    BY <1>0, <1>2, <1>3 DEF Reusable
  <2>3. QED BY <1>1, <2>1, <2>2 DEF LastInv
<1>5. TruncationIsExact'
  <2>1. body'.kept <= CaptureLimit
    BY DEF ExchangeInv, TruncationIsExact
  <2>2. ASSUME NEW k \in DOMAIN log, ~log'[k].error, ~Switched(k)'
        PROVE  log'[k].truncated <=> (log'[k].request > CaptureLimit
                                      \/ log'[k].response > CaptureLimit)
    BY <1>1, <1>2, <2>2 DEF ExchangeInv, TruncationIsExact, Finished
  <2>3. ASSUME ~log'[n].error, ~Switched(n)'
        PROVE  log'[n].truncated <=> (log'[n].request > CaptureLimit
                                      \/ log'[n].response > CaptureLimit)
    BY <1>0, <1>2, <1>3, <2>3
  <2>4. QED BY <1>1, <2>1, <2>2, <2>3 DEF TruncationIsExact, Finished
<1>6. QED BY <1>4, <1>5

(* The bookkeeping of each step of the proxy.                               *)
LEMMA ProxyInv == TypeOK /\ ExchangeInv /\ (Proxy \/ Losses) => ExchangeInv'
<1> SUFFICES ASSUME TypeOK, ExchangeInv, Proxy \/ Losses PROVE ExchangeInv'
  OBVIOUS
<1> USE DEF streams, client, origin, exchange
<1>1. /\ CountInv /\ LastInv /\ AnswerInv /\ Tee(body) /\ RecInv /\ TruncationIsExact
      /\ body \in BodyState /\ rec \in Record
      /\ Len(log) \in Nat /\ Len(taken) \in Nat /\ Len(answers) \in Nat
  BY LenProperties DEF ExchangeInv, TypeOK
<1>2. CASE TakeRequest
  <2>1. /\ pc = "head" /\ pc' = "reqBody" /\ rec' = NewRecord /\ UNCHANGED <<answers, copying, log>>
        /\ body' = StartBody(RequestFraming(Next1("client").msg), Next1("client").msg.size)
        /\ taken' = Append(taken, Next1("client"))
    BY <1>2 DEF TakeRequest
  <2>2. Next1("client") \in RequestHeads
    BY <1>2, ReadTypes DEF TakeRequest, Heads, Sides
  <2>3. Len(taken') = Len(taken) + 1 /\ \A k \in DOMAIN taken : taken'[k] = taken[k]
    <3>1. taken \in Seq(RequestHeads) /\ DOMAIN taken = 1 .. Len(taken)
      BY LenProperties DEF TypeOK
    <3>2. /\ Len(Append(taken, Next1("client"))) = Len(taken) + 1
          /\ Append(taken, Next1("client"))[Len(taken) + 1] = Next1("client")
          /\ \A k \in 1 .. Len(taken) : Append(taken, Next1("client"))[k] = taken[k]
      BY <2>2, <3>1, AppendProperties
    <3>3. taken' = Append(taken, Next1("client"))
      BY <2>1
    <3>4. QED BY <3>1, <3>2, <3>3
  <2>4. Tee(body') /\ body'.kept <= CaptureLimit
    <3>1. Tee(body')
      BY <2>1, StartTee
    <3>2. body'.kept = 0
      BY <2>1 DEF StartBody
    <3>3. QED BY <3>1, <3>2, LimitAssumption
  <2>5. CountInv'
    BY <1>1, <2>1, <2>3 DEF CountInv
  <2>6. LastInv' /\ TruncationIsExact'
    BY <1>1, <2>1, <2>3, <2>4, KeepsRecords DEF CountInv
  <2>7. AnswerInv' /\ RecInv'
    BY <2>1 DEF AnswerInv, RecInv, NewRecord
  <2>8. QED BY <2>4, <2>5, <2>6, <2>7 DEF ExchangeInv
<1>3. CASE BadRequest \/ NoMoreRequests \/ ResponseTimeout \/ Overlong
  <2>0. pc \in {"head", "reqBody", "respHead", "respBody"}
    BY <1>3 DEF BadRequest, NoMoreRequests, ResponseTimeout, Overlong, BadLine, Pumping
  <2>1. pc # "closed" /\ pc' = "closed" /\ UNCHANGED exchange
    BY <1>3, <2>0 DEF BadRequest, NoMoreRequests, ResponseTimeout, Overlong
  <2>2. Len(log) <= Len(taken) /\ Len(log) <= Len(answers)
    BY <1>1, <2>0 DEF CountInv
  <2>3. body'.kept <= CaptureLimit
    BY <1>1, <2>1 DEF TruncationIsExact
  <2>4. LastInv' /\ TruncationIsExact'
    BY <2>1, <2>2, <2>3, KeepsRecords
  <2>5. QED BY <1>1, <2>1, <2>4 DEF ExchangeInv, CountInv, AnswerInv, RecInv, Tee
<1>4. CASE TakeResponse
  <2> DEFINE h == Next1("origin")
             f == ResponseFraming(h.msg, Request.method)
  <2>1. /\ pc = "respHead" /\ UNCHANGED <<taken, rec, log>>
        /\ answers' = Append(answers, h)
        /\ \/ h.msg.status = "switch" /\ pc' = "relay" /\ UNCHANGED body
           \/ h.msg.status # "switch" /\ pc' = "respBody" /\ body' = StartBody(f, h.msg.size)
    BY <1>4 DEF TakeResponse
  <2>2. h \in ResponseHeads
    BY <1>4, ReadTypes DEF TakeResponse, Heads, Sides
  <2> HIDE DEF h
  <2>3. /\ Len(answers') = Len(answers) + 1 /\ answers'[Len(answers) + 1] = h
        /\ \A k \in DOMAIN answers : answers'[k] = answers[k]
    <3>1. answers \in Seq(ResponseHeads) /\ DOMAIN answers = 1 .. Len(answers)
      BY LenProperties DEF TypeOK
    <3>2. /\ Len(Append(answers, h)) = Len(answers) + 1
          /\ Append(answers, h)[Len(answers) + 1] = h
          /\ \A k \in 1 .. Len(answers) : Append(answers, h)[k] = answers[k]
      BY <2>2, <3>1, AppendProperties
    <3>3. answers' = Append(answers, h)
      BY <2>1
    <3>4. QED BY <3>1, <3>2, <3>3
  <2>4. Tee(body') /\ body'.kept <= CaptureLimit
    <3>1. CASE UNCHANGED body
      BY <1>1, <3>1 DEF TruncationIsExact, Tee
    <3>2. CASE body' = StartBody(f, h.msg.size)
      <4>1. Tee(body')
        BY <3>2, StartTee
      <4>2. body'.kept = 0
        BY <3>2 DEF StartBody
      <4>3. QED BY <4>1, <4>2, LimitAssumption
    <3>3. QED BY <2>1, <3>1, <3>2
  <2>5. CountInv'
    BY <1>1, <2>1, <2>3 DEF CountInv
  <2>6. LastInv' /\ TruncationIsExact'
    BY <1>1, <2>1, <2>3, <2>4, KeepsRecords DEF CountInv
  <2>7. AnswerInv'
    <3>1. Last' = Len(taken) /\ Last' = Len(answers) + 1
      BY <1>1, <2>1, <2>3 DEF CountInv, Last
    <3>2. answers'[Last'] = h /\ taken'[Last'] = taken[Len(taken)]
      BY <2>1, <2>3, <3>1
    <3>3. ASSUME pc' = "respBody" PROVE body'.framing = "eof" <=> CloseDelimited(Last)'
      <4>1. body'.framing = f
        BY <2>1, <3>3 DEF StartBody
      <4>2. h.msg.coding # "eof"
        BY <2>2, ResponsesAssumption DEF ResponseHeads, Codings
      <4>3. CloseDelimited(Last)' <=> /\ h.msg.status = "final"
                                      /\ taken[Len(taken)].msg.method # "HEAD"
                                      /\ h.msg.coding = "absent"
        BY <3>2 DEF CloseDelimited, Bodiless
      <4>4. QED BY <4>1, <4>2, <4>3 DEF ResponseFraming, Request
    <3>4. QED BY <2>1, <3>2, <3>3 DEF AnswerInv
  <2>8. RecInv'
    BY <1>1, <2>1 DEF RecInv
  <2>9. QED BY <2>4, <2>5, <2>6, <2>7, <2>8 DEF ExchangeInv
<1>5. CASE Unit \/ EndsWithStream
  <2>1. UNCHANGED <<pc, taken, answers, rec, copying, log>> /\ pc \in {"reqBody", "respBody"}
    BY <1>5 DEF Unit, EndsWithStream, Pumping
  <2>2. Tee(body') /\ body'.framing = body.framing /\ body' \in BodyState
    <3>1. CASE Unit
      BY <1>1, <3>1, UnitTee, UnitTypes
    <3>2. CASE EndsWithStream
      BY <1>1, <3>2 DEF EndsWithStream, BodyState, Tee
    <3>3. QED BY <1>5, <3>1, <3>2
  <2>3. body'.kept <= CaptureLimit
    BY <2>2, TeeBound
  <2>4. LastInv' /\ TruncationIsExact'
    BY <1>1, <2>1, <2>3, KeepsRecords DEF CountInv
  <2>5. AnswerInv'
    BY <1>1, <2>1, <2>2 DEF AnswerInv, Last, CloseDelimited, Bodiless
  <2>6. QED BY <1>1, <2>1, <2>2, <2>4, <2>5 DEF ExchangeInv, CountInv, RecInv
<1>6. CASE Fails \/ LosesPeer
  <2>1. pc \in {"reqBody", "respHead", "respBody", "relay"}
    BY <1>6 DEF Fails, LosesPeer, Malformed, BadLine, PeerLost, Pumping
  <2>2. /\ Submit(rec, TRUE) /\ pc' = "closed"
        /\ UNCHANGED <<taken, answers, body, rec>>
    BY <1>6 DEF Fails, LosesPeer, Aborts
  <2>3. LastInv' /\ TruncationIsExact'
    BY <1>1, <2>1, <2>2, AddsRecord DEF CountInv
  <2>4. QED BY <1>1, <2>2, <2>3 DEF ExchangeInv, CountInv, AnswerInv, RecInv, Tee
<1>7. CASE RequestSent
  <2> DEFINE t == rec.truncated \/ body.truncated
  <2>1. /\ pc = "reqBody" /\ pc' = "respHead"
        /\ rec' = [rec EXCEPT !.request = body.total, !.truncated = t]
        /\ UNCHANGED <<taken, answers, body, log>>
    BY <1>7 DEF RequestSent
  <2>2. rec'.request = body.total /\ rec'.truncated = t
    BY <1>1, <2>1 DEF Record
  <2>3. RecInv'
    BY <1>1, <2>1, <2>2 DEF RecInv, Tee
  <2>4. LastInv' /\ TruncationIsExact'
    BY <1>1, <2>1, KeepsRecords DEF CountInv, TruncationIsExact
  <2>5. QED BY <1>1, <2>1, <2>3, <2>4 DEF ExchangeInv, CountInv, AnswerInv, Tee
<1>8. CASE ResponseSent
  <2> DEFINE t == rec.truncated \/ body.truncated
  <2>1. /\ pc = "respBody" /\ pc' = IF KeepAlive THEN "head" ELSE "closed"
        /\ rec' = [rec EXCEPT !.response = body.total, !.truncated = t]
        /\ Submit(rec', FALSE) /\ UNCHANGED <<taken, answers, body>>
    BY <1>8 DEF ResponseSent
  <2>2. /\ rec'.request = rec.request /\ rec'.response = body.total /\ rec'.truncated = t
        /\ rec' \in Record
    BY <1>1, <2>1, SentRecord DEF Record
  <2>3. rec'.truncated <=> (rec'.request > CaptureLimit \/ rec'.response > CaptureLimit)
    BY <1>1, <2>1, <2>2 DEF RecInv, Tee
  <2>4. Len(taken) = Len(log) + 1 /\ Len(answers) = Len(taken)
    BY <1>1, <2>1 DEF CountInv
  <2>5. \/ pc' = "closed"
        \/ /\ ~taken[Len(taken)].msg.last /\ ~answers[Len(taken)].msg.last
           /\ ~CloseDelimited(Len(taken))
    BY <1>1, <2>1, <2>4 DEF KeepAlive, Request, AnswerInv, Last
  <2>6. LastInv' /\ TruncationIsExact'
    BY <2>1, <2>2, <2>3, <2>4, <2>5, AddsRecord
  <2>7. Len(log') = Len(log) + 1
    BY <2>1, <2>2, SubmitTypes
  <2>8. CountInv' /\ AnswerInv' /\ RecInv'
    BY <2>1, <2>4, <2>7 DEF CountInv, AnswerInv, RecInv
  <2>9. QED BY <1>1, <2>1, <2>6, <2>8 DEF ExchangeInv, Tee
<1>9. CASE \E s \in Sides : Relays(s) \/ RelayEnds(s) \/ RelayLost(s)
  <2>1. pc = "relay" /\ UNCHANGED <<pc, taken, answers, body, log>>
    BY <1>9 DEF Relays, RelayEnds, RelayLost
  <2>2. LastInv' /\ TruncationIsExact'
    BY <1>1, <2>1, KeepsRecords DEF CountInv, TruncationIsExact
  <2>3. QED BY <1>1, <2>1, <2>2 DEF ExchangeInv, CountInv, AnswerInv, RecInv, Tee, Last
<1>10. CASE BothRelaysDone
  <2>1. /\ pc = "relay" /\ pc' = "closed" /\ Submit(rec, FALSE)
        /\ UNCHANGED <<taken, answers, body, rec>>
    BY <1>10 DEF BothRelaysDone
  <2>2. Len(taken) = Len(log) + 1 /\ Len(answers) = Len(taken)
    BY <1>1, <2>1 DEF CountInv
  <2>3. Switched(Len(taken))
    BY <1>1, <2>1, <2>2 DEF AnswerInv, Last, Switched
  <2>4. LastInv' /\ TruncationIsExact'
    BY <1>1, <2>1, <2>2, <2>3, AddsRecord
  <2>5. QED BY <1>1, <2>1, <2>4 DEF ExchangeInv, CountInv, AnswerInv, RecInv, Tee
<1>11. QED BY <1>2, <1>3, <1>4, <1>5, <1>6, <1>7, <1>8, <1>9, <1>10 DEF Proxy, Losses

LEMMA StepInv == TypeOK /\ ExchangeInv /\ [Next]_vars => ExchangeInv'
<1>1. ASSUME ExchangeInv, UNCHANGED <<pc, exchange>> PROVE ExchangeInv'
  BY <1>1 DEF exchange, ExchangeInv, CountInv, LastInv, AnswerInv, RecInv, Tee, Last, Reusable,
              TruncationIsExact, Finished, Switched, CloseDelimited, Bodiless
<1>2. UNCHANGED vars => UNCHANGED <<pc, exchange>>
  BY DEF vars
<1>3. QED BY <1>1, <1>2, ProxyInv, PeersLeaveExchange DEF Next

LEMMA InvCorrect == Spec => []ExchangeInv
BY InitInv, StepInv, TypeCorrect, PTL DEF Spec

(* After an exchange that failed, that either peer announced as its last,   *)
(* or whose response ends with the stream, no head is taken any more.      *)
THEOREM LastCorrect == Spec => []NothingAfterLast
<1>1. TypeOK /\ ExchangeInv => NothingAfterLast
  BY DEF ExchangeInv, LastInv, Reusable, NothingAfterLast
<1>2. QED BY <1>1, TypeCorrect, InvCorrect, PTL

(* However bodies are framed and cut, a record says that they were          *)
(* truncated exactly when one was longer than the limit, and no more than  *)
(* the limit is held.                                                      *)
THEOREM TruncationCorrect == Spec => []TruncationIsExact
<1>1. ExchangeInv => TruncationIsExact
  BY DEF ExchangeInv
<1>2. QED BY <1>1, InvCorrect, PTL
=============================================================================
