---------------------------- MODULE FramingProofs ----------------------------
(***************************************************************************)
(* Proofs about the two streams of Exchange.tla: where the proxy looks for *)
(* a head there is one, each request gets its own answer, and records have *)
(* the sizes that were sent, for every set of messages and any number of   *)
(* them under way.                                                         *)
(***************************************************************************)
EXTENDS ExchangeProofs, Backpressure

(* What is on its way to the proxy and what is still to be written.         *)
Stream(s) == wire[s] \o outbox[s]

(* The tokens of a body of n units: how many, and their kinds by position.  *)
Span(framing, n) == IF framing = "none" THEN 0 ELSE IF framing = "chunked" THEN n + 2 ELSE n
KindAt(n, p) == IF p <= n THEN "data" ELSE IF p = n + 1 THEN "last" ELSE "blank"

RequestSpan(msg) == Span(RequestFraming(msg), msg.size)
ResponseSpan(msg, method) == Span(ResponseFraming(msg, method), msg.size)

(* How many of them pump_body has consumed.                                 *)
Consumed(b, n) == IF b.framing = "chunked" /\ b.ended THEN n + 2
                  ELSE IF b.trailers THEN n + 1 ELSE b.total

(* In the stream S a body starts after position "start" (which is negative  *)
(* when the proxy has read a part of it) and is followed by the head of the *)
(* message after the id-th, if anything follows.                           *)
Fits(S, start, span, n, id) ==
    \A i \in DOMAIN S :
       /\ start < i /\ i <= start + span => S[i].kind = KindAt(n, i - start)
       /\ i = start + span + 1 => /\ S[i].kind \in {"head", "bad", "fin"}
                                  /\ S[i].kind = "head" => S[i].id = id + 1

(* A sender that is still there has written or will write all of it, and    *)
(* nothing follows the last message it has composed.                       *)
Whole(S, start, span, id, count) == /\ start + span <= Len(S)
                                    /\ start + span = Len(S) => id = count

Framed(S, open, count, start, span, n, id) ==
    Fits(S, start, span, n, id) /\ (open => Whole(S, start, span, id, count))

(* The stream begins with the rest of a body, and every head in it is       *)
(* followed by its own body.                                               *)
InFrame(S, open, count, start, span, n, id) ==
    /\ Framed(S, open, count, start, span, n, id)
    /\ \A i \in DOMAIN S :
          S[i].kind = "head" =>
             Framed(S, open, count, i, RequestSpan(S[i].msg), S[i].msg.size, S[i].id)

(* After "start" there is nothing but the rest of one body.                 *)
OnlyBody(S, start, span, n) ==
    \A i \in DOMAIN S :
       start < i => S[i].kind = IF i <= start + span THEN KindAt(n, i - start) ELSE "fin"

(* A sender that has ended its stream has nothing left to write.            *)
FinInv == \A s \in Sides :
             /\ ~up[s] => outbox[s] = <<>>
             /\ \A i \in DOMAIN outbox[s] : outbox[s][i] = Fin => i = Len(outbox[s])

ClientInv ==
    /\ \A k \in DOMAIN taken : taken[k].id = k
    /\ pc = "reqBody" =>
          InFrame(Stream("client"), up["client"], composed, -Consumed(body, Request.size),
                  RequestSpan(Request), Request.size, Len(taken))
    /\ pc \in {"head", "respHead", "respBody"} =>
          InFrame(Stream("client"), up["client"], composed, 0, 0, 0, Len(taken))

Answer == answers[Len(answers)].msg

(* An answer, a head that does not parse, or the end of the stream.         *)
Answered(S, open) ==
    \/ S[1].kind = "fin" /\ Len(S) = 1
    \/ S[1].kind = "bad" /\ (open => Len(S) = 2) /\ OnlyBody(S, 1, 0, 0)
    \/ /\ S[1].kind = "head" /\ S[1].id = Len(taken) /\ answered = Len(taken)
       /\ OnlyBody(S, 1, ResponseSpan(S[1].msg, Request.method), S[1].msg.size)

OriginInv == interims = 0 =>
    /\ pc = "head" => answered = Len(taken) /\ OnlyBody(Stream("origin"), 0, 0, 0)
    /\ pc \in {"reqBody", "respHead"} =>
          /\ answered \in {Len(taken) - 1, Len(taken)}
          /\ Stream("origin") # <<>> => Answered(Stream("origin"), up["origin"])
    /\ pc = "respBody" =>
          /\ answered = Len(taken)
          /\ OnlyBody(Stream("origin"), -Consumed(body, Answer.size),
                      ResponseSpan(Answer, Request.method), Answer.size)
    /\ pc \in {"respBody", "relay"} => answers[Len(answers)].id = Len(taken)

(* What pump_body has counted of a body of n units.                         *)
Counted(b, framing, n) ==
    /\ b.framing = framing
    /\ framing = "none" => b.ended /\ b.total = 0 /\ ~b.trailers
    /\ framing = "length" => b.total + b.left = n /\ ~b.ended /\ ~b.trailers
    /\ framing = "chunked" => /\ b.total <= n
                              /\ b.trailers => b.total = n
                              /\ b.ended => b.trailers
    /\ framing = "eof" => b.total <= n /\ ~b.trailers

RequestSize(msg) == IF msg.coding = "absent" THEN 0 ELSE msg.size

CountedInv ==
    /\ pc = "reqBody" => Counted(body, RequestFraming(Request), Request.size)
    /\ pc \in {"respHead", "respBody"} => rec.request = RequestSize(Request)
    /\ interims = 0 /\ pc = "respBody" =>
          Counted(body, ResponseFraming(Answer, Request.method), Answer.size)

FramingInv == FinInv /\ ClientInv /\ OriginInv /\ CountedInv /\ SizesAreExact

-----------------------------------------------------------------------------
(* Streams in frame                                                        *)

(* A beginning of a stream is in frame when the stream is.                  *)
LEMMA PrefixInFrame ==
    ASSUME NEW S, NEW l \in Nat, DOMAIN S = 1 .. l, Len(S) = l,
           NEW R, NEW r \in 0 .. l, DOMAIN R = 1 .. r, Len(R) = r,
           \A i \in 1 .. r : R[i] = S[i],
           NEW open \in BOOLEAN, NEW still \in BOOLEAN, still => open /\ r = l,
           NEW count, NEW start, NEW span, NEW n, NEW id,
           InFrame(S, open, count, start, span, n, id)
    PROVE  InFrame(R, still, count, start, span, n, id)
<1>0. \A i \in DOMAIN R : i \in DOMAIN S /\ R[i] = S[i]
  OBVIOUS
<1>1. ASSUME NEW a, NEW b, NEW c, NEW d, Framed(S, open, count, a, b, c, d)
      PROVE  Framed(R, still, count, a, b, c, d)
  <2>2. Fits(S, a, b, c, d) /\ (open => Whole(S, a, b, d, count))
    BY <1>1 DEF Framed
  <2>3. Fits(R, a, b, c, d)
    BY <1>0, <2>2 DEF Fits
  <2>4. still => Whole(R, a, b, d, count)
    BY <2>2 DEF Whole
  <2>5. QED BY <2>3, <2>4 DEF Framed
<1>2. Framed(R, still, count, start, span, n, id)
  BY <1>1 DEF InFrame
<1>3. ASSUME NEW i \in DOMAIN R, R[i].kind = "head"
      PROVE  Framed(R, still, count, i, RequestSpan(R[i].msg), R[i].msg.size, R[i].id)
  <2>1. i \in DOMAIN S /\ R[i] = S[i]
    BY <1>0
  <2>2. Framed(S, open, count, i, RequestSpan(S[i].msg), S[i].msg.size, S[i].id)
    BY <1>3, <2>1 DEF InFrame
  <2>3. QED BY <1>1, <2>1, <2>2
<1>4. QED BY <1>2, <1>3 DEF InFrame

(* R is what follows the first of the l tokens of S.                        *)
Shifted(S, l, R) ==
    /\ DOMAIN S = 1 .. l /\ Len(S) = l /\ DOMAIN R = 1 .. (l - 1) /\ Len(R) = l - 1
    /\ \A i \in 1 .. (l - 1) : R[i] = S[i + 1]
    /\ \A i \in DOMAIN S : S[i].kind = "head" =>
          S[i].msg.size \in Nat /\ RequestSpan(S[i].msg) \in Nat

(* What follows the first token is in frame when the whole is.              *)
LEMMA TailInFrame ==
    ASSUME NEW S, NEW l \in Nat \ {0}, NEW R, Shifted(S, l, R),
           NEW open, NEW count, NEW start \in Int, NEW span \in Nat, NEW n \in Nat, NEW id,
           InFrame(S, open, count, start, span, n, id)
    PROVE  InFrame(R, open, count, start - 1, span, n, id)
<1> USE DEF Shifted
<1>1. ASSUME NEW a \in Int, NEW b \in Nat, NEW c \in Nat, NEW d,
             Framed(S, open, count, a, b, c, d)
      PROVE  Framed(R, open, count, a - 1, b, c, d)
  <2>1. Fits(S, a, b, c, d) /\ (open => Whole(S, a, b, d, count))
    BY <1>1 DEF Framed
  <2>2. Fits(R, a - 1, b, c, d)
    <3> SUFFICES ASSUME NEW i \in DOMAIN R
                 PROVE  /\ a - 1 < i /\ i <= a - 1 + b => R[i].kind = KindAt(c, i - (a - 1))
                        /\ i = a - 1 + b + 1 => /\ R[i].kind \in {"head", "bad", "fin"}
                                                /\ R[i].kind = "head" => R[i].id = d + 1
      BY DEF Fits
    <3>1. i + 1 \in DOMAIN S /\ R[i] = S[i + 1]
      OBVIOUS
    <3>2. /\ a < i + 1 /\ i + 1 <= a + b => S[i + 1].kind = KindAt(c, (i + 1) - a)
          /\ i + 1 = a + b + 1 => /\ S[i + 1].kind \in {"head", "bad", "fin"}
                                  /\ S[i + 1].kind = "head" => S[i + 1].id = d + 1
      BY <2>1, <3>1 DEF Fits
    <3>3. (i + 1) - a = i - (a - 1)
      OBVIOUS
    <3>4. QED BY <3>1, <3>2, <3>3, SMTT(30)
  <2>3. open => Whole(R, a - 1, b, d, count)
    BY <2>1 DEF Whole
  <2>4. QED BY <2>2, <2>3 DEF Framed
<1>2. Framed(R, open, count, start - 1, span, n, id)
  BY <1>1 DEF InFrame
<1>3. ASSUME NEW i \in DOMAIN R, R[i].kind = "head"
      PROVE  Framed(R, open, count, i, RequestSpan(R[i].msg), R[i].msg.size, R[i].id)
  <2>1. i + 1 \in DOMAIN S /\ R[i] = S[i + 1] /\ i + 1 \in Int /\ (i + 1) - 1 = i
    OBVIOUS
  <2>2. Framed(S, open, count, i + 1, RequestSpan(R[i].msg), R[i].msg.size, R[i].id)
    BY <1>3, <2>1 DEF InFrame
  <2>3. R[i].msg.size \in Nat /\ RequestSpan(R[i].msg) \in Nat
    BY <1>3, <2>1
  <2>4. Framed(R, open, count, (i + 1) - 1, RequestSpan(R[i].msg), R[i].msg.size, R[i].id)
    BY <1>1, <2>1, <2>2, <2>3
  <2>5. QED BY <2>1, <2>4
<1>4. QED BY <1>2, <1>3 DEF InFrame

-----------------------------------------------------------------------------
(* Messages                                                                *)

LEMMA Spans ==
    /\ \A m \in Requests : m.size \in Nat /\ RequestSpan(m) \in Nat
    /\ \A m \in Responses : \A method : m.size \in Nat /\ ResponseSpan(m, method) \in Nat
BY RequestsAssumption, ResponsesAssumption
   DEF RequestSpan, ResponseSpan, Span, RequestFraming, ResponseFraming, Codings

(* The tokens of a message after its head.                                  *)
MessageSpan(msg, bodiless) ==
    IF bodiless THEN 0 ELSE IF msg.coding = "chunked" THEN msg.size + 2 ELSE msg.size

LEMMA MessageTokens ==
    ASSUME NEW s \in Sides, NEW head \in Heads(s), NEW bodiless \in BOOLEAN
    PROVE  /\ MessageSpan(head.msg, bodiless) \in Nat
           /\ Len(Message(head, bodiless)) = MessageSpan(head.msg, bodiless) + 1
           /\ Message(head, bodiless) \in Seq(Heads(s) \cup Marks)
           /\ Message(head, bodiless)[1] = head
           /\ \A i \in 2 .. MessageSpan(head.msg, bodiless) + 1 :
                 Message(head, bodiless)[i].kind = KindAt(head.msg.size, i - 1)
<1> DEFINE T == Heads(s) \cup Marks
           n == head.msg.size
           u == IF bodiless THEN <<>> ELSE Units(n)
           e == IF ~bodiless /\ head.msg.coding = "chunked"
                THEN <<Mark("last"), Mark("blank")>> ELSE <<>>
           nu == IF bodiless THEN 0 ELSE n
           ne == IF ~bodiless /\ head.msg.coding = "chunked" THEN 2 ELSE 0
           m == Message(head, bodiless)
<1>1. n \in Nat
  BY RequestsAssumption, ResponsesAssumption DEF Heads, RequestHeads, ResponseHeads
<1>2. <<head>> \in Seq(T) /\ Len(<<head>>) = 1 /\ <<head>>[1] = head
  OBVIOUS
<1>3. u \in Seq(T) /\ Len(u) = nu /\ \A i \in 1 .. nu : u[i].kind = "data"
  <2>1. Units(n) \in Seq(Marks) /\ Len(Units(n)) = n /\ \A i \in 1 .. n : Units(n)[i] = Mark("data")
    BY <1>1, UnitsType
  <2>2. Units(n) \in Seq(T) /\ <<>> \in Seq(T)
    BY <2>1
  <2>3. \A i \in 1 .. n : Units(n)[i].kind = "data"
    BY <2>1 DEF Mark
  <2>4. CASE bodiless
    BY <2>2, <2>4
  <2>5. CASE ~bodiless
    BY <2>1, <2>2, <2>3, <2>5
  <2>6. QED BY <2>4, <2>5
<1>4. e \in Seq(T) /\ Len(e) = ne
      /\ \A i \in 1 .. ne : e[i].kind = IF i = 1 THEN "last" ELSE "blank"
  <2>1. Mark("last") \in T /\ Mark("blank") \in T
    BY DEF Mark, Marks
  <2>2. Mark("last").kind = "last" /\ Mark("blank").kind = "blank"
    BY DEF Mark
  <2>3. CASE ~bodiless /\ head.msg.coding = "chunked"
    <3>1. e = <<Mark("last"), Mark("blank")>> /\ ne = 2
      BY <2>3
    <3> HIDE DEF e, T
    <3> DEFINE x == Mark("last")
           y == Mark("blank")
    <3>3. x \in T /\ y \in T /\ e = <<x, y>>
      BY <2>1, <3>1
    <3> HIDE DEF x, y
    <3>4. e \in Seq(T) /\ Len(e) = 2 /\ e[1] = x /\ e[2] = y
      BY <3>3
    <3>5. QED BY <2>2, <3>1, <3>4 DEF x, y
  <2>4. CASE ~(~bodiless /\ head.msg.coding = "chunked")
    <3>1. e = <<>> /\ ne = 0
      BY <2>4
    <3>2. e \in Seq(T) /\ Len(e) = 0
      BY <3>1
    <3>3. QED BY <3>1, <3>2
  <2>5. QED BY <2>3, <2>4
<1>5. m = <<head>> \o u \o e
  BY DEF Message
<1>6. nu \in Nat /\ ne \in {0, 2}
  BY <1>1
<1> HIDE DEF T, u, e, m
<1>7. /\ <<head>> \o u \in Seq(T) /\ Len(<<head>> \o u) = 1 + nu
      /\ (<<head>> \o u)[1] = head
      /\ \A i \in 2 .. nu + 1 : (<<head>> \o u)[i].kind = "data"
  <2>1. /\ <<head>> \o u \in Seq(T) /\ Len(<<head>> \o u) = 1 + nu
        /\ \A i \in 1 .. 1 + nu : (<<head>> \o u)[i] = IF i <= 1 THEN <<head>>[i] ELSE u[i - 1]
    BY <1>2, <1>3, ConcatProperties
  <2>2. \A i \in 2 .. nu + 1 : (<<head>> \o u)[i] = u[i - 1] /\ i - 1 \in 1 .. nu
    BY <1>6, <2>1
  <2>3. (<<head>> \o u)[1] = head
    BY <1>2, <1>6, <2>1
  <2>4. QED BY <1>3, <2>1, <2>2, <2>3
<1>8. /\ m \in Seq(T) /\ Len(m) = 1 + nu + ne /\ m[1] = head
      /\ \A i \in 2 .. nu + 1 : m[i].kind = "data"
      /\ \A i \in nu + 2 .. nu + ne + 1 : m[i].kind = IF i = nu + 2 THEN "last" ELSE "blank"
  <2> DEFINE a == <<head>> \o u
  <2>1. a \in Seq(T) /\ Len(a) = 1 + nu /\ m = a \o e
    BY <1>5, <1>7
  <2> HIDE DEF a
  <2>2. /\ a \o e \in Seq(T) /\ Len(a \o e) = 1 + nu + ne
        /\ \A i \in 1 .. 1 + nu + ne : (a \o e)[i] = IF i <= 1 + nu THEN a[i] ELSE e[i - (1 + nu)]
    <3>1. Len(a) + Len(e) = 1 + nu + ne
      BY <1>4, <1>6, <2>1
    <3>2. /\ a \o e \in Seq(T) /\ Len(a \o e) = Len(a) + Len(e)
          /\ \A i \in 1 .. Len(a) + Len(e) : (a \o e)[i] = IF i <= Len(a) THEN a[i] ELSE e[i - Len(a)]
      BY <1>4, <2>1, ConcatProperties
    <3>3. QED BY <2>1, <3>1, <3>2
  <2> HIDE DEF nu, ne
  <2>3. \A i \in 1 .. nu + 1 : m[i] = a[i]
    BY <1>6, <2>1, <2>2
  <2>4. \A i \in nu + 2 .. nu + ne + 1 : m[i] = e[i - (1 + nu)] /\ i - (1 + nu) \in 1 .. ne
    <3>1. SUFFICES ASSUME NEW i \in nu + 2 .. nu + ne + 1
                   PROVE  m[i] = e[i - (1 + nu)] /\ i - (1 + nu) \in 1 .. ne
      OBVIOUS
    <3>2. /\ i \in 1 .. 1 + nu + ne /\ ~ (i <= 1 + nu)
          /\ i - (1 + nu) \in 1 .. ne
      BY <1>6, <3>1
    <3>3. QED BY <2>1, <2>2, <3>2
  <2>5. m[1] = head /\ \A i \in 2 .. nu + 1 : m[i].kind = "data"
    BY <1>6, <1>7, <2>3 DEF a
  <2>6. \A i \in nu + 2 .. nu + ne + 1 : m[i].kind = IF i = nu + 2 THEN "last" ELSE "blank"
    BY <1>4, <1>6, <2>4
  <2>7. QED BY <2>1, <2>2, <2>5, <2>6
<1> DEFINE span == MessageSpan(head.msg, bodiless)
<1>9. span = nu + ne /\ span \in Nat
  BY <1>1 DEF MessageSpan
<1> HIDE DEF span
<1>10. ASSUME NEW i \in 2 .. span + 1 PROVE m[i].kind = KindAt(n, i - 1)
  <2>1. ~bodiless /\ nu = n
    BY <1>9, <1>10
  <2> HIDE DEF nu, ne
  <2>2. i \in 2 .. nu + ne + 1 /\ i \in Nat
    BY <1>6, <1>9, <1>10
  <2>3. CASE i <= nu + 1
    <3>1. m[i].kind = "data"
      BY <1>6, <1>8, <2>2, <2>3
    <3>2. QED BY <1>1, <2>1, <2>2, <2>3, <3>1 DEF KindAt
  <2>4. CASE i > nu + 1
    <3>1. m[i].kind = IF i = nu + 2 THEN "last" ELSE "blank"
      BY <1>6, <1>8, <2>2, <2>4
    <3>2. QED BY <1>1, <2>1, <2>2, <2>4, <3>1 DEF KindAt
  <2>5. QED BY <1>6, <2>2, <2>3, <2>4
<1>11. Len(m) = span + 1
  BY <1>6, <1>8, <1>9
<1>12. QED BY <1>8, <1>9, <1>10, <1>11 DEF m, span, T

(* The k tokens of the next request, or a head that does not parse.         *)
Adds(m, k, count, next) ==
    \/ /\ m[1].kind = "head" /\ m[1].id = count + 1 /\ next = count + 1
       /\ RequestSpan(m[1].msg) \in Nat
       /\ k = RequestSpan(m[1].msg) + 1
       /\ \A i \in 2 .. k : m[i].kind = KindAt(m[1].msg.size, i - 1)
    \/ /\ m[1].kind = "bad" /\ next = count
       /\ \A i \in 2 .. k : m[i].kind = "fin"

(* R is S, of l tokens, and then the k tokens of m.                         *)
Added(S, l, m, k, R) ==
    /\ DOMAIN S = 1 .. l /\ Len(S) = l /\ DOMAIN R = 1 .. (l + k) /\ Len(R) = l + k
    /\ \A i \in 1 .. l : R[i] = S[i]
    /\ \A i \in 1 .. k : R[l + i] = m[i]
    /\ \A i \in DOMAIN S : S[i].kind = "head" => RequestSpan(S[i].msg) \in Nat

(* A message that the client adds to a stream that is whole is in frame.    *)
LEMMA AddedInFrame ==
    ASSUME NEW S, NEW l \in Nat, NEW m, NEW k \in Nat \ {0}, NEW R, Added(S, l, m, k, R),
           NEW count \in Nat, NEW next \in Nat, Adds(m, k, count, next),
           NEW start \in Int, NEW span \in Nat, NEW n, NEW id,
           InFrame(S, TRUE, count, start, span, n, id)
    PROVE  InFrame(R, TRUE, next, start, span, n, id)
<1> USE DEF Adds, Added
<1>1. ASSUME NEW a \in Int, NEW b \in Nat, NEW c, NEW d, Framed(S, TRUE, count, a, b, c, d)
      PROVE  Framed(R, TRUE, next, a, b, c, d)
  <2>1. Fits(S, a, b, c, d) /\ a + b <= l /\ (a + b = l => d = count)
    BY <1>1 DEF Framed, Whole
  <2>2. Fits(R, a, b, c, d)
    <3> SUFFICES ASSUME NEW i \in DOMAIN R
                 PROVE  /\ a < i /\ i <= a + b => R[i].kind = KindAt(c, i - a)
                        /\ i = a + b + 1 => /\ R[i].kind \in {"head", "bad", "fin"}
                                            /\ R[i].kind = "head" => R[i].id = d + 1
      BY DEF Fits
    <3>1. CASE i <= l
      <4>1. i \in DOMAIN S /\ R[i] = S[i]
        BY <3>1
      <4>2. QED BY <2>1, <4>1 DEF Fits
    <3>2. CASE i = l + 1
      <4>1. R[i] = m[1]
        BY <3>2
      <4>2. m[1].kind \in {"head", "bad"} /\ (m[1].kind = "head" => m[1].id = count + 1)
        OBVIOUS
      <4>3. ~(i <= a + b) /\ (i = a + b + 1 => d = count)
        BY <2>1, <3>2
      <4>4. QED BY <4>1, <4>2, <4>3
    <3>3. CASE i > l + 1
      BY <2>1, <3>3
    <3>4. QED BY <3>1, <3>2, <3>3
  <2>3. Whole(R, a, b, d, next)
    BY <2>1 DEF Whole
  <2>4. QED BY <2>2, <2>3 DEF Framed
<1>2. Framed(R, TRUE, next, start, span, n, id)
  BY <1>1 DEF InFrame
<1>3. ASSUME NEW i \in DOMAIN R, R[i].kind = "head"
      PROVE  Framed(R, TRUE, next, i, RequestSpan(R[i].msg), R[i].msg.size, R[i].id)
  <2>1. CASE i <= l
    <3>1. i \in DOMAIN S /\ R[i] = S[i] /\ i \in Int
      BY <2>1
    <3>2. Framed(S, TRUE, count, i, RequestSpan(R[i].msg), R[i].msg.size, R[i].id)
      BY <1>3, <3>1 DEF InFrame
    <3>3. RequestSpan(R[i].msg) \in Nat
      BY <1>3, <3>1
    <3>4. QED BY <1>1, <3>1, <3>2, <3>3
  <2>2. CASE i > l
    <3>1. PICK j \in 1 .. k : i = l + j /\ R[i] = m[j]
      <4>1. i - l \in 1 .. k /\ i = l + (i - l)
        BY <2>2
      <4>2. QED BY <4>1
    <3>2. j = 1 /\ m[1].kind = "head"
      <4>1. ASSUME j # 1 PROVE m[j].kind # "head"
        <5>1. j \in 2 .. k
          BY <4>1
        <5>2. QED BY <5>1 DEF KindAt
      <4>2. QED BY <1>3, <3>1, <4>1
    <3>3. /\ R[i].msg = m[1].msg /\ R[i].id = count + 1 /\ next = count + 1
          /\ i + RequestSpan(R[i].msg) = l + k
      BY <3>1, <3>2
    <3>4. Fits(R, i, RequestSpan(R[i].msg), R[i].msg.size, R[i].id)
      <4> SUFFICES ASSUME NEW g \in DOMAIN R
                   PROVE  /\ i < g /\ g <= i + RequestSpan(R[i].msg) =>
                                R[g].kind = KindAt(R[i].msg.size, g - i)
                          /\ g = i + RequestSpan(R[i].msg) + 1 =>
                                /\ R[g].kind \in {"head", "bad", "fin"}
                                /\ R[g].kind = "head" => R[g].id = R[i].id + 1
        BY DEF Fits
      <4>1. g <= l + k
        OBVIOUS
      <4>2. ASSUME i < g PROVE R[g].kind = KindAt(R[i].msg.size, g - i)
        <5>1. g - l \in 2 .. k /\ g = l + (g - l) /\ (g - l) - 1 = g - i
          BY <3>1, <3>2, <4>2
        <5>2. R[g] = m[g - l]
          <6>1. g - l \in 1 .. k
            BY <5>1
          <6>2. R[l + (g - l)] = m[g - l]
            BY <6>1
          <6>3. QED BY <5>1, <6>2
        <5>3. m[g - l].kind = KindAt(m[1].msg.size, (g - l) - 1)
          BY <3>2, <5>1
        <5>4. QED BY <3>3, <5>1, <5>2, <5>3
      <4>3. g # i + RequestSpan(R[i].msg) + 1
        BY <3>3, <4>1
      <4>4. QED BY <4>2, <4>3
    <3>5. Whole(R, i, RequestSpan(R[i].msg), R[i].id, next)
      BY <3>3 DEF Whole
    <3>6. QED BY <3>4, <3>5 DEF Framed
  <2>3. i <= l \/ i > l
    OBVIOUS
  <2>4. QED BY <2>1, <2>2, <2>3
<1>4. QED BY <1>2, <1>3 DEF InFrame

(* A body that has been read to its end leaves the stream at a boundary.    *)
LEMMA EndInFrame ==
    ASSUME NEW S, NEW l \in Nat, DOMAIN S = 1 .. l, Len(S) = l, NEW open, NEW count,
           NEW span \in Nat, NEW n, NEW id, InFrame(S, open, count, -span, span, n, id)
    PROVE  InFrame(S, open, count, 0, 0, 0, id)
<1>1. Framed(S, open, count, 0, 0, 0, id)
  BY DEF InFrame, Framed, Fits, Whole
<1>2. QED BY <1>1 DEF InFrame

LEMMA EmptyInFrame ==
    ASSUME NEW S, Len(S) = 0, DOMAIN S = 1 .. 0, NEW count, NEW start, NEW span, NEW n, NEW id
    PROVE  InFrame(S, FALSE, count, start, span, n, id)
BY DEF InFrame, Framed, Fits

-----------------------------------------------------------------------------
(* How the steps move the streams                                          *)

Tokens(s) == Heads(s) \cup Marks \cup {Fin}

(* Two sequences joined, and a sequence without its first element.          *)
LEMMA Joined ==
    ASSUME NEW T, NEW a \in Seq(T), NEW b \in Seq(T)
    PROVE  \E x \in Nat, y \in Nat :
              /\ Len(a) = x /\ Len(b) = y /\ DOMAIN a = 1 .. x /\ DOMAIN b = 1 .. y
              /\ a \o b \in Seq(T) /\ Len(a \o b) = x + y /\ DOMAIN (a \o b) = 1 .. (x + y)
              /\ \A i \in 1 .. x : (a \o b)[i] = a[i]
              /\ \A i \in 1 .. y : (a \o b)[x + i] = b[i]
              /\ \A i \in 1 .. (x + y) : (a \o b)[i] \in T
<1>1. PICK x \in Nat, y \in Nat : /\ Len(a) = x /\ Len(b) = y
                                  /\ DOMAIN a = 1 .. x /\ DOMAIN b = 1 .. y
  BY LenProperties
<1> DEFINE c == a \o b
<1>2. c \in Seq(T) /\ Len(c) = x + y
      /\ \A i \in 1 .. (x + y) : c[i] = IF i <= x THEN a[i] ELSE b[i - x]
  BY <1>1, ConcatProperties
<1> HIDE DEF c
<1>3. DOMAIN c = 1 .. (x + y) /\ \A i \in 1 .. (x + y) : c[i] \in T
  BY <1>2, LenProperties, ElementOfSeq
<1>4. \A i \in 1 .. x : c[i] = a[i]
  BY <1>2
<1>5. ASSUME NEW i \in 1 .. y PROVE c[x + i] = b[i]
  <2>1. x + i \in 1 .. (x + y) /\ ~(x + i <= x) /\ (x + i) - x = i
    OBVIOUS
  <2>2. QED BY <1>2, <2>1
<1>6. QED BY <1>1, <1>2, <1>3, <1>4, <1>5 DEF c

LEMMA Beheaded ==
    ASSUME NEW T, NEW a \in Seq(T), a # <<>>
    PROVE  \E x \in Nat \ {0} :
              /\ Len(a) = x /\ DOMAIN a = 1 .. x /\ Head(a) = a[1] /\ a[1] \in T
              /\ Tail(a) \in Seq(T) /\ Len(Tail(a)) = x - 1 /\ DOMAIN Tail(a) = 1 .. (x - 1)
              /\ \A i \in 1 .. (x - 1) : Tail(a)[i] = a[i + 1]
<1>1. Len(a) \in Nat \ {0} /\ DOMAIN a = 1 .. Len(a)
  <2>1. Len(a) \in Nat /\ DOMAIN a = 1 .. Len(a)
    BY LenProperties
  <2>2. Len(a) \in Nat \ {0}
    BY EmptySeq, ZenonT(40)
  <2>3. QED BY <2>1, <2>2
<1>2. PICK x \in Nat \ {0} : Len(a) = x /\ DOMAIN a = 1 .. x
  BY <1>1
<1>3. /\ Head(a) \in T /\ Tail(a) \in Seq(T) /\ Len(Tail(a)) = x - 1
      /\ \A i \in 1 .. (x - 1) : Tail(a)[i] = a[i + 1]
  BY <1>2, HeadTailProperties
<1>4. DOMAIN Tail(a) = 1 .. (x - 1)
  BY <1>3, LenProperties
<1>5. Head(a) = a[1]
  OBVIOUS
<1>6. QED BY <1>2, <1>3, <1>4, <1>5

LEMMA Sequences ==
    ASSUME TypeOK, NEW s \in Sides
    PROVE  wire[s] \in Seq(Tokens(s)) /\ outbox[s] \in Seq(Tokens(s))
           /\ \A i \in DOMAIN wire[s] : wire[s][i] \in Heads(s) \cup Marks
<1>1. wire[s] \in Seq(Heads(s) \cup Marks) /\ outbox[s] \in Seq(Heads(s) \cup Marks \cup {Fin})
  BY DEF TypeOK
<1>2. \A i \in DOMAIN wire[s] : wire[s][i] \in Heads(s) \cup Marks
  BY <1>1, LenProperties, ElementOfSeq
<1>3. QED BY <1>1, <1>2 DEF Tokens

LEMMA SequencesNext ==
    ASSUME TypeOK', NEW s \in Sides
    PROVE  wire'[s] \in Seq(Tokens(s)) /\ outbox'[s] \in Seq(Tokens(s))
<1>1. wire'[s] \in Seq(Heads(s) \cup Marks) /\ outbox'[s] \in Seq(Heads(s) \cup Marks \cup {Fin})
  BY DEF TypeOK
<1>2. QED BY <1>1 DEF Tokens

(* A token that is a head is one of the sender's.                           *)
LEMMA TokenKinds ==
    ASSUME NEW s \in Sides, NEW token \in Tokens(s)
    PROVE  /\ token.kind \in {"head", "data", "last", "blank", "bad", "fin"}
           /\ token.kind = "head" => token \in Heads(s)
           /\ token.kind = "fin" <=> token = Fin
BY DEF Tokens, Heads, RequestHeads, ResponseHeads, Marks, Fin

(* A stream is finite, and what the proxy may read is no end of stream.     *)
LEMMA StreamType ==
    ASSUME TypeOK, NEW s \in Sides
    PROVE  \E l \in Nat :
              /\ Stream(s) \in Seq(Tokens(s)) /\ Len(Stream(s)) = l /\ DOMAIN Stream(s) = 1 .. l
              /\ \A i \in 1 .. l : Stream(s)[i] \in Tokens(s)
              /\ Ready(s) => l > 0 /\ Stream(s)[1] = Next1(s)
              /\ \A i \in DOMAIN wire[s] : i \in 1 .. l /\ Stream(s)[i].kind # "fin"
<1>1. wire[s] \in Seq(Tokens(s)) /\ outbox[s] \in Seq(Tokens(s))
      /\ \A i \in DOMAIN wire[s] : wire[s][i] \in Heads(s) \cup Marks
  BY Sequences
<1>0. PICK x \in Nat, y \in Nat :
        /\ Len(wire[s]) = x /\ Len(outbox[s]) = y /\ DOMAIN wire[s] = 1 .. x /\ DOMAIN outbox[s] = 1 .. y
        /\ wire[s] \o outbox[s] \in Seq(Tokens(s)) /\ Len(wire[s] \o outbox[s]) = x + y
        /\ DOMAIN (wire[s] \o outbox[s]) = 1 .. (x + y)
        /\ \A i \in 1 .. x : (wire[s] \o outbox[s])[i] = wire[s][i]
        /\ \A i \in 1 .. y : (wire[s] \o outbox[s])[x + i] = outbox[s][i]
        /\ \A i \in 1 .. (x + y) : (wire[s] \o outbox[s])[i] \in Tokens(s)
  BY <1>1, Joined
<1>2. /\ Len(wire[s]) = x /\ DOMAIN wire[s] = 1 .. x
      /\ Stream(s) \in Seq(Tokens(s)) /\ Len(Stream(s)) = x + y
      /\ DOMAIN Stream(s) = 1 .. (x + y)
      /\ \A i \in 1 .. x : Stream(s)[i] = wire[s][i]
      /\ \A i \in 1 .. (x + y) : Stream(s)[i] \in Tokens(s)
  BY <1>0 DEF Stream
<1>3. ASSUME Ready(s) PROVE x + y > 0 /\ Stream(s)[1] = Next1(s)
  <2>1. x # 0
    BY <1>1, <1>2, <1>3, EmptySeq DEF Ready
  <2>2. Next1(s) = wire[s][1]
    BY <1>1, <1>3, Beheaded DEF Next1, Ready
  <2>3. QED BY <1>2, <2>1, <2>2
<1>4. ASSUME NEW i \in DOMAIN wire[s] PROVE i \in 1 .. (x + y) /\ Stream(s)[i].kind # "fin"
  <2>1. i \in 1 .. x /\ i \in 1 .. (x + y)
    BY <1>2
  <2>2. Stream(s)[i] \in Heads(s) \cup Marks
    BY <1>1, <1>2, <2>1
  <2>3. QED BY <2>1, <2>2 DEF Heads, RequestHeads, ResponseHeads, Marks
<1>5. x + y \in Nat
  OBVIOUS
<1>6. QED BY <1>2, <1>3, <1>4, <1>5

LEMMA ClientHeads ==
    ASSUME TypeOK
    PROVE  \A i \in DOMAIN Stream("client") :
              Stream("client")[i].kind = "head" =>
                 /\ Stream("client")[i].msg.size \in Nat
                 /\ RequestSpan(Stream("client")[i].msg) \in Nat
<1> SUFFICES ASSUME NEW i \in DOMAIN Stream("client"), Stream("client")[i].kind = "head"
             PROVE  /\ Stream("client")[i].msg.size \in Nat
                    /\ RequestSpan(Stream("client")[i].msg) \in Nat
  OBVIOUS
<1>0. "client" \in Sides
  BY DEF Sides
<1>1. Stream("client")[i] \in Tokens("client")
  BY <1>0, StreamType
<1>2. Stream("client")[i] \in RequestHeads
  BY <1>0, <1>1, TokenKinds DEF Heads
<1>3. QED BY <1>2, Spans DEF RequestHeads

(* The proxy takes the first token of a stream.                             *)
LEMMA ReadStream ==
    ASSUME TypeOK, NEW s \in Sides, Ready(s), Read(s), outbox' = outbox
    PROVE  /\ \E l \in Nat \ {0} :
                 /\ Len(Stream(s)) = l /\ DOMAIN Stream(s) = 1 .. l
                 /\ Len(Stream(s)') = l - 1 /\ DOMAIN Stream(s)' = 1 .. (l - 1)
                 /\ \A i \in 1 .. (l - 1) : Stream(s)'[i] = Stream(s)[i + 1]
                 /\ Stream(s)[1] = Next1(s)
           /\ \A t \in Sides \ {s} : Stream(t)' = Stream(t)
<1>1. wire[s] \in Seq(Tokens(s)) /\ outbox[s] \in Seq(Tokens(s)) /\ wire[s] # <<>>
  BY Sequences DEF Ready
<1>2. wire'[s] = Tail(wire[s]) /\ \A t \in Sides \ {s} : wire'[t] = wire[t]
  BY DEF Read, TypeOK
<1>3. PICK x \in Nat \ {0} :
         /\ Len(wire[s]) = x /\ DOMAIN wire[s] = 1 .. x /\ Head(wire[s]) = wire[s][1]
         /\ wire'[s] \in Seq(Tokens(s)) /\ Len(wire'[s]) = x - 1
         /\ \A i \in 1 .. (x - 1) : wire'[s][i] = wire[s][i + 1]
  BY <1>1, <1>2, Beheaded
<1>0. PICK z \in Nat, y \in Nat :
        /\ Len(wire[s]) = z /\ Len(outbox[s]) = y /\ DOMAIN wire[s] = 1 .. z /\ DOMAIN outbox[s] = 1 .. y
        /\ wire[s] \o outbox[s] \in Seq(Tokens(s)) /\ Len(wire[s] \o outbox[s]) = z + y
        /\ DOMAIN (wire[s] \o outbox[s]) = 1 .. (z + y)
        /\ \A i \in 1 .. z : (wire[s] \o outbox[s])[i] = wire[s][i]
        /\ \A i \in 1 .. y : (wire[s] \o outbox[s])[z + i] = outbox[s][i]
        /\ \A i \in 1 .. (z + y) : (wire[s] \o outbox[s])[i] \in Tokens(s)
  BY <1>1, Joined
<1>4. /\ Len(Stream(s)) = x + y /\ DOMAIN Stream(s) = 1 .. (x + y)
      /\ \A i \in 1 .. x : Stream(s)[i] = wire[s][i]
      /\ \A i \in 1 .. y : Stream(s)[x + i] = outbox[s][i]
  BY <1>0, <1>3 DEF Stream
<1>5. /\ Len(Stream(s)') = x - 1 + y /\ DOMAIN Stream(s)' = 1 .. (x - 1 + y)
      /\ \A i \in 1 .. (x - 1) : Stream(s)'[i] = wire'[s][i]
      /\ \A i \in 1 .. y : Stream(s)'[x - 1 + i] = outbox[s][i]
  <2>1. PICK u \in Nat, v \in Nat :
          /\ Len(wire'[s]) = u /\ Len(outbox[s]) = v /\ DOMAIN wire'[s] = 1 .. u /\ DOMAIN outbox[s] = 1 .. v
          /\ wire'[s] \o outbox[s] \in Seq(Tokens(s)) /\ Len(wire'[s] \o outbox[s]) = u + v
          /\ DOMAIN (wire'[s] \o outbox[s]) = 1 .. (u + v)
          /\ \A i \in 1 .. u : (wire'[s] \o outbox[s])[i] = wire'[s][i]
          /\ \A i \in 1 .. v : (wire'[s] \o outbox[s])[u + i] = outbox[s][i]
          /\ \A i \in 1 .. (u + v) : (wire'[s] \o outbox[s])[i] \in Tokens(s)
    BY <1>1, <1>3, Joined
  <2>2. u = x - 1 /\ v = y /\ Stream(s)' = wire'[s] \o outbox[s]
    BY <1>0, <1>3, <2>1 DEF Stream
  <2>3. QED BY <2>1, <2>2
<1>6. ASSUME NEW i \in 1 .. (x + y - 1) PROVE Stream(s)'[i] = Stream(s)[i + 1]
  <2>1. CASE i <= x - 1
    BY <1>3, <1>4, <1>5, <2>1
  <2>2. CASE i > x - 1
    <3>1. PICK j \in 1 .. y : i = x - 1 + j
      <4>1. i - (x - 1) \in 1 .. y /\ i = x - 1 + (i - (x - 1))
        BY <2>2
      <4>2. QED BY <4>1
    <3>2. i + 1 = x + j
      BY <3>1
    <3>3. QED BY <1>4, <1>5, <3>1, <3>2
  <2>3. QED BY <2>1, <2>2
<1>7. Stream(s)[1] = Next1(s)
  BY <1>3, <1>4 DEF Next1
<1>8. PICK l \in Nat \ {0} : l = x + y
  OBVIOUS
<1>9. l - 1 = x - 1 + y /\ l - 1 = x + y - 1
  BY <1>8
<1>10. \A t \in Sides \ {s} : Stream(t)' = Stream(t)
  BY <1>2 DEF Stream
<1>11. QED BY <1>4, <1>5, <1>6, <1>7, <1>8, <1>9, <1>10

(* A stream stays what it was, or its sender ends it earlier.               *)
Shrunk(s) == \E l \in Nat : \E r \in 0 .. l :
                /\ Len(Stream(s)) = l /\ DOMAIN Stream(s) = 1 .. l
                /\ Len(Stream(s)') = r /\ DOMAIN Stream(s)' = 1 .. r
                /\ \A i \in 1 .. r : Stream(s)'[i] = Stream(s)[i]
                /\ up'[s] => up[s] /\ r = l

LEMMA SameStreams ==
    ASSUME TypeOK, NEW s \in Sides, Stream(s)' = Stream(s), up'[s] = up[s] PROVE Shrunk(s)
<1>1. PICK l \in Nat : Len(Stream(s)) = l /\ DOMAIN Stream(s) = 1 .. l
  BY StreamType
<1>2. l \in 0 .. l
  OBVIOUS
<1>3. QED BY <1>1, <1>2 DEF Shrunk

(* A peer writes what it has composed, or leaves.                           *)
LEMMA WriteStream ==
    ASSUME TypeOK, TypeOK', FinInv, NEW s \in Sides, Writes(s)
    PROVE  FinInv' /\ \A t \in Sides : Shrunk(t)
<1> DEFINE token == Head(outbox[s])
<1>1. /\ wire[s] \in Seq(Tokens(s)) /\ outbox[s] \in Seq(Tokens(s)) /\ outbox[s] # <<>>
      /\ up[s] = TRUE
  BY Sequences DEF Writes, TypeOK
<1>2. /\ outbox'[s] = Tail(outbox[s]) /\ \A t \in Sides \ {s} : outbox'[t] = outbox[t]
      /\ token = Fin => up'[s] = FALSE /\ wire' = wire
      /\ token # Fin => wire'[s] = Append(wire[s], token) /\ up' = up
      /\ \A t \in Sides \ {s} : wire'[t] = wire[t] /\ up'[t] = up[t]
  BY DEF Writes, TypeOK
<1>3. PICK y \in Nat \ {0} :
         /\ Len(outbox[s]) = y /\ DOMAIN outbox[s] = 1 .. y
         /\ token = outbox[s][1] /\ token \in Tokens(s)
         /\ outbox'[s] \in Seq(Tokens(s)) /\ Len(outbox'[s]) = y - 1
         /\ DOMAIN outbox'[s] = 1 .. (y - 1)
         /\ \A i \in 1 .. (y - 1) : outbox'[s][i] = outbox[s][i + 1]
  BY <1>1, <1>2, Beheaded
<1> HIDE DEF token
<1>0. PICK x \in Nat, z \in Nat :
        /\ Len(wire[s]) = x /\ Len(outbox[s]) = z /\ DOMAIN wire[s] = 1 .. x /\ DOMAIN outbox[s] = 1 .. z
        /\ wire[s] \o outbox[s] \in Seq(Tokens(s)) /\ Len(wire[s] \o outbox[s]) = x + z
        /\ DOMAIN (wire[s] \o outbox[s]) = 1 .. (x + z)
        /\ \A i \in 1 .. x : (wire[s] \o outbox[s])[i] = wire[s][i]
        /\ \A i \in 1 .. z : (wire[s] \o outbox[s])[x + i] = outbox[s][i]
        /\ \A i \in 1 .. (x + z) : (wire[s] \o outbox[s])[i] \in Tokens(s)
  BY <1>1, Joined
<1>4. /\ Len(wire[s]) = x /\ DOMAIN wire[s] = 1 .. x
      /\ Len(Stream(s)) = x + y /\ DOMAIN Stream(s) = 1 .. (x + y)
      /\ \A i \in 1 .. x : Stream(s)[i] = wire[s][i]
      /\ \A i \in 1 .. y : Stream(s)[x + i] = outbox[s][i]
  BY <1>0, <1>3 DEF Stream
<1>5. token = Fin => y = 1
  <2>1. 1 \in DOMAIN outbox[s]
    BY <1>3
  <2>2. QED BY <1>3, <2>1 DEF FinInv
<1>6. FinInv'
  <2>1. ASSUME NEW i \in DOMAIN outbox'[s], outbox'[s][i] = Fin PROVE i = Len(outbox'[s])
    <3>1. i + 1 \in DOMAIN outbox[s] /\ outbox[s][i + 1] = Fin /\ i \in Nat
      BY <1>3, <2>1
    <3>2. i + 1 = y
      BY <1>3, <3>1 DEF FinInv
    <3>3. QED BY <1>3, <3>1, <3>2
  <2>2. ~up'[s] => outbox'[s] = <<>>
    <3>1. ASSUME token = Fin PROVE outbox'[s] = <<>>
      <4>1. Len(outbox'[s]) = 0
        BY <1>3, <1>5, <3>1
      <4>2. QED BY <1>3, <4>1, EmptySeq
    <3>2. QED BY <1>1, <1>2, <3>1
  <2>3. QED BY <1>2, <2>1, <2>2 DEF FinInv
<1>7. Shrunk(s)
  <2>1. CASE token = Fin
    <3>1. wire'[s] = wire[s] /\ ~up'[s] /\ outbox'[s] = <<>>
      <4>1. Len(outbox'[s]) = 0
        BY <1>3, <1>5, <2>1
      <4>2. QED BY <1>2, <1>3, <2>1, <4>1, EmptySeq
    <3>2. Stream(s)' = wire[s]
      BY <1>1, <3>1, ConcatEmptySeq DEF Stream
    <3>3. x + y \in Nat /\ x \in 0 .. (x + y)
      OBVIOUS
    <3>4. QED BY <1>4, <3>1, <3>2, <3>3 DEF Shrunk
  <2>2. CASE token # Fin
    <3>1. /\ wire'[s] \in Seq(Tokens(s)) /\ Len(wire'[s]) = x + 1 /\ wire'[s][x + 1] = token
          /\ \A i \in 1 .. x : wire'[s][i] = wire[s][i]
      <4>1. /\ Append(wire[s], token) \in Seq(Tokens(s))
            /\ Len(Append(wire[s], token)) = Len(wire[s]) + 1
            /\ Append(wire[s], token)[Len(wire[s]) + 1] = token
            /\ \A i \in 1 .. Len(wire[s]) : Append(wire[s], token)[i] = wire[s][i]
        BY <1>1, <1>3, AppendProperties
      <4>2. wire'[s] = Append(wire[s], token)
        BY <1>2, <2>2
      <4>3. QED BY <1>0, <4>1, <4>2
    <3>2. /\ Len(Stream(s)') = (x + 1) + (y - 1)
          /\ DOMAIN Stream(s)' = 1 .. ((x + 1) + (y - 1))
          /\ \A i \in 1 .. x + 1 : Stream(s)'[i] = wire'[s][i]
          /\ \A i \in 1 .. (y - 1) : Stream(s)'[x + 1 + i] = outbox'[s][i]
      <4>1. PICK u \in Nat, v \in Nat :
              /\ Len(wire'[s]) = u /\ Len(outbox'[s]) = v /\ DOMAIN wire'[s] = 1 .. u /\ DOMAIN outbox'[s] = 1 .. v
              /\ wire'[s] \o outbox'[s] \in Seq(Tokens(s)) /\ Len(wire'[s] \o outbox'[s]) = u + v
              /\ DOMAIN (wire'[s] \o outbox'[s]) = 1 .. (u + v)
              /\ \A i \in 1 .. u : (wire'[s] \o outbox'[s])[i] = wire'[s][i]
              /\ \A i \in 1 .. v : (wire'[s] \o outbox'[s])[u + i] = outbox'[s][i]
              /\ \A i \in 1 .. (u + v) : (wire'[s] \o outbox'[s])[i] \in Tokens(s)
        BY <1>3, <3>1, Joined
      <4>2. u = x + 1 /\ v = y - 1 /\ Stream(s)' = wire'[s] \o outbox'[s]
        BY <1>3, <3>1, <4>1 DEF Stream
      <4>3. QED BY <4>1, <4>2
    <3>3. (x + 1) + (y - 1) = x + y /\ x + y \in Nat /\ x + y \in 0 .. (x + y)
      OBVIOUS
    <3>4. ASSUME NEW i \in 1 .. (x + y) PROVE Stream(s)'[i] = Stream(s)[i]
      <4>1. CASE i <= x
        <5>1. i \in 1 .. x /\ i \in 1 .. (x + 1)
          BY <4>1
        <5>2. QED BY <1>4, <3>1, <3>2, <5>1
      <4>2. CASE i = x + 1
        <5>1. Stream(s)'[i] = token
          BY <3>1, <3>2, <4>2
        <5>2. Stream(s)[i] = token
          <6>1. 1 \in 1 .. y
            OBVIOUS
          <6>2. Stream(s)[x + 1] = outbox[s][1]
            BY <1>4, <6>1
          <6>3. QED BY <1>3, <4>2, <6>2
        <5>3. QED BY <5>1, <5>2
      <4>3. CASE i > x + 1
        <5>1. PICK j \in 1 .. (y - 1) : i = x + 1 + j
          <6>1. i - (x + 1) \in 1 .. (y - 1) /\ i = x + 1 + (i - (x + 1))
            BY <4>3
          <6>2. QED BY <6>1
        <5>2. j + 1 \in 1 .. y /\ i = x + (j + 1)
          BY <5>1
        <5>3. Stream(s)[i] = outbox[s][j + 1]
          BY <1>4, <5>2
        <5>4. QED BY <1>3, <3>2, <5>1, <5>3
      <4>4. QED BY <4>1, <4>2, <4>3
    <3>5. up'[s] => up[s]
      BY <1>1
    <3>6. QED BY <1>4, <3>2, <3>3, <3>4, <3>5 DEF Shrunk
  <2>3. QED BY <2>1, <2>2
<1>8. ASSUME NEW t \in Sides \ {s} PROVE Shrunk(t)
  <2>1. Stream(t)' = Stream(t) /\ up'[t] = up[t]
    BY <1>2 DEF Stream
  <2>2. QED BY <2>1, SameStreams
<1>9. QED BY <1>6, <1>7, <1>8

LEMMA LeaveStream ==
    ASSUME TypeOK, FinInv, NEW s \in Sides, Leaves(s)
    PROVE  FinInv' /\ \A t \in Sides : Shrunk(t)
<1>1. /\ ~up'[s] /\ outbox'[s] = <<>> /\ wire' = wire
      /\ \A t \in Sides \ {s} : outbox'[t] = outbox[t] /\ up'[t] = up[t]
  BY DEF Leaves, TypeOK
<1>2. FinInv'
  <2>1. DOMAIN outbox'[s] = {}
    BY <1>1
  <2>2. QED BY <1>1, <2>1 DEF FinInv
<1>3. Shrunk(s)
  <2>1. wire[s] \in Seq(Tokens(s)) /\ outbox[s] \in Seq(Tokens(s))
    BY Sequences
  <2>0. PICK x \in Nat, y \in Nat :
          /\ Len(wire[s]) = x /\ Len(outbox[s]) = y /\ DOMAIN wire[s] = 1 .. x /\ DOMAIN outbox[s] = 1 .. y
          /\ wire[s] \o outbox[s] \in Seq(Tokens(s)) /\ Len(wire[s] \o outbox[s]) = x + y
          /\ DOMAIN (wire[s] \o outbox[s]) = 1 .. (x + y)
          /\ \A i \in 1 .. x : (wire[s] \o outbox[s])[i] = wire[s][i]
          /\ \A i \in 1 .. y : (wire[s] \o outbox[s])[x + i] = outbox[s][i]
          /\ \A i \in 1 .. (x + y) : (wire[s] \o outbox[s])[i] \in Tokens(s)
    BY <2>1, Joined
  <2>2. /\ Len(wire[s]) = x /\ DOMAIN wire[s] = 1 .. x
        /\ Len(Stream(s)) = x + y /\ DOMAIN Stream(s) = 1 .. (x + y)
        /\ \A i \in 1 .. x : Stream(s)[i] = wire[s][i]
    BY <2>0 DEF Stream
  <2>3. Stream(s)' = wire[s]
    BY <1>1, <2>1, ConcatEmptySeq DEF Stream
  <2>4. x + y \in Nat /\ x \in 0 .. (x + y)
    OBVIOUS
  <2>5. QED BY <1>1, <2>2, <2>3, <2>4 DEF Shrunk
<1>4. ASSUME NEW t \in Sides \ {s} PROVE Shrunk(t)
  <2>1. Stream(t)' = Stream(t) /\ up'[t] = up[t]
    BY <1>1 DEF Stream
  <2>2. QED BY <2>1, SameStreams
<1>5. QED BY <1>2, <1>3, <1>4

(* A peer whose outbox is empty composes a message.                         *)
LEMMA ComposeStream ==
    ASSUME TypeOK, FinInv, NEW s \in Sides, outbox[s] = <<>>, up[s],
           NEW m \in Seq(Tokens(s)), Compose(s, m), wire' = wire, up' = up,
           \A i \in 1 .. Len(m) : m[i] = Fin => i = Len(m)
    PROVE  /\ FinInv'
           /\ Stream(s) = wire[s]
           /\ \E l \in Nat, k \in Nat :
                 /\ Len(Stream(s)) = l /\ DOMAIN Stream(s) = 1 .. l /\ Len(m) = k
                 /\ Len(Stream(s)') = l + k /\ DOMAIN Stream(s)' = 1 .. (l + k)
                 /\ \A i \in 1 .. l : Stream(s)'[i] = Stream(s)[i]
                 /\ \A i \in 1 .. k : Stream(s)'[l + i] = m[i]
           /\ \A t \in Sides \ {s} : Stream(t)' = Stream(t)
<1>1. outbox'[s] = m /\ \A t \in Sides \ {s} : outbox'[t] = outbox[t]
  BY DEF Compose, TypeOK
<1>2. FinInv'
  <2>1. DOMAIN m = 1 .. Len(m)
    BY LenProperties
  <2>2. QED BY <1>1, <2>1 DEF FinInv
<1>3. wire[s] \in Seq(Tokens(s))
  BY Sequences
<1>4. Stream(s) = wire[s]
  BY <1>3, ConcatEmptySeq DEF Stream
<1>5. Stream(s)' = wire[s] \o m
  BY <1>1 DEF Stream
<1>6. PICK l \in Nat, k \in Nat :
        /\ Len(wire[s]) = l /\ Len(m) = k /\ DOMAIN wire[s] = 1 .. l /\ DOMAIN m = 1 .. k
        /\ wire[s] \o m \in Seq(Tokens(s)) /\ Len(wire[s] \o m) = l + k
        /\ DOMAIN (wire[s] \o m) = 1 .. (l + k)
        /\ \A i \in 1 .. l : (wire[s] \o m)[i] = wire[s][i]
        /\ \A i \in 1 .. k : (wire[s] \o m)[l + i] = m[i]
        /\ \A i \in 1 .. (l + k) : (wire[s] \o m)[i] \in Tokens(s)
  BY <1>3, Joined
<1>7. /\ DOMAIN wire[s] = 1 .. l
      /\ Len(wire[s] \o m) = l + k /\ DOMAIN (wire[s] \o m) = 1 .. (l + k)
      /\ \A i \in 1 .. l : (wire[s] \o m)[i] = wire[s][i]
      /\ \A i \in 1 .. k : (wire[s] \o m)[l + i] = m[i]
  BY <1>6
<1>8. \A t \in Sides \ {s} : Stream(t)' = Stream(t)
  BY <1>1 DEF Stream
<1>9. /\ Len(Stream(s)) = l /\ DOMAIN Stream(s) = 1 .. l
      /\ Len(Stream(s)') = l + k /\ DOMAIN Stream(s)' = 1 .. (l + k)
      /\ \A i \in 1 .. l : Stream(s)'[i] = Stream(s)[i]
      /\ \A i \in 1 .. k : Stream(s)'[l + i] = m[i]
  BY <1>4, <1>5, <1>6, <1>7
<1>10. QED BY <1>2, <1>4, <1>6, <1>8, <1>9


(* The tee changes nothing but what it counts and keeps.                    *)
LEMMA FeedOnly ==
    ASSUME NEW b \in BodyState
    PROVE  /\ Feed(b).framing = b.framing /\ Feed(b).total = b.total + 1 /\ Feed(b).left = b.left
           /\ Feed(b).ended = b.ended /\ Feed(b).trailers = b.trailers
<1> DEFINE k == IF b.kept < CaptureLimit THEN b.kept + 1 ELSE b.kept
           t == b.truncated \/ b.kept >= CaptureLimit
<1>1. Feed(b) = [b EXCEPT !.total = b.total + 1, !.kept = k, !.truncated = t]
  BY DEF Feed
<1> HIDE DEF k, t
<1>2. QED BY <1>1 DEF BodyState


-----------------------------------------------------------------------------
(* The messages that are under way in each place of the coroutine           *)

LEMMA RequestType ==
    ASSUME TypeOK, ExchangeInv, pc \in {"reqBody", "respHead", "respBody", "relay"}
    PROVE  /\ Len(taken) \in Nat \ {0} /\ Request \in Requests
           /\ Request.size \in Nat /\ RequestSpan(Request) \in Nat
<1>1. Len(taken) \in Nat \ {0} /\ taken \in Seq(RequestHeads)
  BY LenProperties DEF ExchangeInv, CountInv, TypeOK
<1>2. taken[Len(taken)] \in RequestHeads
  BY <1>1, ElementOfSeq
<1>3. Request \in Requests
  BY <1>2 DEF Request, RequestHeads
<1>4. QED BY <1>1, <1>3, Spans

LEMMA AnswerType ==
    ASSUME TypeOK, ExchangeInv, pc \in {"respBody", "relay"}
    PROVE  /\ Len(answers) \in Nat \ {0} /\ Answer \in Responses
           /\ Answer.size \in Nat /\ ResponseSpan(Answer, Request.method) \in Nat
<1>1. Len(answers) \in Nat \ {0} /\ answers \in Seq(ResponseHeads)
  BY LenProperties DEF ExchangeInv, CountInv, TypeOK
<1>2. answers[Len(answers)] \in ResponseHeads
  BY <1>1, ElementOfSeq
<1>3. Answer \in Responses
  BY <1>2 DEF Answer, ResponseHeads
<1>4. QED BY <1>1, <1>3, Spans

LEMMA ConsumedType ==
    ASSUME NEW b \in BodyState, NEW n \in Nat PROVE Consumed(b, n) \in Nat /\ -Consumed(b, n) \in Int
BY DEF Consumed, BodyState

LEMMA NothingConsumed == ASSUME NEW b, NEW n, Consumed(b, n) = 0 PROVE -Consumed(b, n) = 0
<1>1. \A x \in Int : -x = 0 - x
  OBVIOUS
<1>2. PICK x \in Int : x = Consumed(b, n)
  OBVIOUS
<1>3. -x = 0 - x
  BY <1>1
<1>4. 0 - x = 0
  BY <1>2
<1>5. QED BY <1>2, <1>3, <1>4

(* A body at its start.                                                     *)
LEMMA Started ==
    ASSUME NEW framing \in {"none", "length", "chunked", "eof"}, NEW n \in Nat
    PROVE  Counted(StartBody(framing, n), framing, n)
           /\ Consumed(StartBody(framing, n), n) = 0
<1> DEFINE b == StartBody(framing, n)
<1>1. /\ b.framing = framing /\ b.left = (IF framing = "length" THEN n ELSE 0)
      /\ ~b.trailers /\ (b.ended <=> framing = "none") /\ b.total = 0
  BY DEF StartBody
<1> HIDE DEF b
<1>2. Counted(b, framing, n) /\ Consumed(b, n) = 0
  BY <1>1 DEF Counted, Consumed
<1>3. QED BY <1>2 DEF b

LEMMA Framings ==
    /\ \A m \in Requests : RequestFraming(m) \in {"none", "length", "chunked"}
    /\ \A m \in Responses : \A method :
          ResponseFraming(m, method) \in {"none", "length", "chunked", "eof"}
BY RequestsAssumption, ResponsesAssumption DEF RequestFraming, ResponseFraming, Codings

(* A body that is complete and not delimited by the end of the stream.      *)
LEMMA Completed ==
    ASSUME NEW b \in BodyState, NEW n \in Nat,
           NEW framing \in {"none", "length", "chunked"}, Counted(b, framing, n), Complete(b)
    PROVE  /\ Consumed(b, n) = Span(framing, n)
           /\ b.total = IF framing = "none" THEN 0 ELSE n
BY DEF BodyState, Counted, Complete, Consumed, Span

(* One unit more, which is the next token of the body.                      *)
LEMMA CountsUnit ==
    ASSUME TypeOK, Unit, NEW n \in Nat,
           NEW framing \in {"none", "length", "chunked", "eof"}, Counted(body, framing, n),
           framing = "eof" => body.total < n,
           framing = "chunked" => Next1(Reader).kind = KindAt(n, Consumed(body, n) + 1)
    PROVE  Counted(body', framing, n) /\ Consumed(body', n) = Consumed(body, n) + 1
<1>1. body \in BodyState /\ ~Complete(body)
  BY DEF TypeOK, Unit
<1>2. CASE body.framing = "length" /\ body' = Feed([body EXCEPT !.left = @ - 1])
  <2> DEFINE b == [body EXCEPT !.left = @ - 1]
  <2>1. body.left - 1 \in Nat
    BY <1>1, <1>2 DEF Complete, BodyState
  <2>2. /\ b \in BodyState /\ b.framing = body.framing /\ b.total = body.total
        /\ b.left = body.left - 1 /\ b.ended = body.ended /\ b.trailers = body.trailers
    BY <1>1, <2>1 DEF BodyState
  <2>3. body' = Feed(b)
    BY <1>2
  <2> HIDE DEF b
  <2>4. /\ body'.framing = b.framing /\ body'.total = b.total + 1 /\ body'.left = b.left
        /\ body'.ended = b.ended /\ body'.trailers = b.trailers
    BY <2>2, <2>3, FeedOnly
  <2>5. body.total \in Nat /\ body.left \in Nat
    BY <1>1 DEF BodyState
  <2>6. QED BY <1>2, <2>1, <2>2, <2>4, <2>5 DEF Counted, Consumed
<1>3. ASSUME body' = Feed(body), body.framing = "eof" \/ (body.framing = "chunked" /\ ~body.trailers),
             body.framing = "chunked" => Next1(Reader).kind = "data"
      PROVE  Counted(body', framing, n) /\ Consumed(body', n) = Consumed(body, n) + 1
  <2>1. /\ body'.framing = body.framing /\ body'.total = body.total + 1
        /\ body'.left = body.left
        /\ body'.ended = body.ended /\ body'.trailers = body.trailers
    BY <1>1, <1>3, FeedOnly
  <2>2. body.total \in Nat
    BY <1>1 DEF BodyState
  <2>3. CASE framing = "eof"
    BY <1>3, <2>1, <2>2, <2>3 DEF Counted, Consumed
  <2>4. CASE framing = "chunked"
    <3>1. ~body.trailers /\ ~body.ended /\ body.framing = "chunked" /\ body.total <= n
      BY <1>3, <2>4 DEF Counted
    <3>2. Consumed(body, n) = body.total
      BY <3>1 DEF Consumed
    <3>3. body.total + 1 <= n
      BY <1>3, <2>2, <2>4, <3>1, <3>2 DEF KindAt
    <3>4. QED BY <2>1, <2>2, <2>4, <3>1, <3>2, <3>3 DEF Counted, Consumed
  <2>5. QED BY <1>3, <2>3, <2>4 DEF Counted
<1>4. CASE /\ body.framing = "chunked" /\ ~body.trailers /\ Next1(Reader).kind = "last"
           /\ body' = [body EXCEPT !.trailers = TRUE]
  <2>1. /\ body'.framing = body.framing /\ body'.total = body.total /\ body'.trailers
        /\ body'.ended = body.ended /\ body.total \in Nat
    BY <1>1, <1>4 DEF BodyState
  <2>2. framing = "chunked" /\ ~body.ended /\ body.total <= n
    BY <1>4 DEF Counted
  <2>3. Consumed(body, n) = body.total
    BY <1>4, <2>2 DEF Consumed
  <2>4. body.total = n
    BY <1>4, <2>1, <2>2, <2>3 DEF KindAt
  <2>5. QED BY <1>4, <2>1, <2>2, <2>3, <2>4 DEF Counted, Consumed
<1>5. CASE /\ body.framing = "chunked" /\ body.trailers
           /\ body' = [body EXCEPT !.ended = Next1(Reader).kind = "blank"]
  <2>1. framing = "chunked" /\ ~body.ended /\ body.total = n
    BY <1>1, <1>5 DEF Counted, Complete
  <2>2. Consumed(body, n) = n + 1
    BY <1>5, <2>1 DEF Consumed
  <2>3. Next1(Reader).kind = "blank"
    BY <2>1, <2>2 DEF KindAt
  <2>4. body' = [body EXCEPT !.ended = TRUE]
    BY <1>5, <2>3
  <2>5. /\ body'.framing = body.framing /\ body'.total = body.total /\ body'.trailers
        /\ body'.ended
    BY <1>1, <1>5, <2>4 DEF BodyState
  <2>6. QED BY <1>5, <2>1, <2>2, <2>5 DEF Counted, Consumed
<1>6. QED BY <1>2, <1>3, <1>4, <1>5 DEF Unit

(* Before it is complete a body that the stream does not delimit lacks a token. *)
LEMMA Incomplete ==
    ASSUME NEW b \in BodyState, NEW n \in Nat,
           NEW framing \in {"none", "length", "chunked"}, Counted(b, framing, n), ~Complete(b)
    PROVE  Consumed(b, n) + 1 <= Span(framing, n)
BY DEF BodyState, Counted, Complete, Consumed, Span


LEMMA StreamTypeNext ==
    ASSUME TypeOK', NEW s \in Sides PROVE Stream(s)' \in Seq(Tokens(s))
<1>1. wire'[s] \in Seq(Tokens(s)) /\ outbox'[s] \in Seq(Tokens(s))
  BY SequencesNext
<1>2. wire'[s] \o outbox'[s] \in Seq(Tokens(s))
  BY <1>1, ConcatProperties
<1>3. QED BY <1>2 DEF Stream


-----------------------------------------------------------------------------
(* The origin's stream                                                      *)

LEMMA PrefixOnlyBody ==
    ASSUME NEW S, NEW l \in Nat, DOMAIN S = 1 .. l, NEW R, NEW r \in 0 .. l, DOMAIN R = 1 .. r,
           \A i \in 1 .. r : R[i] = S[i],
           NEW start, NEW span, NEW n, OnlyBody(S, start, span, n)
    PROVE  OnlyBody(R, start, span, n)
BY DEF OnlyBody

LEMMA TailOnlyBody ==
    ASSUME NEW S, NEW l \in Nat \ {0}, DOMAIN S = 1 .. l, NEW R, DOMAIN R = 1 .. (l - 1),
           \A i \in 1 .. (l - 1) : R[i] = S[i + 1],
           NEW start \in Int, NEW span \in Nat, NEW n \in Nat, OnlyBody(S, start, span, n)
    PROVE  OnlyBody(R, start - 1, span, n)
<1> SUFFICES ASSUME NEW i \in DOMAIN R, start - 1 < i
             PROVE  R[i].kind = IF i <= start - 1 + span THEN KindAt(n, i - (start - 1)) ELSE "fin"
  BY DEF OnlyBody
<1>1. i + 1 \in DOMAIN S /\ R[i] = S[i + 1] /\ start < i + 1 /\ (i + 1) - start = i - (start - 1)
  OBVIOUS
<1>2. S[i + 1].kind = IF i + 1 <= start + span THEN KindAt(n, (i + 1) - start) ELSE "fin"
  BY <1>1 DEF OnlyBody
<1>3. i + 1 <= start + span <=> i <= start - 1 + span
  OBVIOUS
<1>4. QED BY <1>1, <1>2, <1>3

(* The end of a stream is alone when nothing but ends is in it.             *)
LEMMA LoneEnd ==
    ASSUME TypeOK, FinInv, NEW s \in Sides, OnlyBody(Stream(s), 0, 0, 0), Stream(s) # <<>>
    PROVE  Stream(s)[1].kind = "fin" /\ Len(Stream(s)) = 1
<1>1. PICK l \in Nat :
        /\ Stream(s) \in Seq(Tokens(s)) /\ Len(Stream(s)) = l /\ DOMAIN Stream(s) = 1 .. l
        /\ \A i \in 1 .. l : Stream(s)[i] \in Tokens(s)
        /\ \A i \in DOMAIN wire[s] : i \in 1 .. l /\ Stream(s)[i].kind # "fin"
  BY StreamType
<1>2. l # 0
  BY <1>1, EmptySeq
<1>3. \A i \in 1 .. l : Stream(s)[i].kind = "fin"
  BY <1>1 DEF OnlyBody
<1>4. DOMAIN wire[s] = {}
  BY <1>1, <1>3
<1>5. wire[s] = <<>>
  <2>1. wire[s] \in Seq(Tokens(s))
    BY Sequences
  <2>2. Len(wire[s]) = 0
    BY <1>4, <2>1, LenProperties, SMTT(30)
  <2>3. QED BY <2>1, <2>2, EmptySeq
<1>6. Stream(s) = outbox[s]
  <2>1. outbox[s] \in Seq(Tokens(s))
    BY Sequences
  <2>2. QED BY <1>5, <2>1, ConcatEmptySeq DEF Stream
<1>7. Stream(s)[1] = Fin
  BY <1>1, <1>2, <1>3, TokenKinds
<1>8. 1 \in DOMAIN outbox[s] /\ outbox[s][1] = Fin
  BY <1>1, <1>2, <1>6, <1>7
<1>9. 1 = Len(outbox[s])
  BY <1>8 DEF FinInv
<1>10. QED BY <1>2, <1>3, <1>6, <1>9, <1>1

LEMMA InitFraming == Init => FramingInv
<1> SUFFICES ASSUME Init PROVE FramingInv
  OBVIOUS
<1>1. /\ \A s \in Sides : wire[s] = <<>> /\ outbox[s] = <<>> /\ up[s] = TRUE
      /\ "client" \in Sides /\ "origin" \in Sides
  BY DEF Init, Sides
<1>2. /\ pc = "head" /\ taken = <<>> /\ Len(taken) = 0 /\ composed = 0 /\ answered = 0
      /\ log = <<>>
  BY DEF Init
<1>3. \A s \in Sides : Stream(s) = <<>> /\ Len(Stream(s)) = 0 /\ DOMAIN Stream(s) = 1 .. 0
  <2>1. <<>> \in Seq(Sides)
    OBVIOUS
  <2>2. <<>> \o <<>> = <<>>
    BY <2>1, ConcatEmptySeq
  <2>3. \A s \in Sides : Stream(s) = <<>>
    BY <1>1, <2>2 DEF Stream
  <2>4. Len(<<>>) = 0 /\ DOMAIN <<>> = 1 .. 0
    OBVIOUS
  <2>5. QED BY <2>3, <2>4
<1>4. FinInv
  BY <1>1 DEF FinInv
<1>5. ClientInv
  <2>1. \A k \in DOMAIN taken : FALSE
    BY <1>2
  <2>2. InFrame(Stream("client"), up["client"], 0, 0, 0, 0, 0)
    BY <1>1, <1>3 DEF InFrame, Framed, Fits, Whole
  <2>3. QED BY <1>2, <2>1, <2>2 DEF ClientInv
<1>6. OriginInv
  BY <1>1, <1>2, <1>3 DEF OriginInv, OnlyBody
<1>7. CountedInv
  BY <1>2 DEF CountedInv
<1>8. SizesAreExact
  BY <1>2 DEF SizesAreExact, Finished
<1>9. QED BY <1>4, <1>5, <1>6, <1>7, <1>8 DEF FramingInv

-----------------------------------------------------------------------------
(* The peers                                                               *)

LEMMA ShrunkClient ==
    ASSUME TypeOK, TypeOK', ClientInv, Shrunk("client"), UNCHANGED <<pc, taken, body, composed>>
    PROVE  ClientInv'
<1>0. PICK l \in Nat : \E r \in 0 .. l :
        /\ Len(Stream("client")) = l /\ DOMAIN Stream("client") = 1 .. l
        /\ Len(Stream("client")') = r /\ DOMAIN Stream("client")' = 1 .. r
        /\ \A i \in 1 .. r : Stream("client")'[i] = Stream("client")[i]
        /\ up'["client"] => up["client"] /\ r = l
  BY DEF Shrunk
<1>1. PICK r \in 0 .. l :
        /\ Len(Stream("client")) = l /\ DOMAIN Stream("client") = 1 .. l
        /\ Len(Stream("client")') = r /\ DOMAIN Stream("client")' = 1 .. r
        /\ \A i \in 1 .. r : Stream("client")'[i] = Stream("client")[i]
        /\ up'["client"] => up["client"] /\ r = l
  BY <1>0
<1>2. up["client"] \in BOOLEAN /\ up'["client"] \in BOOLEAN
  BY DEF TypeOK, Sides
<1>3. ASSUME NEW start, NEW span, NEW n, NEW id,
             InFrame(Stream("client"), up["client"], composed, start, span, n, id)
      PROVE  InFrame(Stream("client")', up'["client"], composed, start, span, n, id)
  BY <1>1, <1>2, <1>3, PrefixInFrame
<1>4. Request' = Request
  BY DEF Request
<1>5. QED BY <1>3, <1>4 DEF ClientInv

LEMMA ShrunkOrigin ==
    ASSUME TypeOK, TypeOK', OriginInv, Shrunk("origin"),
           UNCHANGED <<pc, taken, body, answers, answered, interims>>
    PROVE  OriginInv'
<1>0. PICK l \in Nat : \E r \in 0 .. l :
        /\ Len(Stream("origin")) = l /\ DOMAIN Stream("origin") = 1 .. l
        /\ Len(Stream("origin")') = r /\ DOMAIN Stream("origin")' = 1 .. r
        /\ \A i \in 1 .. r : Stream("origin")'[i] = Stream("origin")[i]
        /\ up'["origin"] => up["origin"] /\ r = l
  BY DEF Shrunk
<1>1. PICK r \in 0 .. l :
        /\ Len(Stream("origin")) = l /\ DOMAIN Stream("origin") = 1 .. l
        /\ Len(Stream("origin")') = r /\ DOMAIN Stream("origin")' = 1 .. r
        /\ \A i \in 1 .. r : Stream("origin")'[i] = Stream("origin")[i]
        /\ up'["origin"] => up["origin"] /\ r = l
  BY <1>0
<1>2. \A start, span, n : OnlyBody(Stream("origin"), start, span, n)
                          => OnlyBody(Stream("origin")', start, span, n)
  BY <1>1, PrefixOnlyBody
<1>3. ASSUME Stream("origin")' # <<>>, Stream("origin") # <<>> => Answered(Stream("origin"), up["origin"])
      PROVE  Answered(Stream("origin"), up["origin"])' 
  <2>1. r # 0
    <3>1. Stream("origin")' \in Seq(Tokens("origin"))
      BY StreamTypeNext DEF Sides
    <3>2. QED BY <1>1, <1>3, <3>1, EmptySeq
  <2>2. Stream("origin") # <<>>
    BY <1>1, <2>1
  <2>3. Answered(Stream("origin"), up["origin"]) /\ Stream("origin")'[1] = Stream("origin")[1]
    BY <1>1, <1>3, <2>1, <2>2
  <2>4. Request' = Request
    BY DEF Request
  <2>5. CASE Stream("origin")[1].kind = "fin" /\ Len(Stream("origin")) = 1
    <3>1. Stream("origin")'[1].kind = "fin"
      BY <2>3, <2>5
    <3>2. Len(Stream("origin")') = 1
      BY <1>1, <2>1, <2>5, SMTT(30)
    <3>3. QED BY <3>1, <3>2 DEF Answered
  <2>6. CASE /\ Stream("origin")[1].kind = "bad" /\ (up["origin"] => Len(Stream("origin")) = 2)
             /\ OnlyBody(Stream("origin"), 1, 0, 0)
    BY <1>1, <1>2, <2>3, <2>6 DEF Answered
  <2>7. CASE /\ Stream("origin")[1].kind = "head" /\ Stream("origin")[1].id = Len(taken)
             /\ answered = Len(taken)
             /\ OnlyBody(Stream("origin"), 1, ResponseSpan(Stream("origin")[1].msg, Request.method),
                         Stream("origin")[1].msg.size)
    BY <1>1, <1>2, <2>3, <2>4, <2>7 DEF Answered
  <2>8. QED BY <2>3, <2>5, <2>6, <2>7 DEF Answered
<1>4. Request' = Request /\ Answer' = Answer
  BY DEF Request, Answer
<1>5. ASSUME interims = 0 PROVE OriginInv'
  <2>1. /\ pc = "head" => answered = Len(taken) /\ OnlyBody(Stream("origin"), 0, 0, 0)
        /\ pc \in {"reqBody", "respHead"} =>
              /\ answered \in {Len(taken) - 1, Len(taken)}
              /\ Stream("origin") # <<>> => Answered(Stream("origin"), up["origin"])
        /\ pc = "respBody" =>
              /\ answered = Len(taken)
              /\ OnlyBody(Stream("origin"), -Consumed(body, Answer.size),
                          ResponseSpan(Answer, Request.method), Answer.size)
        /\ pc \in {"respBody", "relay"} => answers[Len(answers)].id = Len(taken)
    BY <1>5 DEF OriginInv
  <2>2. pc = "head" => answered' = Len(taken') /\ OnlyBody(Stream("origin")', 0, 0, 0)
    BY <1>2, <2>1
  <2>3. pc \in {"reqBody", "respHead"} =>
           /\ answered' \in {Len(taken') - 1, Len(taken')}
           /\ Stream("origin")' # <<>> => Answered(Stream("origin"), up["origin"])'
    BY <1>3, <2>1
  <2>4. pc = "respBody" =>
           /\ answered' = Len(taken')
           /\ OnlyBody(Stream("origin")', -Consumed(body', Answer'.size),
                       ResponseSpan(Answer', Request'.method), Answer'.size)
    BY <1>2, <1>4, <2>1
  <2>5. pc \in {"respBody", "relay"} => answers'[Len(answers')].id = Len(taken')
    BY <2>1
  <2>6. QED BY <2>2, <2>3, <2>4, <2>5 DEF OriginInv
<1>6. QED BY <1>5 DEF OriginInv

(* The peers leave what the proxy has counted and recorded.                 *)
LEMMA PeersLeaveRecords ==
    ASSUME CountedInv, SizesAreExact, UNCHANGED <<pc, exchange>>, interims' = 0 => interims = 0
    PROVE  CountedInv' /\ SizesAreExact'
<1>1. UNCHANGED <<taken, answers, body, rec, log>>
  BY DEF exchange
<1>2. Request' = Request /\ Answer' = Answer
  BY <1>1 DEF Request, Answer
<1>3. CountedInv'
  BY <1>1, <1>2 DEF CountedInv
<1>4. \A k : /\ Bodiless(k)' <=> Bodiless(k)
             /\ Switched(k)' <=> Switched(k)
             /\ CloseDelimited(k)' <=> CloseDelimited(k)
  BY <1>1 DEF Bodiless, Switched, CloseDelimited
<1>5. Finished' = Finished
  BY <1>1, <1>4 DEF Finished
<1>6. SizesAreExact'
  BY <1>1, <1>4, <1>5 DEF SizesAreExact
<1>7. QED BY <1>3, <1>6


(* The client composes, or something that does not parse.                   *)
LEMMA ClientAdds ==
    ASSUME TypeOK, TypeOK', ExchangeInv, FinInv, ClientInv,
           outbox["client"] = <<>>, up["client"],
           NEW m \in Seq(Tokens("client")), NEW k \in Nat \ {0}, Len(m) = k, Compose("client", m),
           UNCHANGED <<wire, up, pc, taken, body>>,
           \A i \in 1 .. Len(m) : m[i] = Fin => i = Len(m),
           Adds(m, k, composed, composed')
    PROVE  FinInv' /\ ClientInv' /\ Shrunk("origin")
<1>0. /\ "client" \in Sides /\ "origin" \in Sides \ {"client"}
      /\ wire' = wire /\ up' = up /\ pc' = pc /\ taken' = taken /\ body' = body
  BY DEF Sides
<1>1. /\ FinInv'
      /\ Stream("client") = wire["client"]
      /\ \E l \in Nat, g \in Nat :
            /\ Len(Stream("client")) = l /\ DOMAIN Stream("client") = 1 .. l /\ Len(m) = g
            /\ Len(Stream("client")') = l + g /\ DOMAIN Stream("client")' = 1 .. (l + g)
            /\ \A i \in 1 .. l : Stream("client")'[i] = Stream("client")[i]
            /\ \A i \in 1 .. g : Stream("client")'[l + i] = m[i]
      /\ \A t \in Sides \ {"client"} : Stream(t)' = Stream(t)
  BY <1>0, ComposeStream
<1>2. PICK l \in Nat :
        /\ Len(Stream("client")) = l /\ DOMAIN Stream("client") = 1 .. l
        /\ Len(Stream("client")') = l + k /\ DOMAIN Stream("client")' = 1 .. (l + k)
        /\ \A i \in 1 .. l : Stream("client")'[i] = Stream("client")[i]
        /\ \A i \in 1 .. k : Stream("client")'[l + i] = m[i]
  BY <1>1
<1>3. composed \in Nat /\ composed' \in Nat /\ up["client"] = TRUE /\ up'["client"] = TRUE
  BY <1>0, BoundsAssumption DEF TypeOK
<1>4. \A i \in DOMAIN Stream("client") :
         Stream("client")[i].kind = "head" => RequestSpan(Stream("client")[i].msg) \in Nat
  BY ClientHeads
<1>5. ASSUME NEW start \in Int, NEW span \in Nat, NEW n, NEW id,
             InFrame(Stream("client"), up["client"], composed, start, span, n, id)
      PROVE  InFrame(Stream("client")', up'["client"], composed', start, span, n, id)
  <2>1. InFrame(Stream("client"), TRUE, composed, start, span, n, id)
    BY <1>3, <1>5
  <2>2. InFrame(Stream("client")', TRUE, composed', start, span, n, id)
    <3> DEFINE S == Stream("client")
               R == Stream("client")'
               next == composed'
    <3>1. /\ Added(S, l, m, k, R) /\ next \in Nat /\ composed \in Nat
          /\ InFrame(S, TRUE, composed, start, span, n, id)
      BY <1>2, <1>3, <1>4, <2>1 DEF Added
    <3>2. Adds(m, k, composed, next)
      OBVIOUS
    <3> HIDE DEF S, R, next
    <3>3. InFrame(R, TRUE, next, start, span, n, id)
      BY <1>5, <3>1, <3>2, AddedInFrame
    <3>4. QED BY <3>3 DEF R, next
  <2>3. QED BY <1>3, <2>2
<1>6. Request' = Request
  BY DEF Request
<1>7. ClientInv'
  <2>1. ASSUME pc = "reqBody"
        PROVE  InFrame(Stream("client")', up'["client"], composed', -Consumed(body, Request.size),
                       RequestSpan(Request), Request.size, Len(taken))
    <3>1. Request.size \in Nat /\ RequestSpan(Request) \in Nat
      BY <2>1, RequestType
    <3>2. -Consumed(body, Request.size) \in Int
      BY <3>1, ConsumedType DEF TypeOK
    <3>3. InFrame(Stream("client"), up["client"], composed, -Consumed(body, Request.size),
                  RequestSpan(Request), Request.size, Len(taken))
      BY <2>1 DEF ClientInv
    <3>4. QED BY <1>5, <3>1, <3>2, <3>3
  <2>2. ASSUME pc \in {"head", "respHead", "respBody"}
        PROVE  InFrame(Stream("client")', up'["client"], composed', 0, 0, 0, Len(taken))
    <3>1. InFrame(Stream("client"), up["client"], composed, 0, 0, 0, Len(taken))
      BY <2>2 DEF ClientInv
    <3>2. 0 \in Int /\ 0 \in Nat
      OBVIOUS
    <3>3. QED BY <1>5, <3>1, <3>2
  <2>3. \A i \in DOMAIN taken : taken[i].id = i
    BY DEF ClientInv
  <2>4. QED BY <1>6, <2>1, <2>2, <2>3 DEF ClientInv
<1>8. Shrunk("origin")
  BY <1>0, <1>1, SameStreams
<1>9. QED BY <1>1, <1>7, <1>8

(* The origin owes an answer, and has sent nothing of it.                   *)
LEMMA OriginIdle ==
    ASSUME TypeOK, OriginInv, interims = 0, pc \in {"reqBody", "respHead"},
           outbox["origin"] = <<>>, up["origin"], answered < Len(taken)
    PROVE  wire["origin"] = <<>> /\ answered = Len(taken) - 1
<1>0. "origin" \in Sides
  BY DEF Sides
<1>1. wire["origin"] \in Seq(Tokens("origin")) /\ outbox["origin"] \in Seq(Tokens("origin"))
  BY <1>0, Sequences
<1>2. Stream("origin") = wire["origin"]
  BY <1>1, ConcatEmptySeq DEF Stream
<1>3. PICK l \in Nat :
        /\ Len(Stream("origin")) = l /\ DOMAIN Stream("origin") = 1 .. l
        /\ \A i \in DOMAIN wire["origin"] : Stream("origin")[i].kind # "fin"
  BY <1>0, StreamType
<1>4. \A i \in 1 .. l : Stream("origin")[i].kind # "fin"
  BY <1>2, <1>3
<1>5. answered \in Nat /\ Len(taken) \in Nat
  BY LenProperties DEF TypeOK
<1>6. answered = Len(taken) - 1 /\ (Stream("origin") # <<>> => Answered(Stream("origin"), up["origin"]))
  <2>1. answered \in {Len(taken) - 1, Len(taken)}
        /\ (Stream("origin") # <<>> => Answered(Stream("origin"), up["origin"]))
    BY DEF OriginInv
  <2>2. answered # Len(taken)
    BY <1>5
  <2>3. QED BY <2>1, <2>2
<1>7. ASSUME Answered(Stream("origin"), up["origin"]), l # 0 PROVE FALSE
  <2>1. Stream("origin")[1].kind # "fin"
    BY <1>4, <1>7
  <2>2. ~(/\ Stream("origin")[1].kind = "bad" /\ (up["origin"] => Len(Stream("origin")) = 2)
          /\ OnlyBody(Stream("origin"), 1, 0, 0))
    BY <1>3, <1>4 DEF OnlyBody
  <2>3. answered # Len(taken)
    BY <1>5
  <2>4. QED BY <1>7, <2>1, <2>2, <2>3 DEF Answered
<1>8. l = 0
  <2>1. l # 0 => Stream("origin") # <<>>
    BY <1>3
  <2>2. QED BY <1>6, <1>7, <2>1
<1>9. QED BY <1>1, <1>2, <1>3, <1>6, <1>8, EmptySeq

(* What the origin composes is an answer and the end of the stream, or not. *)
AnswerTokens(head, bodiless, ends) ==
    Message(head, bodiless) \o (IF ends THEN <<Fin>> ELSE <<>>)

IsAnswer(m, head, span) ==
    /\ m \in Seq(Tokens("origin")) /\ m # <<>>
    /\ m[1] = head
    /\ OnlyBody(m, 1, span, head.msg.size)
    /\ \A i \in 1 .. Len(m) : m[i] = Fin => i = Len(m)

LEMMA OriginMessage ==
    ASSUME NEW head \in ResponseHeads, NEW bodiless \in BOOLEAN, NEW ends \in BOOLEAN
    PROVE  IsAnswer(AnswerTokens(head, bodiless, ends), head, MessageSpan(head.msg, bodiless))
<1> DEFINE m == AnswerTokens(head, bodiless, ends)
<1> DEFINE T == Tokens("origin")
           a == Message(head, bodiless)
           f == IF ends THEN <<Fin>> ELSE <<>>
           n == head.msg.size
<1>0. "origin" \in Sides /\ head \in Heads("origin")
  BY DEF Sides, Heads
<1>1. /\ MessageSpan(head.msg, bodiless) \in Nat
      /\ Len(a) = MessageSpan(head.msg, bodiless) + 1
      /\ a \in Seq(Heads("origin") \cup Marks)
      /\ a[1] = head
      /\ \A i \in 2 .. MessageSpan(head.msg, bodiless) + 1 : a[i].kind = KindAt(n, i - 1)
  BY <1>0, MessageTokens
<1>2. PICK span \in Nat : span = MessageSpan(head.msg, bodiless)
  BY <1>1
<1>3. a \in Seq(T)
  BY <1>1 DEF Tokens
<1>4. f \in Seq(T) /\ Len(f) = (IF ends THEN 1 ELSE 0) /\ (ends => f[1] = Fin)
  <2>1. Fin \in T
    BY DEF Tokens
  <2>2. <<Fin>> \in Seq(T) /\ <<>> \in Seq(T) /\ Len(<<Fin>>) = 1 /\ Len(<<>>) = 0 /\ <<Fin>>[1] = Fin
    BY <2>1
  <2>3. QED BY <2>2
<1>5. m = a \o f
  BY DEF AnswerTokens
<1>6. \A i \in 1 .. span + 1 : a[i].kind # "fin"
  <2>1. \A i \in DOMAIN a : a[i] \in Heads("origin") \cup Marks
    BY <1>1, LenProperties, ElementOfSeq
  <2>2. DOMAIN a = 1 .. span + 1
    BY <1>1, <1>2, LenProperties
  <2>3. QED BY <2>1, <2>2 DEF Heads, RequestHeads, ResponseHeads, Marks
<1> HIDE DEF T, a, f, m
<1>7. PICK x \in Nat, y \in Nat :
        /\ Len(a) = x /\ Len(f) = y /\ DOMAIN a = 1 .. x /\ DOMAIN f = 1 .. y
        /\ a \o f \in Seq(T) /\ Len(a \o f) = x + y /\ DOMAIN (a \o f) = 1 .. (x + y)
        /\ \A i \in 1 .. x : (a \o f)[i] = a[i]
        /\ \A i \in 1 .. y : (a \o f)[x + i] = f[i]
        /\ \A i \in 1 .. (x + y) : (a \o f)[i] \in T
  BY <1>3, <1>4, Joined
<1>8. x = span + 1 /\ y \in {0, 1} /\ (y = 1 => f[1] = Fin)
  BY <1>1, <1>2, <1>4, <1>7
<1>9. /\ m \in Seq(T) /\ Len(m) = x + y /\ DOMAIN m = 1 .. (x + y)
      /\ \A i \in 1 .. x : m[i] = a[i]
      /\ y = 1 => m[x + 1] = Fin
  <2>1. ASSUME y = 1 PROVE m[x + 1] = Fin
    <3>1. 1 \in 1 .. y
      BY <2>1
    <3>2. m[x + 1] = f[1]
      BY <1>5, <1>7, <3>1
    <3>3. QED BY <1>8, <2>1, <3>2
  <2>2. QED BY <1>5, <1>7, <2>1
<1>10. m[1] = head /\ m # <<>>
  <2>1. 1 \in 1 .. x
    BY <1>8
  <2>2. m[1] = a[1] /\ Len(m) # 0
    BY <1>8, <1>9, <2>1
  <2>3. QED BY <1>1, <2>2
<1>11. OnlyBody(m, 1, span, n)
  <2> SUFFICES ASSUME NEW i \in DOMAIN m, 1 < i
               PROVE  m[i].kind = IF i <= 1 + span THEN KindAt(n, i - 1) ELSE "fin"
    BY DEF OnlyBody
  <2>1. CASE i <= 1 + span
    <3>1. i \in 1 .. x /\ i \in 2 .. span + 1
      BY <1>8, <1>9, <2>1
    <3>2. QED BY <1>1, <1>2, <1>9, <2>1, <3>1
  <2>2. CASE i > 1 + span
    <3>1. y = 1 /\ i = x + 1
      BY <1>8, <1>9, <2>2
    <3>2. m[i] = Fin
      BY <1>9, <3>1
    <3>3. Fin.kind = "fin"
      BY DEF Fin
    <3>4. QED BY <1>9, <2>2, <3>2, <3>3
  <2>3. QED BY <1>9, <2>1, <2>2
<1>12. ASSUME NEW i \in 1 .. Len(m), m[i] = Fin PROVE i = Len(m)
  <2>1. ~(i <= x)
    <3>1. ASSUME i <= x PROVE FALSE
      <4>1. i \in 1 .. x /\ i \in 1 .. span + 1
        BY <1>8, <1>9, <3>1
      <4>2. m[i].kind # "fin"
        BY <1>6, <1>9, <4>1
      <4>3. QED BY <1>12, <4>2 DEF Fin
    <3>2. QED BY <3>1
  <2>2. QED BY <1>8, <1>9, <2>1
<1>13. QED BY <1>2, <1>9, <1>10, <1>11, <1>12 DEF T, m, IsAnswer


LEMMA GarbledTokens ==
    ASSUME NEW s \in Sides
    PROVE  /\ <<Mark("bad"), Fin>> \in Seq(Tokens(s)) /\ Len(<<Mark("bad"), Fin>>) = 2
           /\ <<Mark("bad"), Fin>>[1].kind = "bad" /\ <<Mark("bad"), Fin>>[2].kind = "fin"
           /\ <<Mark("bad"), Fin>>[1] # Fin
<1> DEFINE x == Mark("bad")
           y == Fin
<1>1. x \in Tokens(s) /\ y \in Tokens(s) /\ x.kind = "bad" /\ y.kind = "fin"
  BY DEF Tokens, Mark, Marks, Fin
<1>2. x # y
  BY <1>1
<1> HIDE DEF x, y
<1>3. /\ <<x, y>> \in Seq(Tokens(s)) /\ Len(<<x, y>>) = 2 /\ <<x, y>>[1] = x /\ <<x, y>>[2] = y
  BY <1>1
<1>4. QED BY <1>1, <1>2, <1>3 DEF x, y


LEMMA OriginAdds ==
    ASSUME TypeOK, TypeOK', ExchangeInv, FinInv, OriginInv,
           outbox["origin"] = <<>>, up["origin"], answered < Len(taken),
           NEW m \in Seq(Tokens("origin")), m # <<>>, Compose("origin", m),
           UNCHANGED <<wire, up, pc, taken, answers, body>>,
           interims' = 0 => interims = 0,
           \A i \in 1 .. Len(m) : m[i] = Fin => i = Len(m),
           interims' = 0 =>
              \/ /\ m[1].kind = "bad" /\ Len(m) = 2 /\ OnlyBody(m, 1, 0, 0) /\ answered' = answered
              \/ /\ m[1].kind = "head" /\ m[1].id = answered + 1 /\ answered' = answered + 1
                 /\ answered + 1 = Len(taken) =>
                      OnlyBody(m, 1, ResponseSpan(m[1].msg, Request.method), m[1].msg.size)
    PROVE  FinInv' /\ OriginInv' /\ Shrunk("client")
<1>0. /\ "origin" \in Sides /\ "client" \in Sides \ {"origin"}
      /\ wire' = wire /\ up' = up /\ pc' = pc /\ taken' = taken /\ answers' = answers /\ body' = body
  BY DEF Sides
<1>1. /\ FinInv'
      /\ Stream("origin") = wire["origin"]
      /\ \E l \in Nat, g \in Nat :
            /\ Len(Stream("origin")) = l /\ DOMAIN Stream("origin") = 1 .. l /\ Len(m) = g
            /\ Len(Stream("origin")') = l + g /\ DOMAIN Stream("origin")' = 1 .. (l + g)
            /\ \A i \in 1 .. l : Stream("origin")'[i] = Stream("origin")[i]
            /\ \A i \in 1 .. g : Stream("origin")'[l + i] = m[i]
      /\ \A t \in Sides \ {"origin"} : Stream(t)' = Stream(t)
  BY <1>0, ComposeStream
<1>2. Shrunk("client")
  BY <1>0, <1>1, SameStreams
<1>3. answered \in Nat /\ Len(taken) \in Nat
  BY LenProperties DEF TypeOK
<1>4. ASSUME interims' = 0, pc \in {"reqBody", "respHead"}
      PROVE  /\ answered' \in {Len(taken) - 1, Len(taken)}
             /\ Answered(Stream("origin"), up["origin"])'
  <2>1. wire["origin"] = <<>> /\ answered = Len(taken) - 1
    BY <1>4, OriginIdle
  <2>2. outbox'["origin"] = m
    BY <1>0 DEF Compose, TypeOK
  <2>3. Stream("origin")' = m
    BY <1>0, <2>1, <2>2, ConcatEmptySeq DEF Stream
  <2>4. Request' = Request
    BY <1>0 DEF Request
  <2>5. answered + 1 = Len(taken)
    BY <1>3, <2>1
  <2>6. CASE m[1].kind = "bad" /\ Len(m) = 2 /\ OnlyBody(m, 1, 0, 0) /\ answered' = answered
    BY <2>1, <2>3, <2>6 DEF Answered
  <2>7. CASE /\ m[1].kind = "head" /\ m[1].id = answered + 1 /\ answered' = answered + 1
             /\ answered + 1 = Len(taken) =>
                  OnlyBody(m, 1, ResponseSpan(m[1].msg, Request.method), m[1].msg.size)
    <3>1. /\ Stream("origin")'[1].kind = "head" /\ Stream("origin")'[1].id = Len(taken')
          /\ answered' = Len(taken')
          /\ OnlyBody(Stream("origin")', 1,
                      ResponseSpan(Stream("origin")'[1].msg, Request'.method),
                      Stream("origin")'[1].msg.size)
      BY <1>0, <2>3, <2>4, <2>5, <2>7
    <3>2. QED BY <1>0, <3>1 DEF Answered
  <2>8. QED BY <1>4, <2>6, <2>7
<1>5. OriginInv'
  <2>1. ASSUME interims' = 0 PROVE pc \notin {"head", "respBody"}
    <3>1. interims = 0 /\ answered # Len(taken)
      BY <1>3, <2>1
    <3>2. QED BY <3>1 DEF OriginInv
  <2>2. ASSUME interims' = 0, pc \in {"respBody", "relay"}
        PROVE  answers[Len(answers)].id = Len(taken)
    BY <2>2 DEF OriginInv
  <2>3. QED BY <1>0, <1>4, <2>1, <2>2 DEF OriginInv
<1>6. QED BY <1>1, <1>2, <1>5

LEMMA PeersFraming ==
    ASSUME TypeOK, TypeOK', ExchangeInv, FramingInv, Peers PROVE FramingInv'
<1> USE DEF client, origin
<1>0. /\ FinInv /\ ClientInv /\ OriginInv /\ CountedInv /\ SizesAreExact
      /\ UNCHANGED <<pc, exchange>> /\ UNCHANGED <<taken, answers, body>>
      /\ "client" \in Sides /\ "origin" \in Sides
  BY PeersLeaveExchange DEF FramingInv, exchange, Sides
<1>1. CASE ClientComposes
  <2>1. PICK r \in Requests :
          Compose("client", Message([kind |-> "head", id |-> composed + 1, msg |-> r],
                                    r.coding = "absent"))
    BY <1>1 DEF ClientComposes
  <2>2. /\ up["client"] /\ outbox["client"] = <<>> /\ composed' = composed + 1
        /\ UNCHANGED <<wire, up, answered, interims>>
    BY <1>1 DEF ClientComposes
  <2> DEFINE head == [kind |-> "head", id |-> composed + 1, msg |-> r]
             bodiless == r.coding = "absent"
             m == Message(head, bodiless)
             k == RequestSpan(r) + 1
  <2>3. head \in Heads("client") /\ head.msg = r /\ head.id = composed + 1 /\ head.kind = "head"
    BY BoundsAssumption DEF TypeOK, Heads, RequestHeads
  <2>4. MessageSpan(r, bodiless) = RequestSpan(r) /\ RequestSpan(r) \in Nat /\ k \in Nat \ {0}
    <3>1. RequestSpan(r) \in Nat
      BY Spans
    <3>2. r.coding \in Codings
      BY RequestsAssumption
    <3>3. QED BY <3>1, <3>2 DEF MessageSpan, RequestSpan, Span, RequestFraming, Codings
  <2>5. bodiless \in BOOLEAN /\ Compose("client", m)
    BY <2>1
  <2> HIDE DEF head, bodiless
  <2>6. /\ Len(m) = k /\ m \in Seq(Heads("client") \cup Marks) /\ m[1] = head
        /\ \A i \in 2 .. k : m[i].kind = KindAt(r.size, i - 1)
    <3>1. /\ Len(m) = MessageSpan(head.msg, bodiless) + 1
          /\ m \in Seq(Heads("client") \cup Marks) /\ m[1] = head
          /\ \A i \in 2 .. MessageSpan(head.msg, bodiless) + 1 : m[i].kind = KindAt(head.msg.size, i - 1)
      BY <1>0, <2>3, <2>5, MessageTokens
    <3>2. MessageSpan(head.msg, bodiless) + 1 = k /\ head.msg.size = r.size
      BY <2>3, <2>4
    <3>3. QED BY <3>1, <3>2
  <2> HIDE DEF m
  <2>7. m \in Seq(Tokens("client"))
    BY <2>6 DEF Tokens
  <2>8. \A i \in 1 .. Len(m) : m[i] # Fin
    <3>1. \A i \in DOMAIN m : m[i] \in Heads("client") \cup Marks
      BY <2>6, LenProperties, ElementOfSeq
    <3>2. DOMAIN m = 1 .. Len(m)
      BY <2>6, LenProperties
    <3>3. QED BY <3>1, <3>2 DEF Heads, RequestHeads, Marks, Fin
  <2>9. Adds(m, k, composed, composed')
    BY <2>2, <2>3, <2>4, <2>6 DEF Adds
  <2> HIDE DEF k
  <2>10. FinInv' /\ ClientInv' /\ Shrunk("origin")
    BY <1>0, <2>2, <2>4, <2>5, <2>6, <2>7, <2>8, <2>9, ClientAdds
  <2>11. OriginInv'
    BY <1>0, <2>2, <2>10, ShrunkOrigin
  <2>12. CountedInv' /\ SizesAreExact'
    BY <1>0, <2>2, PeersLeaveRecords
  <2>13. QED BY <2>10, <2>11, <2>12 DEF FramingInv
<1>2. CASE Garbles("client")
  <2> DEFINE m == <<Mark("bad"), Fin>>
  <2>1. /\ up["client"] /\ outbox["client"] = <<>> /\ Compose("client", m)
        /\ UNCHANGED <<wire, up, composed, answered, interims>>
    BY <1>2 DEF Garbles
  <2>2. /\ m \in Seq(Tokens("client")) /\ Len(m) = 2
        /\ m[1].kind = "bad" /\ m[2].kind = "fin" /\ m[1] # Fin
    BY <1>0, GarbledTokens
  <2> HIDE DEF m
  <2>3. Adds(m, 2, composed, composed')
    BY <2>1, <2>2 DEF Adds
  <2>4. \A i \in 1 .. Len(m) : m[i] = Fin => i = Len(m)
    BY <2>2
  <2>5. FinInv' /\ ClientInv' /\ Shrunk("origin")
    <3>1. 2 \in Nat \ {0}
      OBVIOUS
    <3>2. QED BY <1>0, <2>1, <2>2, <2>3, <2>4, <3>1, ClientAdds
  <2>6. OriginInv'
    BY <1>0, <2>1, <2>5, ShrunkOrigin
  <2>7. CountedInv' /\ SizesAreExact'
    BY <1>0, <2>1, PeersLeaveRecords
  <2>8. QED BY <2>5, <2>6, <2>7 DEF FramingInv
<1>3. CASE Garbles("origin")
  <2> DEFINE m == <<Mark("bad"), Fin>>
  <2>1. /\ up["origin"] /\ outbox["origin"] = <<>> /\ Compose("origin", m)
        /\ answered < Len(taken)
        /\ UNCHANGED <<wire, up, composed, answered, interims>>
    BY <1>3 DEF Garbles
  <2>2. /\ m \in Seq(Tokens("origin")) /\ Len(m) = 2
        /\ m[1].kind = "bad" /\ m[2].kind = "fin" /\ m[1] # Fin
    BY <1>0, GarbledTokens
  <2> HIDE DEF m
  <2>3. OnlyBody(m, 1, 0, 0) /\ m # <<>>
    <3>1. DOMAIN m = 1 .. 2
      BY <2>2, LenProperties
    <3>2. QED BY <2>2, <3>1 DEF OnlyBody
  <2>4. \A i \in 1 .. Len(m) : m[i] = Fin => i = Len(m)
    BY <2>2
  <2>5. FinInv' /\ OriginInv' /\ Shrunk("client")
    BY <1>0, <2>1, <2>2, <2>3, <2>4, OriginAdds
  <2>6. ClientInv'
    BY <1>0, <2>1, <2>5, ShrunkClient
  <2>7. CountedInv' /\ SizesAreExact'
    BY <1>0, <2>1, PeersLeaveRecords
  <2>8. QED BY <2>5, <2>6, <2>7 DEF FramingInv
<1>4. CASE OriginAnswers
  <2> DEFINE head(r) == [kind |-> "head", id |-> answered + 1, msg |-> r]
             bodiless(r) == r.status # "final" \/ taken[answered + 1].msg.method = "HEAD"
             ends(r) == r.last \/ (~bodiless(r) /\ r.coding = "absent")
             tokens(r) == Message(head(r), bodiless(r)) \o (IF ends(r) THEN <<Fin>> ELSE <<>>)
  <2>1. PICK r \in Responses :
          /\ Compose("origin", tokens(r))
          /\ IF r.status = "interim"
             THEN interims < MaxInterims /\ interims' = interims + 1 /\ UNCHANGED answered
             ELSE answered' = answered + 1 /\ UNCHANGED interims
    BY <1>4 DEF OriginAnswers
  <2>2. /\ up["origin"] /\ outbox["origin"] = <<>> /\ answered < Len(taken)
        /\ UNCHANGED <<wire, up, composed>>
    BY <1>4 DEF OriginAnswers
  <2>3. interims' = 0 => interims = 0 /\ answered' = answered + 1
    BY <2>1 DEF TypeOK
  <2> DEFINE h == head(r)
             b == bodiless(r)
             e == ends(r)
             m == tokens(r)
  <2>4. h \in ResponseHeads /\ h.kind = "head" /\ h.id = answered + 1 /\ h.msg = r
    BY DEF TypeOK, ResponseHeads
  <2>5. b \in BOOLEAN /\ m = AnswerTokens(h, b, e) /\ Compose("origin", m)
    BY <2>1 DEF AnswerTokens
  <2>6. e \in BOOLEAN
    BY ResponsesAssumption
  <2>7. answered + 1 = Len(taken) => MessageSpan(r, b) = ResponseSpan(r, Request.method)
    <3>1. answered + 1 = Len(taken) =>
             (b <=> r.status # "final" \/ Request.method = "HEAD")
      BY DEF Request
    <3>2. r.coding \in Codings
      BY ResponsesAssumption
    <3> HIDE DEF b
    <3>3. QED BY <3>1, <3>2 DEF MessageSpan, ResponseSpan, Span, ResponseFraming, Codings
  <2> HIDE DEF h, b, e, m
  <2>8. /\ m \in Seq(Tokens("origin")) /\ m # <<>> /\ m[1] = h
        /\ OnlyBody(m, 1, MessageSpan(r, b), r.size)
        /\ \A i \in 1 .. Len(m) : m[i] = Fin => i = Len(m)
    <3>1. IsAnswer(m, h, MessageSpan(h.msg, b))
      BY <2>4, <2>5, <2>6, OriginMessage
    <3>2. QED BY <2>4, <3>1 DEF IsAnswer
  <2>9. interims' = 0 =>
           /\ m[1].kind = "head" /\ m[1].id = answered + 1 /\ answered' = answered + 1
           /\ answered + 1 = Len(taken) =>
                OnlyBody(m, 1, ResponseSpan(m[1].msg, Request.method), m[1].msg.size)
    BY <2>3, <2>4, <2>7, <2>8
  <2>10. FinInv' /\ OriginInv' /\ Shrunk("client")
    BY <1>0, <2>2, <2>3, <2>5, <2>8, <2>9, OriginAdds
  <2>11. ClientInv'
    BY <1>0, <2>2, <2>10, ShrunkClient
  <2>12. CountedInv' /\ SizesAreExact'
    BY <1>0, <2>3, PeersLeaveRecords
  <2>13. QED BY <2>10, <2>11, <2>12 DEF FramingInv
<1>5. ASSUME NEW s \in Sides, Writes(s) \/ Leaves(s) PROVE FramingInv'
  <2>1. FinInv' /\ \A t \in Sides : Shrunk(t)
    BY <1>0, <1>5, WriteStream, LeaveStream
  <2>2. UNCHANGED <<composed, answered, interims>>
    BY <1>5 DEF Writes, Leaves
  <2>3. ClientInv' /\ OriginInv'
    BY <1>0, <2>1, <2>2, ShrunkClient, ShrunkOrigin
  <2>4. CountedInv' /\ SizesAreExact'
    BY <1>0, <2>2, PeersLeaveRecords
  <2>5. QED BY <2>1, <2>3, <2>4 DEF FramingInv
<1>6. QED BY <1>1, <1>2, <1>3, <1>4, <1>5 DEF Peers, Sides


-----------------------------------------------------------------------------
(* The records                                                             *)

LEMMA KeepsSizes ==
    ASSUME TypeOK, ExchangeInv, SizesAreExact, UNCHANGED <<log, interims>>, pc # "closed",
           \A k \in DOMAIN taken : taken'[k] = taken[k],
           \A k \in DOMAIN answers : answers'[k] = answers[k],
           Len(log) <= Len(taken), Len(log) <= Len(answers)
    PROVE  SizesAreExact'
<1>1. \A k \in DOMAIN log : /\ taken'[k] = taken[k] /\ answers'[k] = answers[k]
                            /\ log'[k] = log[k]
  BY LenProperties DEF TypeOK
<1>2. \A k \in DOMAIN log : /\ Bodiless(k)' <=> Bodiless(k)
                            /\ Switched(k)' <=> Switched(k)
                            /\ CloseDelimited(k)' <=> CloseDelimited(k)
  BY <1>1 DEF Bodiless, Switched, CloseDelimited
<1>3. Finished' = Finished /\ Finished \subseteq DOMAIN log
  BY <1>1, <1>2 DEF Finished
<1>4. QED BY <1>1, <1>2, <1>3 DEF SizesAreExact

(* The sizes of one record.                                                 *)
Exact(k, request, response) ==
    /\ request = RequestSize(taken[k].msg)
    /\ IF CloseDelimited(k) THEN response <= answers[k].msg.size
       ELSE response = IF Bodiless(k) THEN 0 ELSE answers[k].msg.size

LEMMA AddsSizes ==
    ASSUME TypeOK, ExchangeInv, SizesAreExact, UNCHANGED <<taken, answers, interims>>,
           NEW r \in Record, NEW error \in BOOLEAN, Submit(r, error),
           Len(taken) = Len(log) + 1,
           interims = 0 => error \/ Switched(Len(taken)) \/ Exact(Len(taken), r.request, r.response)
    PROVE  SizesAreExact'
<1>0. PICK n \in Nat : n = Len(log) + 1 /\ n = Len(taken)
  BY LenProperties DEF TypeOK
<1> DEFINE e == [request |-> r.request, response |-> r.response,
                truncated |-> r.truncated, error |-> error]
<1>1. /\ \A k \in DOMAIN log : k \in DOMAIN log' /\ log'[k] = log[k]
      /\ \A k \in DOMAIN log' : k \in DOMAIN log \/ k = n
      /\ log'[n] = e
  BY <1>0, SubmitTypes
<1>2. \A k : /\ Switched(k)' <=> Switched(k)
             /\ CloseDelimited(k)' <=> CloseDelimited(k)
             /\ Bodiless(k)' <=> Bodiless(k)
             /\ taken'[k] = taken[k] /\ answers'[k] = answers[k]
  BY DEF Switched, CloseDelimited, Bodiless
<1>3. log'[n].error = error /\ log'[n].request = r.request /\ log'[n].response = r.response
  BY <1>1
<1> HIDE DEF e
<1> SUFFICES ASSUME interims = 0, NEW k \in DOMAIN log', ~log'[k].error, ~Switched(k)
             PROVE  /\ log'[k].request = IF taken[k].msg.coding = "absent" THEN 0
                                         ELSE taken[k].msg.size
                    /\ IF CloseDelimited(k) THEN log'[k].response <= answers[k].msg.size
                       ELSE log'[k].response = IF Bodiless(k) THEN 0 ELSE answers[k].msg.size
  BY <1>2 DEF SizesAreExact, Finished
<1>4. CASE k \in DOMAIN log
  <2>1. k \in Finished /\ log'[k] = log[k]
    BY <1>1, <1>4 DEF Finished
  <2>2. QED BY <2>1 DEF SizesAreExact
<1>5. CASE k = n
  <2>1. Exact(n, log'[n].request, log'[n].response)
    BY <1>0, <1>3, <1>5
  <2>2. QED BY <1>5, <2>1 DEF Exact, RequestSize
<1>6. QED BY <1>1, <1>4, <1>5

(* A step that closes the streams, or relays them.                          *)
LEMMA ClosesFraming ==
    ASSUME TypeOK, TypeOK', ExchangeInv, FramingInv, pc' \in {"closed", "relay"},
           UNCHANGED <<outbox, up, taken, answers, interims>>, SizesAreExact',
           interims = 0 /\ pc' = "relay" => pc = "relay"
    PROVE  FramingInv'
<1>1. FinInv' /\ ClientInv'
  BY DEF FramingInv, FinInv, ClientInv
<1>2. OriginInv'
  BY DEF FramingInv, OriginInv
<1>3. CountedInv'
  BY DEF FramingInv, CountedInv
<1>4. QED BY <1>1, <1>2, <1>3 DEF FramingInv

-----------------------------------------------------------------------------
(* The steps of the proxy                                                  *)

LEMMA TakeRequestFraming ==
    ASSUME TypeOK, TypeOK', ExchangeInv, FramingInv, TakeRequest PROVE FramingInv'
<1> DEFINE S == Stream("client")
           h == Next1("client")
           n == h.msg.size
           id == Len(taken) + 1
<1>1. /\ pc = "head" /\ pc' = "reqBody" /\ Ready("client") /\ Read("client") /\ h.kind = "head"
      /\ taken' = Append(taken, h) /\ body' = StartBody(RequestFraming(h.msg), n)
      /\ UNCHANGED <<outbox, up, composed, awaiting, answered, interims, answers, log>>
      /\ "client" \in Sides /\ "origin" \in Sides \ {"client"}
      /\ FinInv /\ ClientInv /\ OriginInv /\ SizesAreExact
  BY DEF TakeRequest, FramingInv, client, origin, Sides
<1>2. h \in RequestHeads /\ h.msg \in Requests
  BY <1>1, ReadTypes DEF Heads, RequestHeads
<1>3. n \in Nat /\ RequestSpan(h.msg) \in Nat
  BY <1>2, Spans
<1>4. /\ taken' = Append(taken, h) /\ Len(taken) \in Nat /\ Len(taken') = id
      /\ DOMAIN taken = 1 .. Len(taken) /\ DOMAIN taken' = 1 .. id
      /\ taken'[id] = h /\ \A k \in 1 .. Len(taken) : taken'[k] = taken[k]
  <2>1. taken \in Seq(RequestHeads) /\ taken' \in Seq(RequestHeads)
    BY DEF TypeOK
  <2>2. QED BY <1>1, <1>2, <2>1, AppendProperties, LenProperties
<1> HIDE DEF h
<1>5. PICK l \in Nat \ {0} :
        /\ Len(S) = l /\ DOMAIN S = 1 .. l
        /\ Len(S') = l - 1 /\ DOMAIN S' = 1 .. (l - 1)
        /\ \A i \in 1 .. (l - 1) : S'[i] = S[i + 1]
        /\ S[1] = h
  BY <1>1, ReadStream DEF h
<1>6. Stream("origin")' = Stream("origin")
  BY <1>1, ReadStream
<1>7. InFrame(S, up["client"], composed, 0, 0, 0, Len(taken))
  BY <1>1 DEF ClientInv
<1>8. h.id = id
  <2>1. Fits(S, 0, 0, 0, Len(taken)) /\ 1 \in DOMAIN S
    BY <1>5, <1>7 DEF InFrame, Framed
  <2>2. QED BY <1>1, <1>5, <2>1 DEF Fits
<1>9. InFrame(S, up["client"], composed, 1, RequestSpan(h.msg), n, id)
  <2>1. 1 \in DOMAIN S
    BY <1>5
  <2>2. QED BY <1>1, <1>5, <1>7, <1>8, <2>1 DEF InFrame
<1>10. InFrame(S', up["client"], composed, 0, RequestSpan(h.msg), n, id)
  <2>1. InFrame(S', up["client"], composed, 1 - 1, RequestSpan(h.msg), n, id)
    <3>1. Shifted(S, l, S')
      BY <1>5, ClientHeads DEF Shifted
    <3> HIDE DEF S, n, id
    <3>2. 1 \in Int
      OBVIOUS
    <3>3. QED BY <1>3, <1>9, <3>1, <3>2, TailInFrame
  <2>2. 1 - 1 = 0
    OBVIOUS
  <2>3. QED BY <2>1, <2>2
<1>11. /\ Counted(body', RequestFraming(h.msg), n) /\ Consumed(body', n) = 0
  BY <1>1, <1>2, <1>3, Framings, Started
<1>12. Request' = h.msg
  BY <1>4 DEF Request
<1>13. FinInv'
  BY <1>1 DEF FinInv
<1>14. ClientInv'
  <2>1. \A k \in DOMAIN taken' : taken'[k].id = k
    <3>1. \A k \in DOMAIN taken : taken[k].id = k
      BY <1>1 DEF ClientInv
    <3>2. QED BY <1>4, <1>8, <3>1
  <2>2. InFrame(S', up'["client"], composed', -Consumed(body', Request'.size),
                RequestSpan(Request'), Request'.size, Len(taken'))
    <3>1. -Consumed(body', n) = 0
      <4>1. Consumed(body', n) = 0
        BY <1>11
      <4>2. QED BY <4>1, NothingConsumed
    <3>2. QED BY <1>1, <1>4, <1>10, <1>12, <3>1
  <2>3. QED BY <1>1, <2>1, <2>2 DEF ClientInv
<1>15. OriginInv'
  <2> SUFFICES ASSUME interims = 0
               PROVE  /\ answered' \in {Len(taken') - 1, Len(taken')}
                      /\ Stream("origin")' # <<>> => Answered(Stream("origin"), up["origin"])'
    BY <1>1 DEF OriginInv
  <2>1. answered = Len(taken) /\ OnlyBody(Stream("origin"), 0, 0, 0)
    BY <1>1 DEF OriginInv
  <2>2. answered' = Len(taken') - 1
    BY <1>1, <1>4, <2>1
  <2>3. ASSUME Stream("origin") # <<>>
        PROVE  Stream("origin")[1].kind = "fin" /\ Len(Stream("origin")) = 1
    BY <1>1, <2>1, <2>3, LoneEnd
  <2>4. QED BY <1>6, <2>2, <2>3 DEF Answered
<1>16. CountedInv'
  BY <1>1, <1>11, <1>12 DEF CountedInv
<1>17. SizesAreExact'
  <2>1. Len(log) <= Len(taken) /\ Len(log) <= Len(answers)
    BY <1>1, LenProperties DEF ExchangeInv, CountInv, TypeOK
  <2>2. \A k \in DOMAIN taken : taken'[k] = taken[k]
    BY <1>4
  <2>3. QED BY <1>1, <2>1, <2>2, KeepsSizes
<1>18. QED BY <1>13, <1>14, <1>15, <1>16, <1>17 DEF FramingInv


LEMMA TakeResponseFraming ==
    ASSUME TypeOK, TypeOK', ExchangeInv, FramingInv, TakeResponse PROVE FramingInv'
<1> DEFINE S == Stream("origin")
           h == Next1("origin")
           f == ResponseFraming(h.msg, Request.method)
           span == ResponseSpan(h.msg, Request.method)
           n == h.msg.size
<1>1. /\ pc = "respHead" /\ Ready("origin") /\ Read("origin") /\ h.kind = "head"
      /\ answers' = Append(answers, h)
      /\ UNCHANGED <<outbox, up, composed, answered, interims, taken, rec, log>>
      /\ \/ pc' = "relay"
         \/ pc' = "respBody" /\ body' = StartBody(f, n)
      /\ "origin" \in Sides /\ "client" \in Sides \ {"origin"}
      /\ FinInv /\ ClientInv /\ OriginInv /\ CountedInv /\ SizesAreExact
  BY DEF TakeResponse, FramingInv, origin, Sides
<1>2. h \in ResponseHeads /\ h.msg \in Responses
  BY <1>1, ReadTypes DEF Heads, ResponseHeads
<1>3. n \in Nat /\ span \in Nat
  BY <1>2, Spans
<1>4. /\ Len(answers') = Len(answers) + 1 /\ answers'[Len(answers')] = h
      /\ \A k \in DOMAIN answers : answers'[k] = answers[k]
  <2>1. answers \in Seq(ResponseHeads) /\ DOMAIN answers = 1 .. Len(answers)
    BY LenProperties DEF TypeOK
  <2>2. QED BY <1>1, <1>2, <2>1, AppendProperties
<1>5. Request' = Request /\ Answer' = h.msg
  BY <1>1, <1>4 DEF Request, Answer
<1> HIDE DEF h
<1>6. PICK l \in Nat \ {0} :
        /\ Len(S) = l /\ DOMAIN S = 1 .. l
        /\ Len(S') = l - 1 /\ DOMAIN S' = 1 .. (l - 1)
        /\ \A i \in 1 .. (l - 1) : S'[i] = S[i + 1]
        /\ S[1] = h
  BY <1>1, ReadStream DEF h
<1>7. Stream("client")' = Stream("client")
  BY <1>1, ReadStream
<1>8. ASSUME interims = 0
      PROVE  h.id = Len(taken) /\ answered = Len(taken) /\ OnlyBody(S, 1, span, n)
  <2>1. S # <<>>
    BY <1>6
  <2>2. Answered(S, up["origin"])
    BY <1>1, <1>8, <2>1 DEF OriginInv
  <2>3. QED BY <1>1, <1>6, <2>2 DEF Answered
<1>9. pc' = "respBody" => Counted(body', f, n) /\ Consumed(body', n) = 0
  BY <1>1, <1>2, <1>3, Framings, Started
<1>10. FinInv'
  BY <1>1 DEF FinInv
<1>11. ClientInv'
  BY <1>1, <1>7 DEF ClientInv
<1>12. OriginInv'
  <2> SUFFICES ASSUME interims = 0
               PROVE  /\ pc' = "respBody" =>
                           /\ answered' = Len(taken')
                           /\ OnlyBody(S', -Consumed(body', Answer'.size),
                                       ResponseSpan(Answer', Request'.method), Answer'.size)
                      /\ answers'[Len(answers')].id = Len(taken')
    BY <1>1 DEF OriginInv
  <2>1. OnlyBody(S', 0, span, n)
    <3>1. OnlyBody(S', 1 - 1, span, n)
      <4>1. DOMAIN S = 1 .. l /\ DOMAIN S' = 1 .. (l - 1) /\ \A i \in 1 .. (l - 1) : S'[i] = S[i + 1]
        BY <1>6
      <4>2. OnlyBody(S, 1, span, n)
        BY <1>8
      <4> HIDE DEF S, span, n
      <4>3. 1 \in Int
        OBVIOUS
      <4>4. QED BY <1>3, <4>1, <4>2, <4>3, TailOnlyBody
    <3>2. 1 - 1 = 0
      OBVIOUS
    <3>3. QED BY <3>1, <3>2
  <2>2. ASSUME pc' = "respBody"
        PROVE  OnlyBody(S', -Consumed(body', Answer'.size),
                        ResponseSpan(Answer', Request'.method), Answer'.size)
    <3>1. Consumed(body', n) = 0
      BY <1>9, <2>2
    <3>2. -Consumed(body', n) = 0
      BY <3>1, NothingConsumed
    <3>3. QED BY <1>5, <2>1, <3>2
  <2>3. QED BY <1>1, <1>4, <1>8, <2>2
<1>13. CountedInv'
  <2>1. rec'.request = RequestSize(Request')
    BY <1>1, <1>5 DEF CountedInv
  <2>2. pc' = "respBody" =>
           Counted(body', ResponseFraming(Answer', Request'.method), Answer'.size)
    BY <1>5, <1>9
  <2>3. QED BY <1>1, <2>1, <2>2 DEF CountedInv
<1>14. SizesAreExact'
  <2>1. Len(log) <= Len(taken) /\ Len(log) <= Len(answers)
    BY <1>1, LenProperties DEF ExchangeInv, CountInv, TypeOK
  <2>2. QED BY <1>1, <1>4, <2>1, KeepsSizes
<1>15. QED BY <1>10, <1>11, <1>12, <1>13, <1>14 DEF FramingInv

(* One unit of the body of the request.                                     *)
LEMMA RequestUnitFraming ==
    ASSUME TypeOK, TypeOK', ExchangeInv, FramingInv, Unit, pc = "reqBody" PROVE FramingInv'
<1> DEFINE S == Stream("client")
           h == Next1("client")
           n == Request.size
           f == RequestFraming(Request)
           span == RequestSpan(Request)
           c == Consumed(body, n)
<1>1. /\ Ready("client") /\ Read("client") /\ Reader = "client" /\ ~Complete(body)
      /\ UNCHANGED <<pc, outbox, up, composed, answered, interims, taken, answers, rec, log>>
      /\ "client" \in Sides /\ "origin" \in Sides \ {"client"}
      /\ FinInv /\ ClientInv /\ OriginInv /\ CountedInv /\ SizesAreExact
  BY DEF Unit, Reader, FramingInv, client, origin, Sides
<1>2. /\ Request \in Requests /\ n \in Nat /\ span \in Nat /\ Request' = Request
      /\ f \in {"none", "length", "chunked"} /\ span = Span(f, n)
  BY <1>1, RequestType, Framings DEF Request, RequestSpan
<1>3. Counted(body, f, n) /\ body \in BodyState
  BY <1>1 DEF CountedInv, TypeOK
<1>4. c \in Nat /\ c + 1 <= span /\ -c \in Int
  BY <1>1, <1>2, <1>3, ConsumedType, Incomplete
<1> HIDE DEF h, n, f, span, c
<1>5. PICK l \in Nat \ {0} :
        /\ Len(S) = l /\ DOMAIN S = 1 .. l
        /\ Len(S') = l - 1 /\ DOMAIN S' = 1 .. (l - 1)
        /\ \A i \in 1 .. (l - 1) : S'[i] = S[i + 1]
        /\ S[1] = h
  BY <1>1, ReadStream DEF h
<1>6. Stream("origin")' = Stream("origin")
  BY <1>1, ReadStream
<1>7. InFrame(S, up["client"], composed, -c, span, n, Len(taken))
  BY <1>1 DEF ClientInv, c, n, span
<1>8. h.kind = KindAt(n, c + 1)
  <2>1. Fits(S, -c, span, n, Len(taken)) /\ 1 \in DOMAIN S
    BY <1>5, <1>7 DEF InFrame, Framed
  <2>2. -c < 1 /\ 1 <= -c + span /\ 1 - (-c) = c + 1
    BY <1>2, <1>4
  <2>3. S[1].kind = KindAt(n, 1 - (-c))
    BY <2>1, <2>2 DEF Fits
  <2>4. QED BY <1>5, <2>2, <2>3
<1>9. Counted(body', f, n) /\ Consumed(body', n) = c + 1
  BY <1>1, <1>2, <1>3, <1>8, CountsUnit DEF h, c
<1>10. InFrame(S', up["client"], composed, -(c + 1), span, n, Len(taken))
  <2>1. Shifted(S, l, S')
    BY <1>5, ClientHeads DEF Shifted
  <2>2. InFrame(S', up["client"], composed, -c - 1, span, n, Len(taken))
    <3> HIDE DEF S
    <3>1. QED BY <1>2, <1>4, <1>7, <2>1, TailInFrame
  <2>3. -c - 1 = -(c + 1)
    BY <1>4
  <2>4. QED BY <2>2, <2>3
<1>11. FinInv'
  BY <1>1 DEF FinInv
<1>12. ClientInv'
  <2>1. InFrame(S', up'["client"], composed', -Consumed(body', Request'.size),
                RequestSpan(Request'), Request'.size, Len(taken'))
    BY <1>1, <1>2, <1>9, <1>10 DEF n, span
  <2>2. QED BY <1>1, <2>1 DEF ClientInv
<1>13. OriginInv'
  BY <1>1, <1>2, <1>6 DEF OriginInv, Answered
<1>14. CountedInv'
  BY <1>1, <1>2, <1>9 DEF CountedInv, f, n
<1>15. SizesAreExact'
  <2>1. Len(log) <= Len(taken) /\ Len(log) <= Len(answers)
    BY LenProperties DEF ExchangeInv, CountInv, TypeOK
  <2>2. QED BY <1>1, <2>1, KeepsSizes
<1>16. QED BY <1>11, <1>12, <1>13, <1>14, <1>15 DEF FramingInv

(* One unit of the body of the answer.                                      *)
LEMMA ResponseUnitFraming ==
    ASSUME TypeOK, TypeOK', ExchangeInv, FramingInv, Unit, pc = "respBody" PROVE FramingInv'
<1> DEFINE S == Stream("origin")
           h == Next1("origin")
           n == Answer.size
           f == ResponseFraming(Answer, Request.method)
           span == ResponseSpan(Answer, Request.method)
           c == Consumed(body, n)
<1>1. /\ Ready("origin") /\ Read("origin") /\ Reader = "origin" /\ ~Complete(body)
      /\ UNCHANGED <<pc, outbox, up, composed, answered, interims, taken, answers, rec, log>>
      /\ "origin" \in Sides /\ "client" \in Sides \ {"origin"}
      /\ FinInv /\ ClientInv /\ OriginInv /\ CountedInv /\ SizesAreExact
  BY DEF Unit, Reader, FramingInv, client, origin, Sides
<1>2. /\ Answer \in Responses /\ n \in Nat /\ span \in Nat /\ Request' = Request /\ Answer' = Answer
      /\ f \in {"none", "length", "chunked", "eof"} /\ span = Span(f, n)
  BY <1>1, AnswerType, Framings DEF Request, Answer, ResponseSpan
<1>3. body \in BodyState
  BY DEF TypeOK
<1>4. c \in Nat /\ -c \in Int
  BY <1>2, <1>3, ConsumedType
<1> HIDE DEF h, n, f, span, c
<1>5. PICK l \in Nat \ {0} :
        /\ Len(S) = l /\ DOMAIN S = 1 .. l
        /\ Len(S') = l - 1 /\ DOMAIN S' = 1 .. (l - 1)
        /\ \A i \in 1 .. (l - 1) : S'[i] = S[i + 1]
        /\ S[1] = h
  BY <1>1, ReadStream DEF h
<1>6. Stream("client")' = Stream("client")
  BY <1>1, ReadStream
<1>7. h.kind # "fin"
  <2>1. h \in Heads("origin") \cup Marks
    BY <1>1, ReadTypes DEF h
  <2>2. QED BY <2>1 DEF Heads, RequestHeads, ResponseHeads, Marks
<1>8. ASSUME interims = 0
      PROVE  /\ Counted(body', f, n)
             /\ OnlyBody(S', -Consumed(body', n), span, n)
  <2>1. Counted(body, f, n) /\ OnlyBody(S, -c, span, n)
    BY <1>1, <1>8 DEF CountedInv, OriginInv, f, n, span, c
  <2>2. h.kind = (IF 1 <= -c + span THEN KindAt(n, 1 - (-c)) ELSE "fin")
    <3>1. 1 \in DOMAIN S /\ -c < 1
      BY <1>4, <1>5
    <3>2. QED BY <1>5, <2>1, <3>1 DEF OnlyBody
  <2>3. c + 1 <= span /\ h.kind = KindAt(n, c + 1)
    <3>1. 1 <= -c + span
      BY <1>7, <2>2
    <3>2. 1 - (-c) = c + 1 /\ (1 <= -c + span => c + 1 <= span)
      BY <1>2, <1>4
    <3>3. QED BY <2>2, <3>1, <3>2
  <2>4. ASSUME f = "eof" PROVE body.total < n
    <3>1. c = body.total /\ span = n
      BY <1>2, <2>1, <2>4 DEF Counted, Consumed, Span, c
    <3>2. QED BY <1>2, <1>4, <2>3, <3>1
  <2>5. Counted(body', f, n) /\ Consumed(body', n) = c + 1
    BY <1>1, <1>2, <2>1, <2>3, <2>4, CountsUnit DEF h, c
  <2>6. OnlyBody(S', -c - 1, span, n)
    <3>1. DOMAIN S = 1 .. l /\ DOMAIN S' = 1 .. (l - 1) /\ \A i \in 1 .. (l - 1) : S'[i] = S[i + 1]
      BY <1>5
    <3> HIDE DEF S
    <3>2. QED BY <1>2, <1>4, <2>1, <3>1, TailOnlyBody
  <2>7. -c - 1 = -(c + 1)
    BY <1>4
  <2>8. QED BY <2>5, <2>6, <2>7
<1>9. FinInv'
  BY <1>1 DEF FinInv
<1>10. ClientInv'
  BY <1>1, <1>6 DEF ClientInv
<1>11. OriginInv'
  BY <1>1, <1>2, <1>8 DEF OriginInv, n, span
<1>12. CountedInv'
  BY <1>1, <1>2, <1>8 DEF CountedInv, f, n
<1>13. SizesAreExact'
  <2>1. Len(log) <= Len(taken) /\ Len(log) <= Len(answers)
    BY LenProperties DEF ExchangeInv, CountInv, TypeOK
  <2>2. QED BY <1>1, <2>1, KeepsSizes
<1>14. QED BY <1>9, <1>10, <1>11, <1>12, <1>13 DEF FramingInv


(* A stream that is empty and that its sender has ended.                    *)
LEMMA StreamEnded ==
    ASSUME TypeOK, FinInv, NEW s \in Sides, AtEof(s)
    PROVE  up[s] = FALSE /\ Len(Stream(s)) = 0 /\ DOMAIN Stream(s) = 1 .. 0
<1>1. up[s] = FALSE /\ wire[s] = <<>> /\ outbox[s] = <<>>
  BY DEF AtEof, FinInv, TypeOK
<1>2. <<>> \in Seq(Sides)
  OBVIOUS
<1>3. <<>> \o <<>> = <<>>
  BY <1>2, ConcatEmptySeq
<1>4. Stream(s) = <<>>
  BY <1>1, <1>3 DEF Stream
<1>5. Len(<<>>) = 0 /\ DOMAIN <<>> = 1 .. 0
  OBVIOUS
<1>6. QED BY <1>1, <1>4, <1>5

LEMMA EndsFraming ==
    ASSUME TypeOK, TypeOK', ExchangeInv, FramingInv, EndsWithStream PROVE FramingInv'
<1>1. /\ pc \in {"reqBody", "respBody"} /\ AtEof(Reader) /\ Reader \in Sides
      /\ body.framing = "eof" \/ body.trailers
      /\ body' = [body EXCEPT !.ended = TRUE] /\ body \in BodyState
      /\ UNCHANGED <<pc, wire, outbox, up, composed, answered, interims, taken, answers, rec, log>>
      /\ FinInv /\ ClientInv /\ OriginInv /\ CountedInv /\ SizesAreExact
  BY DEF EndsWithStream, Pumping, Reader, Sides, FramingInv, TypeOK, streams, client, origin
<1>2. up[Reader] = FALSE /\ Len(Stream(Reader)) = 0 /\ DOMAIN Stream(Reader) = 1 .. 0
  BY <1>1, StreamEnded
<1>3. \A s : Stream(s)' = Stream(s)
  BY <1>1 DEF Stream
<1>4. Request' = Request /\ Answer' = Answer
  BY <1>1 DEF Request, Answer
<1>5. /\ body'.framing = body.framing /\ body'.total = body.total /\ body'.trailers = body.trailers
      /\ body'.ended
  BY <1>1 DEF BodyState
<1>6. \A f, n : Counted(body, f, n) /\ f \in {"none", "length", "chunked", "eof"}
                => Counted(body', f, n)
  BY <1>1, <1>5 DEF Counted
<1>7. FinInv'
  BY <1>1 DEF FinInv
<1>8. ClientInv'
  <2>1. ASSUME pc = "reqBody", NEW start, NEW span, NEW n, NEW id
        PROVE  InFrame(Stream("client"), up["client"], composed, start, span, n, id)
    <3>1. Reader = "client"
      BY <2>1 DEF Reader
    <3>2. QED BY <1>2, <3>1, EmptyInFrame
  <2>2. QED BY <1>1, <1>3, <1>4, <2>1 DEF ClientInv
<1>9. OriginInv'
  <2>1. ASSUME pc = "respBody", NEW start, NEW span, NEW n
        PROVE  OnlyBody(Stream("origin"), start, span, n)
    <3>1. Reader = "origin"
      BY <2>1 DEF Reader
    <3>2. QED BY <1>2, <3>1 DEF OnlyBody
  <2>2. QED BY <1>1, <1>3, <1>4, <2>1 DEF OriginInv, Answered
<1>10. CountedInv'
  <2>1. pc = "reqBody" => RequestFraming(Request) \in {"none", "length", "chunked", "eof"}
    BY RequestType, Framings
  <2>2. pc = "respBody" =>
           ResponseFraming(Answer, Request.method) \in {"none", "length", "chunked", "eof"}
    BY AnswerType, Framings
  <2>3. QED BY <1>1, <1>4, <1>6, <2>1, <2>2 DEF CountedInv
<1>11. SizesAreExact'
  <2>1. Len(log) <= Len(taken) /\ Len(log) <= Len(answers) /\ pc # "closed"
    BY <1>1, LenProperties DEF ExchangeInv, CountInv, TypeOK
  <2>2. QED BY <1>1, <2>1, KeepsSizes
<1>12. QED BY <1>7, <1>8, <1>9, <1>10, <1>11 DEF FramingInv

LEMMA RequestSentFraming ==
    ASSUME TypeOK, TypeOK', ExchangeInv, FramingInv, RequestSent PROVE FramingInv'
<1> DEFINE n == Request.size
           f == RequestFraming(Request)
           span == RequestSpan(Request)
           c == Consumed(body, n)
<1>1. /\ pc = "reqBody" /\ pc' = "respHead" /\ Complete(body)
      /\ UNCHANGED <<wire, outbox, up, composed, answered, interims, taken, answers, body, log>>
      /\ FinInv /\ ClientInv /\ OriginInv /\ CountedInv /\ SizesAreExact
      /\ body \in BodyState /\ rec \in Record
  BY DEF RequestSent, FramingInv, TypeOK, streams, client, origin
<1>2. rec'.request = body.total
  <2> DEFINE t == rec.truncated \/ body.truncated
  <2>1. rec' = [rec EXCEPT !.request = body.total, !.truncated = t]
    BY DEF RequestSent
  <2> HIDE DEF t
  <2>2. QED BY <1>1, <2>1 DEF Record
<1>3. /\ Request \in Requests /\ n \in Nat /\ span \in Nat /\ Request' = Request /\ Answer' = Answer
      /\ f \in {"none", "length", "chunked"} /\ span = Span(f, n)
  BY <1>1, RequestType, Framings DEF Request, Answer, RequestSpan
<1>4. \A s : Stream(s)' = Stream(s)
  BY <1>1 DEF Stream
<1>5. Counted(body, f, n)
  BY <1>1 DEF CountedInv
<1>6. c = span /\ body.total = (IF f = "none" THEN 0 ELSE n)
  BY <1>1, <1>3, <1>5, Completed
<1>7. InFrame(Stream("client"), up["client"], composed, 0, 0, 0, Len(taken))
  <2>1. InFrame(Stream("client"), up["client"], composed, -c, span, n, Len(taken))
    BY <1>1 DEF ClientInv
  <2>2. InFrame(Stream("client"), up["client"], composed, -span, span, n, Len(taken))
    BY <1>6, <2>1
  <2>3. PICK l \in Nat : Len(Stream("client")) = l /\ DOMAIN Stream("client") = 1 .. l
    BY StreamType DEF Sides
  <2> HIDE DEF n, f, span, c
  <2>4. QED BY <1>3, <2>2, <2>3, EndInFrame
<1>8. rec'.request = RequestSize(Request')
  <2>1. f = "none" <=> Request.coding = "absent"
    BY <1>3, RequestsAssumption DEF RequestFraming, Codings
  <2>2. QED BY <1>2, <1>3, <1>6, <2>1 DEF RequestSize
<1>9. FinInv'
  BY <1>1 DEF FinInv
<1>10. ClientInv'
  BY <1>1, <1>4, <1>7 DEF ClientInv
<1>11. OriginInv'
  BY <1>1, <1>3, <1>4 DEF OriginInv, Answered
<1>12. CountedInv'
  BY <1>1, <1>8 DEF CountedInv
<1>13. SizesAreExact'
  <2>1. Len(log) <= Len(taken) /\ Len(log) <= Len(answers)
    BY <1>1, LenProperties DEF ExchangeInv, CountInv, TypeOK
  <2>2. QED BY <1>1, <2>1, KeepsSizes
<1>14. QED BY <1>9, <1>10, <1>11, <1>12, <1>13 DEF FramingInv

LEMMA ResponseSentFraming ==
    ASSUME TypeOK, TypeOK', ExchangeInv, FramingInv, ResponseSent PROVE FramingInv'
<1> DEFINE S == Stream("origin")
           n == Answer.size
           f == ResponseFraming(Answer, Request.method)
           span == ResponseSpan(Answer, Request.method)
           c == Consumed(body, n)
           k == Len(taken)
<1>1. /\ pc = "respBody" /\ pc' = IF KeepAlive THEN "head" ELSE "closed"
      /\ Complete(body) /\ Submit(rec', FALSE)
      /\ UNCHANGED <<wire, outbox, up, composed, answered, interims, taken, answers, body>>
      /\ FinInv /\ ClientInv /\ OriginInv /\ CountedInv /\ SizesAreExact
      /\ body \in BodyState /\ rec \in Record /\ rec' \in Record
  BY DEF ResponseSent, FramingInv, TypeOK, streams, client, origin
<1>2. rec'.request = rec.request /\ rec'.response = body.total
  <2> DEFINE t == rec.truncated \/ body.truncated
  <2>1. rec' = [rec EXCEPT !.response = body.total, !.truncated = t]
    BY DEF ResponseSent
  <2> HIDE DEF t
  <2>2. QED BY <1>1, <2>1 DEF Record
<1>3. /\ Answer \in Responses /\ n \in Nat /\ span \in Nat
      /\ f \in {"none", "length", "chunked", "eof"} /\ span = Span(f, n)
  BY <1>1, AnswerType, Framings DEF ResponseSpan
<1>4. \A s : Stream(s)' = Stream(s)
  BY <1>1 DEF Stream
<1>5. k = Len(log) + 1 /\ k = Len(answers) /\ Request = taken[k].msg /\ Answer = answers[k].msg
  BY <1>1 DEF ExchangeInv, CountInv, Request, Answer
<1>6. /\ f = "none" <=> Bodiless(k)
      /\ f = "eof" <=> CloseDelimited(k)
  <2>1. Answer.coding \in Codings
    BY <1>3, ResponsesAssumption
  <2>2. QED BY <1>5, <2>1 DEF Bodiless, CloseDelimited, ResponseFraming, Codings
<1>7. ASSUME interims = 0, f # "eof"
      PROVE  c = span /\ body.total = IF f = "none" THEN 0 ELSE n
  <2>1. Counted(body, f, n)
    BY <1>1, <1>7 DEF CountedInv
  <2> HIDE DEF f, n, span, c
  <2>2. QED BY <1>1, <1>3, <1>7, <2>1, Completed DEF c
<1>8. ASSUME interims = 0 PROVE Exact(k, rec'.request, rec'.response)
  <2>1. rec.request = RequestSize(taken[k].msg)
    BY <1>1, <1>5 DEF CountedInv
  <2>2. ASSUME CloseDelimited(k) PROVE body.total <= answers[k].msg.size
    <3>1. Counted(body, f, n) /\ f = "eof"
      BY <1>1, <1>6, <1>8, <2>2 DEF CountedInv
    <3>2. QED BY <1>5, <3>1 DEF Counted
  <2>3. ASSUME ~CloseDelimited(k) PROVE body.total = IF Bodiless(k) THEN 0 ELSE answers[k].msg.size
    BY <1>5, <1>6, <1>7, <1>8, <2>3
  <2>4. QED BY <1>2, <2>1, <2>2, <2>3 DEF Exact
<1>9. FinInv'
  BY <1>1 DEF FinInv
<1>10. ClientInv'
  BY <1>1, <1>4 DEF ClientInv
<1>11. OriginInv'
  <2> SUFFICES ASSUME interims = 0, pc' = "head"
               PROVE  answered' = Len(taken') /\ OnlyBody(S', 0, 0, 0)
    BY <1>1 DEF OriginInv
  <2>1. answered = Len(taken) /\ OnlyBody(S, -c, span, n)
    BY <1>1 DEF OriginInv
  <2>2. body.framing # "eof" /\ body.framing = f
    BY <1>1 DEF KeepAlive, CountedInv, Counted
  <2>3. c = span
    BY <1>7, <2>2
  <2>4. OnlyBody(S, -span, span, n)
    BY <2>1, <2>3
  <2>5. OnlyBody(S, 0, 0, 0)
    <3>1. PICK l \in Nat : DOMAIN S = 1 .. l
      BY StreamType DEF Sides
    <3> HIDE DEF S, span, n
    <3>2. QED BY <1>3, <2>4, <3>1 DEF OnlyBody
  <2>6. QED BY <1>1, <1>4, <2>1, <2>5
<1>12. CountedInv'
  BY <1>1 DEF CountedInv
<1>13. SizesAreExact'
  BY <1>1, <1>5, <1>8, AddsSizes
<1>14. QED BY <1>9, <1>10, <1>11, <1>12, <1>13 DEF FramingInv

LEMMA ClosingFraming ==
    ASSUME TypeOK, TypeOK', ExchangeInv, FramingInv,
           \/ BadRequest \/ NoMoreRequests \/ ResponseTimeout \/ Overlong
           \/ Fails \/ LosesPeer \/ BothRelaysDone
           \/ \E s \in Sides : Relays(s) \/ RelayEnds(s) \/ RelayLost(s)
    PROVE  FramingInv'
<1> USE DEF streams, client, origin, exchange
<1>0. SizesAreExact /\ rec \in Record
  BY DEF FramingInv, TypeOK
<1>1. CASE BadRequest \/ NoMoreRequests \/ ResponseTimeout \/ Overlong
  <2>1. /\ pc' = "closed" /\ pc \in {"head", "reqBody", "respHead", "respBody"}
        /\ UNCHANGED <<outbox, up, taken, answers, interims, log>>
    BY <1>1 DEF BadRequest, NoMoreRequests, ResponseTimeout, Overlong, BadLine, Pumping
  <2>2. Len(log) <= Len(taken) /\ Len(log) <= Len(answers)
    BY <2>1, LenProperties DEF ExchangeInv, CountInv, TypeOK
  <2>3. SizesAreExact'
    BY <1>0, <2>1, <2>2, KeepsSizes
  <2>4. QED BY <2>1, <2>3, ClosesFraming
<1>2. CASE Fails \/ LosesPeer
  <2>1. /\ pc' = "closed" /\ pc \in {"reqBody", "respHead", "respBody", "relay"}
        /\ Submit(rec, TRUE) /\ UNCHANGED <<outbox, up, taken, answers, interims>>
    BY <1>2 DEF Fails, LosesPeer, Aborts, Malformed, BadLine, PeerLost, Pumping
  <2>2. Len(taken) = Len(log) + 1
    BY <2>1 DEF ExchangeInv, CountInv
  <2>3. SizesAreExact'
    BY <1>0, <2>1, <2>2, AddsSizes
  <2>4. QED BY <2>1, <2>3, ClosesFraming
<1>3. CASE BothRelaysDone
  <2>1. /\ pc' = "closed" /\ pc = "relay" /\ Submit(rec, FALSE)
        /\ UNCHANGED <<outbox, up, taken, answers, interims>>
    BY <1>3 DEF BothRelaysDone
  <2>2. Len(taken) = Len(log) + 1 /\ Len(taken) = Len(answers)
    BY <2>1 DEF ExchangeInv, CountInv
  <2>3. Switched(Len(taken))
    BY <2>1, <2>2 DEF ExchangeInv, AnswerInv, Last, Switched
  <2>4. SizesAreExact'
    BY <1>0, <2>1, <2>2, <2>3, AddsSizes
  <2>5. QED BY <2>1, <2>4, ClosesFraming
<1>4. CASE \E s \in Sides : Relays(s) \/ RelayEnds(s) \/ RelayLost(s)
  <2>1. /\ pc' = "relay" /\ pc = "relay"
        /\ UNCHANGED <<outbox, up, taken, answers, interims, log>>
    BY <1>4 DEF Relays, RelayEnds, RelayLost
  <2>2. Len(log) <= Len(taken) /\ Len(log) <= Len(answers)
    BY <2>1, LenProperties DEF ExchangeInv, CountInv, TypeOK
  <2>3. SizesAreExact'
    BY <1>0, <2>1, <2>2, KeepsSizes
  <2>4. QED BY <2>1, <2>3, ClosesFraming
<1>5. QED BY <1>1, <1>2, <1>3, <1>4

-----------------------------------------------------------------------------
LEMMA StepFraming ==
    ASSUME TypeOK, TypeOK', ExchangeInv, FramingInv, [Next]_vars PROVE FramingInv'
<1>1. CASE Unit
  <2>1. pc \in {"reqBody", "respBody"}
    BY <1>1 DEF Unit, Pumping
  <2>2. QED BY <1>1, <2>1, RequestUnitFraming, ResponseUnitFraming
<1>2. CASE UNCHANGED vars
  <2>1. UNCHANGED <<pc, wire, outbox, up, composed, answered, interims, exchange>>
        /\ UNCHANGED <<taken, answers, body>>
    BY <1>2 DEF vars, streams, client, origin, exchange
  <2>2. \A s : Stream(s)' = Stream(s)
    BY <2>1 DEF Stream
  <2>3. FinInv' /\ ClientInv' /\ OriginInv'
    BY <2>1, <2>2 DEF FramingInv, FinInv, ClientInv, OriginInv, Answered, Request, Answer
  <2>4. CountedInv' /\ SizesAreExact'
    BY <2>1, PeersLeaveRecords DEF FramingInv
  <2>5. QED BY <2>3, <2>4 DEF FramingInv
<1>3. QED BY <1>1, <1>2, TakeRequestFraming, TakeResponseFraming, EndsFraming, RequestSentFraming,
             ResponseSentFraming, ClosingFraming, PeersFraming DEF Next, Proxy, Losses

LEMMA FramingCorrect == Spec => []FramingInv
<1>1. Init /\ TypeOK => FramingInv
  BY InitFraming
<1>2. /\ TypeOK /\ TypeOK' /\ ExchangeInv /\ FramingInv /\ [Next]_vars => FramingInv'
  BY StepFraming
<1>3. QED BY <1>1, <1>2, TypeCorrect, InvCorrect, PTL DEF Spec

(* Where the proxy looks for a head the stream holds one, or what its       *)
(* sender meant as one, after bodies of every framing, answers to HEAD and *)
(* answers that overtake the body of their request, for every number of    *)
(* messages under way; an interim response is what ends this.              *)
THEOREM InStepCorrect == Spec => []InStep
<1>1. TypeOK /\ FramingInv => InStep
  <2> SUFFICES ASSUME TypeOK, FramingInv, interims = 0
               PROVE  /\ pc = "head" /\ Ready("client") => Next1("client").kind \in {"head", "bad"}
                      /\ pc = "respHead" /\ Ready("origin") => Next1("origin").kind \in {"head", "bad"}
    BY DEF InStep
  <2>0. "client" \in Sides /\ "origin" \in Sides
    BY DEF Sides
  <2>1. \A s \in Sides : Ready(s) => /\ Stream(s)[1] = Next1(s) /\ 1 \in DOMAIN Stream(s)
                                     /\ Stream(s) # <<>> /\ Next1(s).kind # "fin"
    <3> SUFFICES ASSUME NEW s \in Sides, Ready(s)
                 PROVE  /\ Stream(s)[1] = Next1(s) /\ 1 \in DOMAIN Stream(s)
                        /\ Stream(s) # <<>> /\ Next1(s).kind # "fin"
      OBVIOUS
    <3>1. PICK l \in Nat :
            /\ Len(Stream(s)) = l /\ DOMAIN Stream(s) = 1 .. l
            /\ l > 0 /\ Stream(s)[1] = Next1(s)
      BY StreamType
    <3>2. Next1(s) \in Heads(s) \cup Marks
      BY ReadTypes
    <3>3. Next1(s).kind # "fin"
      BY <3>2 DEF Heads, RequestHeads, ResponseHeads, Marks
    <3>4. QED BY <3>1, <3>3
  <2>2. ASSUME pc = "head", Ready("client") PROVE Next1("client").kind \in {"head", "bad"}
    <3>1. Fits(Stream("client"), 0, 0, 0, Len(taken))
      BY <2>2 DEF FramingInv, ClientInv, InFrame, Framed
    <3>2. Stream("client")[1].kind \in {"head", "bad", "fin"}
      BY <2>0, <2>1, <2>2, <3>1 DEF Fits
    <3>3. QED BY <2>0, <2>1, <2>2, <3>2
  <2>3. ASSUME pc = "respHead", Ready("origin") PROVE Next1("origin").kind \in {"head", "bad"}
    <3>1. Answered(Stream("origin"), up["origin"])
      BY <2>0, <2>1, <2>3 DEF FramingInv, OriginInv
    <3>2. QED BY <2>0, <2>1, <2>3, <3>1 DEF Answered
  <2>4. QED BY <2>2, <2>3
<1>2. QED BY <1>1, TypeCorrect, FramingCorrect, PTL

(* However requests are sent ahead on a connection that is used again, each *)
(* of them gets its own answer, up to the first interim response.          *)
THEOREM AnswersCorrect == Spec => []AnswersMatch
<1>1. FramingInv => AnswersMatch
  BY DEF FramingInv, ClientInv, OriginInv, AnswersMatch
<1>2. QED BY <1>1, FramingCorrect, PTL

(* A record without an error has the sizes of the bodies as they were sent  *)
(* and says exactly when one was longer than what is captured.             *)
THEOREM RecordCorrect == Spec => []RecordIsExact
<1>1. FramingInv /\ TruncationIsExact => RecordIsExact
  BY DEF FramingInv, RecordIsExact
<1>2. QED BY <1>1, FramingCorrect, TruncationCorrect, PTL

-----------------------------------------------------------------------------
(* Writes that wait                                                        *)

LEMMA FlowStep == [FlowNext]_flowVars => [Next]_vars
<1>1. FlowProxy => Next
  <2>1. Serves => Proxy
    BY DEF Serves, Pumps, Proxy
  <2>2. ASSUME NEW s \in Sides, RelaysOn(s) PROVE Proxy
    BY <2>2 DEF RelaysOn, Proxy
  <2>3. QED BY <2>1, <2>2 DEF FlowProxy, Next
<1>2. LosesWaiting => Next
  BY DEF LosesWaiting, Next, Losses
<1>3. ASSUME NEW s \in Sides, RelayLosesWaiting(s) PROVE Next
  BY <1>3 DEF RelayLosesWaiting, Next, Losses
<1>4. ASSUME NEW s \in Sides, ReadsOn(s) PROVE UNCHANGED vars
  BY <1>4 DEF ReadsOn
<1>5. (Peers /\ Silent) => Next
  BY DEF Next
<1>6. UNCHANGED flowVars => UNCHANGED vars
  BY DEF flowVars
<1>7. QED BY <1>1, <1>2, <1>3, <1>4, <1>5, <1>6 DEF FlowNext

(* A write that waits only delays the proxy: what it then does is what      *)
(* Exchange says, so everything proved of the streams, the answers and the *)
(* records holds of a proxy that waits for its peers to read.              *)
THEOREM FlowImplementsExchange == FlowSpec => Spec
<1>1. FlowInit => Init
  BY DEF FlowInit
<1>2. QED BY <1>1, FlowStep, PTL DEF FlowSpec, Spec

FullInv == full \subseteq Sides

LEMMA FullStep == FullInv /\ [FlowNext]_flowVars => FullInv'
<1> SUFFICES ASSUME full \subseteq Sides, [FlowNext]_flowVars PROVE full' \subseteq Sides
  BY DEF FullInv
<1>1. \A s \in Sides : Sends(s) => full' \subseteq Sides
  BY DEF Sends
<1>2. Silent => full' \subseteq Sides
  BY DEF Silent
<1>3. "client" \in Sides /\ "origin" \in Sides /\ Writer \in Sides
  BY DEF Sides, Writer, Other
<1>4. Serves => full' \subseteq Sides
  BY <1>1, <1>2, <1>3 DEF Serves, Pumps
<1>5. ASSUME NEW s \in Sides, RelaysOn(s) PROVE full' \subseteq Sides
  <2>1. Other(s) \in Sides
    BY DEF Sides, Other
  <2>2. QED BY <1>1, <1>2, <1>5, <2>1 DEF RelaysOn
<1>6. LosesWaiting => full' \subseteq Sides
  BY <1>2 DEF LosesWaiting
<1>7. ASSUME NEW s \in Sides, RelayLosesWaiting(s) \/ ReadsOn(s) PROVE full' \subseteq Sides
  BY <1>7 DEF RelayLosesWaiting, ReadsOn
<1>8. UNCHANGED flowVars => full' \subseteq Sides
  BY DEF flowVars
<1>9. QED BY <1>2, <1>4, <1>5, <1>6, <1>7, <1>8 DEF FlowNext, FlowProxy

(* Every variable has its type, whoever stops reading and for how long.     *)
THEOREM FlowTypesCorrect == FlowSpec => []FlowTypeOK
<1>1. FlowInit => FullInv
  BY DEF FlowInit, FullInv
<1>2. FlowSpec => []FullInv
  BY <1>1, FullStep, PTL DEF FlowSpec
<1>3. FlowSpec => []TypeOK
  BY FlowImplementsExchange, TypeCorrect, PTL
<1>4. TypeOK /\ FullInv => FlowTypeOK
  BY DEF FlowTypeOK, FullInv
<1>5. QED BY <1>2, <1>3, <1>4, PTL
=============================================================================
