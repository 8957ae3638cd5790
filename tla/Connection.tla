----------------------------- MODULE Connection -----------------------------
(***************************************************************************)
(* The life of the proxy's client connections (services/proxy/             *)
(* decrypt0rx_proxy/proxy.py): admission by the semaphore, the rate limit, *)
(* the CONNECT and plain HTTP paths, blind tunnels, the two TLS            *)
(* handshakes, the keep-alive request loop and the clean-up.  Each         *)
(* connection is one coroutine; an action is one stretch between awaits,   *)
(* and its outcomes are those the awaited call can have.                   *)
(***************************************************************************)
EXTENDS Integers, Sequences, FiniteSets

CONSTANTS Conns,           \* client connections
          MaxConnections,  \* max_connections, the size of the semaphore
          MaxExchanges     \* bound: recorded transactions per connection

ASSUME LimitAssumption == MaxConnections \in Nat \ {0}
ASSUME ExchangesAssumption == MaxExchanges \in Nat \ {0}
ASSUME ConnsAssumption == IsFiniteSet(Conns)

VARIABLES pc,        \* where each handler is suspended
          free,      \* free slots of _limiter
          waiters,   \* handlers queued on _limiter, first come first served
          active,    \* ProxyServer.active_connections
          caReady,   \* a CA has been loaded (it is never unloaded)
          method,    \* per connection: "none" before its head, "connect" or "plain"
          decision,  \* the policy decision taken for the connection
          upstream,  \* "none", "open", "tls" or "closed"
          copying,   \* the relay directions still copying, of "up" and "down"
          peers,     \* the peers that have not closed, of "client" and "origin"
          toldEof,   \* the peers the proxy has forwarded an end of stream to
          due,       \* a transaction of this connection is not recorded yet
          recorded   \* how many FlowRecords the connection has submitted

admission == <<free, waiters, active>>
request   == <<method, decision>>
relays    == <<copying, peers, toldEof>>
capture   == <<due, recorded>>
vars == <<pc, admission, caReady, request, upstream, relays, capture>>

Init == /\ pc = [c \in Conns |-> "new"]
        /\ free = MaxConnections /\ waiters = <<>> /\ active = 0
        /\ caReady \in BOOLEAN
        /\ method = [c \in Conns |-> "none"]
        /\ decision = [c \in Conns |-> "none"]
        /\ upstream = [c \in Conns |-> "none"]
        /\ copying = [c \in Conns |-> {}]
        /\ peers = [c \in Conns |-> {"client", "origin"}]
        /\ toldEof = [c \in Conns |-> {}]
        /\ due = [c \in Conns |-> FALSE]
        /\ recorded = [c \in Conns |-> 0]

Goto(c, label) == pc' = [pc EXCEPT ![c] = label]
Start(c) == due' = [due EXCEPT ![c] = TRUE] /\ UNCHANGED recorded

(* recorder.submit(record.finish()) *)
Record(c) == /\ due' = [due EXCEPT ![c] = FALSE]
             /\ recorded' = [recorded EXCEPT ![c] = @ + 1]

SetUpstream(c, state) == upstream' = [upstream EXCEPT ![c] = state]

-----------------------------------------------------------------------------
(* _on_client *)

\* Mutant of Accept: only admitted connections are counted.
AcceptUncounted(c) == /\ pc[c] = "new"
                      /\ waiters' = Append(waiters, c)
                      /\ Goto(c, "waiting")
                      /\ UNCHANGED <<free, active, caReady, request, upstream, relays, capture>>

Accept(c) == /\ pc[c] = "new"
             /\ active' = active + 1
             /\ waiters' = Append(waiters, c)
             /\ Goto(c, "waiting")
             /\ UNCHANGED <<free, caReady, request, upstream, relays, capture>>

Acquire(c) == /\ pc[c] = "waiting" /\ free > 0
              /\ waiters # <<>> /\ Head(waiters) = c
              /\ waiters' = Tail(waiters)
              /\ free' = free - 1
              /\ Goto(c, "limit")
              /\ UNCHANGED <<active, caReady, request, upstream, relays, capture>>

(* _rate_limited: over the limit is a 429 and the end. *)
RateLimit(c) == /\ pc[c] = "limit"
                /\ Goto(c, "head") \/ Goto(c, "leave")
                /\ UNCHANGED <<admission, caReady, request, upstream, relays, capture>>

(* No head: end of stream, idle timeout, a reset, or a 400 for a bad head   *)
(* or a bad target.  Nothing has been decided, nothing is recorded.        *)
NoRequest(c) == /\ pc[c] = "head"
                /\ Goto(c, "leave")
                /\ UNCHANGED <<admission, caReady, request, upstream, relays, capture>>

Decide(c, m, action) == /\ method' = [method EXCEPT ![c] = m]
                        /\ decision' = [decision EXCEPT ![c] = action]

(* A blocked CONNECT is answered with 403 and recorded, unless _respond     *)
(* raises what it does not catch; ...                                      *)
BlockConnect(c) == /\ pc[c] = "head"
                   /\ Decide(c, "connect", "block")
                   /\ Goto(c, "leave")
                   /\ \/ recorded' = [recorded EXCEPT ![c] = @ + 1] /\ UNCHANGED due
                      \/ Start(c)
                   /\ UNCHANGED <<admission, caReady, upstream, relays>>

(* ... a blocked plain request is answered with 403 only. *)
BlockPlain(c) == /\ pc[c] = "head"
                 /\ Decide(c, "plain", "block")
                 /\ Goto(c, "leave")
                 /\ Start(c)
                 /\ UNCHANGED <<admission, caReady, upstream, relays>>

Admit(c, m) == /\ pc[c] = "head"
               /\ \E action \in {"bypass", "intercept"} : Decide(c, m, action)
               /\ Goto(c, "dial")
               /\ Start(c)
               /\ UNCHANGED <<admission, caReady, upstream, relays>>

-----------------------------------------------------------------------------
(* _handle_connect and _handle_plain_http after the decision *)

(* A host that is no name at all raises a UnicodeError: no 502, no record. *)
DialFails(c) == /\ pc[c] = "dial"
                /\ Goto(c, "leave")
                /\ UNCHANGED capture \/ (method[c] = "connect" /\ Record(c))
                /\ UNCHANGED <<admission, caReady, request, upstream, relays>>

DialSucceeds(c) == /\ pc[c] = "dial"
                   /\ SetUpstream(c, "open")
                   /\ Goto(c, IF method[c] = "connect" THEN "establish" ELSE "send")
                   /\ UNCHANGED <<admission, caReady, request, relays, capture>>

StartRelay(c, label) == /\ copying' = [copying EXCEPT ![c] = {"up", "down"}]
                        /\ Goto(c, label)
                        /\ UNCHANGED <<peers, toldEof>>

\* Mutant of Establish: a bypassed host is intercepted once a CA is loaded.
EstablishIntercepts(c) ==
    /\ pc[c] = "establish"
    /\ \/ /\ ~caReady
          /\ StartRelay(c, "tunnel")
       \/ /\ caReady
          /\ Goto(c, "clientTls")
          /\ UNCHANGED relays
    /\ UNCHANGED <<admission, caReady, request, upstream, capture>>

(* The 200 is sent; the CA is looked at only now. *)
Establish(c) ==
    /\ pc[c] = "establish"
    /\ \/ /\ decision[c] = "bypass" \/ ~caReady
          /\ StartRelay(c, "tunnel")
       \/ /\ decision[c] # "bypass" /\ caReady
          /\ Goto(c, "clientTls")
          /\ UNCHANGED relays
    /\ UNCHANGED <<admission, caReady, request, upstream, capture>>

(* The client resets while the 200 is written: the exception leaves before  *)
(* the try whose finally closes the upstream, and before any record.       *)
EstablishFails(c) == /\ pc[c] = "establish"
                     /\ Goto(c, "leave")
                     /\ UNCHANGED <<admission, caReady, request, upstream, relays, capture>>

-----------------------------------------------------------------------------
(* _relay, twice under gather: the tunnel, and what follows a 101 *)

Source(d) == IF d = "up" THEN "client" ELSE "origin"
Sink(d)   == IF d = "up" THEN "origin" ELSE "client"

(* write_eof is possible on plain TCP only: an upstream TLS session, or the *)
(* client's, is not half-closed.                                           *)
CanWriteEof(c) == upstream[c] = "open"

\* Mutant of RelayEnds: the end of one stream is not passed on.
RelayEndsSilently(c, d) ==
    /\ pc[c] \in {"tunnel", "relay"} /\ d \in copying[c]
    /\ Source(d) \notin peers[c] \/ Sink(d) \notin peers[c]
    /\ copying' = [copying EXCEPT ![c] = @ \ {d}]
    /\ UNCHANGED <<toldEof, pc, admission, caReady, request, upstream, peers, capture>>

(* Copying ends with the source's end of stream, or when a write finds the  *)
(* sink gone - which takes data from the source, so it need not happen.    *)
RelayEnds(c, d) ==
    /\ pc[c] \in {"tunnel", "relay"} /\ d \in copying[c]
    /\ Source(d) \notin peers[c] \/ Sink(d) \notin peers[c]
    /\ copying' = [copying EXCEPT ![c] = @ \ {d}]
    /\ toldEof' = [toldEof EXCEPT ![c] = IF CanWriteEof(c) THEN @ \cup {Sink(d)} ELSE @]
    /\ UNCHANGED <<pc, admission, caReady, request, upstream, peers, capture>>

BothRelaysDone(c) == /\ pc[c] \in {"tunnel", "relay"} /\ copying[c] = {}
                     /\ Record(c)
                     /\ Goto(c, "closeUpstream")
                     /\ UNCHANGED <<admission, caReady, request, upstream, relays>>

PeerCloses(c, p) == /\ pc[c] \in {"tunnel", "relay"} /\ p \in peers[c]
                    /\ peers' = [peers EXCEPT ![c] = @ \ {p}]
                    /\ UNCHANGED <<pc, admission, caReady, request, upstream, copying, toldEof,
                                   capture>>

-----------------------------------------------------------------------------
(* _intercept: a failure of a handshake is recorded on the CONNECT record,  *)
(* unless it, or the 502 that answers it, raises what is not caught;       *)
(* success drops it in favour of the exchanges' own records.               *)

HandshakeFails(c) == /\ pc[c] \in {"clientTls", "upstreamTls"}
                     /\ Record(c) \/ UNCHANGED capture
                     /\ Goto(c, "closeUpstream")
                     /\ UNCHANGED <<admission, caReady, request, upstream, relays>>

\* Mutant of ClientHandshake: the CONNECT record is submitted although it goes on.
ClientHandshakeRecorded(c) ==
    /\ pc[c] = "clientTls"
    /\ Goto(c, "upstreamTls")
    /\ recorded' = [recorded EXCEPT ![c] = @ + 1] /\ UNCHANGED due
    /\ UNCHANGED <<admission, caReady, request, upstream, relays>>

ClientHandshake(c) == /\ pc[c] = "clientTls"
                      /\ Goto(c, "upstreamTls")
                      /\ UNCHANGED <<admission, caReady, request, upstream, relays, capture>>

UpstreamHandshake(c) == /\ pc[c] = "upstreamTls"
                        /\ SetUpstream(c, "tls")
                        /\ Goto(c, "request")
                        /\ due' = [due EXCEPT ![c] = FALSE] /\ UNCHANGED recorded
                        /\ UNCHANGED <<admission, caReady, request, relays>>

-----------------------------------------------------------------------------
(* _serve_http and _exchange *)

NextRequest(c) == /\ pc[c] = "request" /\ recorded[c] < MaxExchanges
                  /\ Start(c)
                  /\ Goto(c, "send")
                  /\ UNCHANGED <<admission, caReady, request, upstream, relays>>

(* End of stream, idle timeout, or a bad head (400 by _on_client). *)
NoMoreRequests(c) == /\ pc[c] = "request"
                     /\ Goto(c, "closeUpstream")
                     /\ UNCHANGED <<admission, caReady, request, upstream, relays, capture>>

RequestForwarded(c) == /\ pc[c] = "send"
                       /\ Goto(c, "await")
                       /\ UNCHANGED <<admission, caReady, request, upstream, relays, capture>>

ResponseHead(c) == /\ pc[c] = "await"
                   /\ Goto(c, "deliver")
                   /\ UNCHANGED <<admission, caReady, request, upstream, relays, capture>>

SwitchProtocols(c) == /\ pc[c] = "await"
                      /\ StartRelay(c, "relay")
                      /\ UNCHANGED <<admission, caReady, request, upstream, capture>>

(* A ProtocolError or a lost connection anywhere in the exchange.          *)
ExchangeFails(c) == /\ pc[c] \in {"send", "await", "deliver"}
                    /\ Record(c)
                    /\ Goto(c, "closeUpstream")
                    /\ UNCHANGED <<admission, caReady, request, upstream, relays>>

(* What _serve_http does not catch - the timeout of upstream_read_timeout   *)
(* above all, also ssl.SSLError and ValueError - ends in _on_client.       *)
ExchangeRaises(c) == /\ pc[c] \in {"send", "await", "deliver"}
                     /\ Goto(c, "closeUpstream")
                     /\ UNCHANGED <<admission, caReady, request, upstream, relays, capture>>

ResponseDelivered(c) == /\ pc[c] = "deliver"
                        /\ Record(c)
                        /\ Goto(c, "request") \/ Goto(c, "closeUpstream")
                        /\ UNCHANGED <<admission, caReady, request, upstream, relays>>

-----------------------------------------------------------------------------
(* The finally blocks: the upstream, then the count, then the client and    *)
(* the slot.                                                               *)

\* Mutant of CloseUpstream: the upstream is left to the garbage collector.
CloseUpstreamSkipped(c) == /\ pc[c] = "closeUpstream"
                           /\ Goto(c, "leave")
                           /\ UNCHANGED <<admission, caReady, request, upstream, relays, capture>>

CloseUpstream(c) == /\ pc[c] = "closeUpstream"
                    /\ SetUpstream(c, "closed")
                    /\ Goto(c, "leave")
                    /\ UNCHANGED <<admission, caReady, request, relays, capture>>

\* Mutant of Leave: the count is not lowered.
LeaveUncounted(c) == /\ pc[c] = "leave"
                     /\ Goto(c, "closeClient")
                     /\ UNCHANGED <<admission, caReady, request, upstream, relays, capture>>

Leave(c) == /\ pc[c] = "leave"
            /\ active' = active - 1
            /\ Goto(c, "closeClient")
            /\ UNCHANGED <<free, waiters, caReady, request, upstream, relays, capture>>

\* Mutant of Release: the slot is not given back.
ReleaseNothing(c) == /\ pc[c] = "closeClient"
                     /\ Goto(c, "done")
                     /\ UNCHANGED <<admission, caReady, request, upstream, relays, capture>>

Release(c) == /\ pc[c] = "closeClient"
              /\ free' = free + 1
              /\ Goto(c, "done")
              /\ UNCHANGED <<waiters, active, caReady, request, upstream, relays, capture>>

(* CertificateAuthorityProvider.load installs the first CA. *)
LoadCA == /\ ~caReady
          /\ caReady' = TRUE
          /\ UNCHANGED <<pc, admission, request, upstream, relays, capture>>

-----------------------------------------------------------------------------
Enter(c) == Acquire(c) \/ RateLimit(c)

Dispatch(c) == NoRequest(c) \/ BlockPlain(c) \/ BlockConnect(c)
               \/ Admit(c, "connect") \/ Admit(c, "plain")

Connect(c) == DialFails(c) \/ DialSucceeds(c) \/ Establish(c) \/ EstablishFails(c)

Relay(c) == (\E d \in {"up", "down"} : RelayEnds(c, d)) \/ BothRelaysDone(c)

Intercept(c) == HandshakeFails(c) \/ ClientHandshake(c) \/ UpstreamHandshake(c)

Serve(c) == \/ NextRequest(c) \/ NoMoreRequests(c)
            \/ RequestForwarded(c) \/ ResponseHead(c) \/ SwitchProtocols(c)
            \/ ExchangeFails(c) \/ ExchangeRaises(c) \/ ResponseDelivered(c)

CleanUp(c) == CloseUpstream(c) \/ Leave(c) \/ Release(c)

Step(c) == \/ Enter(c) \/ Dispatch(c) \/ Connect(c) \/ Relay(c)
           \/ Intercept(c) \/ Serve(c) \/ CleanUp(c)

Peer(c) == \E p \in {"client", "origin"} : PeerCloses(c, p)

Next == \/ \E c \in Conns : Accept(c) \/ Step(c) \/ Peer(c)
        \/ LoadCA

Spec == Init /\ [][Next]_vars

(* What the event loop and the timeouts of the code guarantee, whatever the *)
(* peers do: the reads of heads, the dial and the handshakes are timed, and *)
(* the 200 or a refusal is shorter than what a drain lets pass.            *)
Timed(c) == \/ Enter(c) \/ Dispatch(c) \/ Connect(c) \/ Intercept(c) \/ Leave(c)
            \/ NextRequest(c) \/ NoMoreRequests(c)
            \/ pc[c] = "await" /\ Serve(c)
            \/ BothRelaysDone(c)

ProxyFairness == \A c \in Conns : WF_vars(Timed(c))

(* What has no timeout, and ends only when the peer that is written to      *)
(* takes what it was sent, or is lost: the copying after an end of stream, *)
(* whose last write is drained, and the closing of both streams.           *)
Drains(c) == \/ \E d \in {"up", "down"} : Source(d) \notin peers[c] /\ RelayEnds(c, d)
             \/ CloseUpstream(c) \/ Release(c)

ReadingPeers == \A c \in Conns : WF_vars(Drains(c))

(* A peer that is told the stream has ended closes its own side.           *)
PolitePeers == \A c \in Conns : \A p \in {"client", "origin"} :
                   WF_vars(p \in toldEof[c] /\ PeerCloses(c, p))

(* Peers that read and send what an exchange needs; clients that leave in   *)
(* the end; origins that end an upgraded connection by themselves, because  *)
(* over TLS they are never told that the client has left.                  *)
FinitePeers == \A c \in Conns :
                   /\ WF_vars(pc[c] \in {"send", "deliver"} /\ Serve(c))
                   /\ WF_vars(PeerCloses(c, "client"))
                   /\ WF_vars(pc[c] = "relay" /\ PeerCloses(c, "origin"))

FairSpec == Spec /\ ProxyFairness /\ ReadingPeers
FinitePeersSpec == FairSpec /\ PolitePeers /\ FinitePeers

-----------------------------------------------------------------------------
Inside == {c \in Conns : pc[c] \notin {"new", "waiting", "done"}}
Queued == {c \in Conns : pc[c] = "waiting"}
Open   == {c \in Conns : pc[c] \notin {"new", "closeClient", "done"}}

Labels == {"new", "waiting", "limit", "head", "dial", "establish", "tunnel", "relay",
           "clientTls", "upstreamTls", "request", "send", "await", "deliver",
           "closeUpstream", "leave", "closeClient", "done"}

(* Every variable has its type. *)
TypeOK == /\ pc \in [Conns -> Labels]
          /\ free \in Nat /\ active \in Nat
          /\ waiters \in Seq(Conns)
          /\ caReady \in BOOLEAN
          /\ method \in [Conns -> {"none", "connect", "plain"}]
          /\ decision \in [Conns -> {"none", "block", "bypass", "intercept"}]
          /\ upstream \in [Conns -> {"none", "open", "tls", "closed"}]
          /\ copying \in [Conns -> SUBSET {"up", "down"}]
          /\ peers \in [Conns -> SUBSET {"client", "origin"}]
          /\ toldEof \in [Conns -> SUBSET {"client", "origin"}]
          /\ due \in [Conns -> BOOLEAN]
          /\ recorded \in [Conns -> Nat]

(* Every way through a handler gives its slot back: the free slots are the  *)
(* ones no handler inside the semaphore holds.                             *)
SlotsConserved == free + Cardinality(Inside) = MaxConnections

(* active_connections, which the heartbeat reports, counts the handlers     *)
(* that are queued or at work, each once.                                  *)
ActiveCountsOpen == active = Cardinality(Open)

(* A host the policy blocks is never connected to; a host it bypasses is    *)
(* never presented a forged certificate, even when a CA is loaded between   *)
(* the decision and the tunnel.                                            *)
PolicyIsObeyed ==
    \A c \in Conns :
        /\ decision[c] = "block" => upstream[c] = "none"
        /\ pc[c] \in {"clientTls", "upstreamTls"} => decision[c] = "intercept"
        /\ decision[c] = "bypass" /\ method[c] = "connect" => upstream[c] # "tls"

(* No transaction is recorded twice: a record ends a transaction that was   *)
(* not recorded yet, or is the single record of a blocked CONNECT.         *)
RecordedOnce ==
    [][\A c \in Conns : recorded'[c] # recorded[c] =>
          /\ recorded'[c] = recorded[c] + 1 /\ ~due'[c]
          /\ due[c] \/ (decision'[c] = "block" /\ pc[c] = "head")]_vars

(* An upstream connection is left open by a finished handler only where its *)
(* client vanished during the 200: every other path closes it.             *)
UpstreamReleased ==
    [][\A c \in Conns : upstream[c] \in {"open", "tls"} /\ pc'[c] = "leave" /\ pc[c] # "leave"
          => upstream'[c] = "closed" \/ pc[c] = "establish"]_vars

(* With peers that read what they are sent, and answer an end of stream by  *)
(* their own, a tunnel ends once its client has left.                      *)
TunnelFollowsClient ==
    \A c \in Conns : (pc[c] = "tunnel" /\ "client" \notin peers[c]) ~> (pc[c] = "done")

(* No handler waits for a slot for ever when every peer reads and is finite. *)
EveryClientIsServed == \A c \in Conns : (pc[c] = "waiting") ~> (pc[c] = "done")

-----------------------------------------------------------------------------
(* Claims of the documentation that the code does not keep.                *)

(* proxy.py: every transaction is teed to the capture pipeline.            *)
EveryTransactionRecorded == \A c \in Conns : pc[c] = "done" => ~due[c]

(* docs/LLD.md: both directions of a tunnel copy until one side closes.    *)
TunnelUntilOneSideCloses ==
    \A c \in Conns : (pc[c] = "tunnel" /\ peers[c] # {"client", "origin"}) ~> (pc[c] # "tunnel")
=============================================================================
