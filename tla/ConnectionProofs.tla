-------------------------- MODULE ConnectionProofs --------------------------
(***************************************************************************)
(* Proofs about Connection.tla, for every finite set of clients and every  *)
(* size of the semaphore.                                                  *)
(***************************************************************************)
EXTENDS Connection, FiniteSetTheorems, TLAPS

Unconnected == {"new", "waiting", "limit", "head", "dial"}
Decided == {"dial", "establish", "tunnel", "relay", "clientTls", "upstreamTls", "request",
            "send", "await", "deliver", "closeUpstream"}

(* Nothing is connected before the dial, and only what the policy lets      *)
(* through goes on to it.                                                  *)
PolicyInv == \A c \in Conns :
                 /\ pc[c] \in Unconnected => upstream[c] = "none"
                 /\ pc[c] \in Decided => decision[c] \in {"bypass", "intercept"}

IInv == TypeOK /\ SlotsConserved /\ ActiveCountsOpen /\ PolicyIsObeyed /\ PolicyInv

-----------------------------------------------------------------------------
(* How a move of one handler changes who holds a slot and who is counted.  *)
LEMMA MoveInside ==
    ASSUME TypeOK, NEW c \in Conns, NEW label \in Labels, Goto(c, label)
    PROVE  Inside' = IF label \in {"new", "waiting", "done"} THEN Inside \ {c} ELSE Inside \cup {c}
BY DEF Inside, Goto, TypeOK

(* The same for active_connections. *)
LEMMA MoveOpen ==
    ASSUME TypeOK, NEW c \in Conns, NEW label \in Labels, Goto(c, label)
    PROVE  Open' = IF label \in {"new", "closeClient", "done"} THEN Open \ {c} ELSE Open \cup {c}
BY DEF Open, Goto, TypeOK

(* Both are finite, and adding or removing a handler changes the count by   *)
(* one.                                                                    *)
LEMMA Counts ==
    ASSUME NEW c, NEW S \in {Inside, Open}
    PROVE  /\ Cardinality(S) \in Nat
           /\ c \in S => Cardinality(S) > 0 /\ Cardinality(S \ {c}) = Cardinality(S) - 1
           /\ c \in S => S \cup {c} = S
           /\ c \notin S => Cardinality(S \cup {c}) = Cardinality(S) + 1 /\ S \ {c} = S
<1>1. IsFiniteSet(S)
  BY ConnsAssumption, FS_Subset DEF Inside, Open
<1>2. Cardinality(S) \in Nat /\ (Cardinality(S) = 0 <=> S = {})
  BY <1>1, FS_CardinalityType, FS_EmptySet
<1>3. Cardinality(S \cup {c}) = IF c \in S THEN Cardinality(S) ELSE Cardinality(S) + 1
  BY <1>1, FS_AddElement
<1>4. Cardinality(S \ {c}) = IF c \in S THEN Cardinality(S) - 1 ELSE Cardinality(S)
  BY <1>1, FS_RemoveElement
<1>5. c \in S => Cardinality(S) # 0
  BY <1>2
<1>6. (c \in S => S \cup {c} = S) /\ (c \notin S => S \ {c} = S)
  OBVIOUS
<1>7. QED BY <1>2, <1>3, <1>4, <1>5, <1>6

(* A handler that stays inside the semaphore and stays counted changes no   *)
(* count.                                                                  *)
Working == Labels \ {"new", "waiting", "closeClient", "done"}

LEMMA WorkingMove ==
    ASSUME IInv, NEW c \in Conns, NEW label \in Working, pc[c] \in Working, Goto(c, label),
           UNCHANGED <<free, active>>
    PROVE  SlotsConserved' /\ ActiveCountsOpen'
<1>1. c \in Inside /\ c \in Open
  BY DEF Inside, Open, Working
<1>2. Inside' = Inside
  BY <1>1, MoveInside DEF IInv, Working
<1>3. Open' = Open
  BY <1>1, MoveOpen DEF IInv, Working
<1>4. QED BY <1>2, <1>3 DEF IInv, SlotsConserved, ActiveCountsOpen

-----------------------------------------------------------------------------
(* The initial state: nobody holds a slot, nobody is counted.              *)
LEMMA InitIInv == Init => IInv
<1> SUFFICES ASSUME Init PROVE IInv
  OBVIOUS
<1>1. TypeOK
  BY LimitAssumption DEF Init, TypeOK, Labels
<1>2. Inside = {} /\ Open = {}
  BY DEF Init, Inside, Open
<1>3. SlotsConserved /\ ActiveCountsOpen
  BY <1>2, FS_EmptySet, LimitAssumption DEF Init, SlotsConserved, ActiveCountsOpen
<1>4. PolicyIsObeyed /\ PolicyInv
  BY DEF Init, PolicyIsObeyed, PolicyInv, Unconnected, Decided
<1>5. QED BY <1>1, <1>3, <1>4 DEF IInv

(* Every step but those that touch the semaphore or the count keeps both:   *)
(* the handler moves inside the semaphore.                                 *)
LEMMA StepCounts == IInv /\ [Next]_vars => SlotsConserved' /\ ActiveCountsOpen'
<1> SUFFICES ASSUME IInv, [Next]_vars PROVE SlotsConserved' /\ ActiveCountsOpen'
  OBVIOUS
<1> USE DEF admission
<1>t. TypeOK /\ free \in Nat /\ active \in Nat
  BY DEF IInv, TypeOK
<1>s. SlotsConserved /\ ActiveCountsOpen
  BY DEF IInv
<1>u. ASSUME pc' = pc, UNCHANGED <<free, active>> PROVE SlotsConserved' /\ ActiveCountsOpen'
  BY <1>u, <1>s DEF SlotsConserved, ActiveCountsOpen, Inside, Open
<1>1. ASSUME NEW c \in Conns, Accept(c) PROVE SlotsConserved' /\ ActiveCountsOpen'
  <2>1. pc[c] = "new" /\ Goto(c, "waiting") /\ free' = free /\ active' = active + 1
    BY <1>1 DEF Accept
  <2>2. c \notin Inside /\ c \notin Open
    BY <2>1 DEF Inside, Open
  <2>3. Inside' = Inside /\ Open' = Open \cup {c}
    BY <1>t, <2>1, <2>2, MoveInside, MoveOpen DEF Labels
  <2>4. Cardinality(Open') = Cardinality(Open) + 1
    BY <2>2, <2>3, Counts
  <2>5. QED BY <1>s, <2>1, <2>3, <2>4 DEF SlotsConserved, ActiveCountsOpen
<1>2. ASSUME NEW c \in Conns, Acquire(c) PROVE SlotsConserved' /\ ActiveCountsOpen'
  <2>1. pc[c] = "waiting" /\ Goto(c, "limit") /\ free' = free - 1 /\ active' = active
    BY <1>2 DEF Acquire
  <2>2. c \notin Inside /\ c \in Open
    BY <2>1 DEF Inside, Open
  <2>3. Inside' = Inside \cup {c} /\ Open' = Open
    BY <1>t, <2>1, <2>2, MoveInside, MoveOpen DEF Labels
  <2>4. Cardinality(Inside') = Cardinality(Inside) + 1 /\ Cardinality(Inside) \in Nat
    BY <2>2, <2>3, Counts
  <2>5. SlotsConserved'
    BY <1>s, <1>t, <2>1, <2>4 DEF SlotsConserved
  <2>6. QED BY <1>s, <2>1, <2>3, <2>5 DEF ActiveCountsOpen
<1>3. ASSUME NEW c \in Conns, Leave(c) PROVE SlotsConserved' /\ ActiveCountsOpen'
  <2>1. pc[c] = "leave" /\ Goto(c, "closeClient") /\ free' = free /\ active' = active - 1
    BY <1>3 DEF Leave
  <2>2. c \in Inside /\ c \in Open
    BY <2>1 DEF Inside, Open
  <2>3. Inside' = Inside /\ Open' = Open \ {c}
    BY <1>t, <2>1, <2>2, MoveInside, MoveOpen DEF Labels
  <2>4. Cardinality(Open') = Cardinality(Open) - 1
    BY <2>2, <2>3, Counts
  <2>5. QED BY <1>s, <2>1, <2>3, <2>4 DEF SlotsConserved, ActiveCountsOpen
<1>4. ASSUME NEW c \in Conns, Release(c) PROVE SlotsConserved' /\ ActiveCountsOpen'
  <2>1. pc[c] = "closeClient" /\ Goto(c, "done") /\ free' = free + 1 /\ active' = active
    BY <1>4 DEF Release
  <2>2. c \in Inside /\ c \notin Open
    BY <2>1 DEF Inside, Open
  <2>3. Inside' = Inside \ {c} /\ Open' = Open
    BY <1>t, <2>1, <2>2, MoveInside, MoveOpen DEF Labels
  <2>4. Cardinality(Inside') = Cardinality(Inside) - 1 /\ Cardinality(Inside) \in Nat
    BY <2>2, <2>3, Counts
  <2>5. SlotsConserved'
    BY <1>s, <1>t, <2>1, <2>4 DEF SlotsConserved
  <2>6. QED BY <1>s, <2>1, <2>3, <2>5 DEF ActiveCountsOpen
<1>5. ASSUME NEW c \in Conns, RateLimit(c) \/ Dispatch(c) PROVE SlotsConserved' /\ ActiveCountsOpen'
  <2>1. \E label \in Working : Goto(c, label) /\ pc[c] \in Working /\ UNCHANGED <<free, active>>
    BY <1>5 DEF RateLimit, Dispatch, NoRequest, BlockConnect, BlockPlain, Admit, Working, Labels
  <2>2. QED BY <2>1, WorkingMove
<1>6. ASSUME NEW c \in Conns, Connect(c) PROVE SlotsConserved' /\ ActiveCountsOpen'
  <2>1. \E label \in Working : Goto(c, label) /\ pc[c] \in Working /\ UNCHANGED <<free, active>>
    <3>1. CASE DialFails(c) \/ EstablishFails(c)
      BY <3>1 DEF DialFails, EstablishFails, Working, Labels
    <3>2. CASE DialSucceeds(c)
      BY <3>2 DEF DialSucceeds, Working, Labels
    <3>3. CASE Establish(c)
      BY <3>3 DEF Establish, StartRelay, Working, Labels
    <3>4. QED BY <1>6, <3>1, <3>2, <3>3 DEF Connect
  <2>2. QED BY <2>1, WorkingMove
<1>7. ASSUME NEW c \in Conns, Relay(c) PROVE SlotsConserved' /\ ActiveCountsOpen'
  <2>1. CASE BothRelaysDone(c)
    <3>1. Goto(c, "closeUpstream") /\ pc[c] \in Working /\ UNCHANGED <<free, active>>
      BY <2>1 DEF BothRelaysDone, Working, Labels
    <3>2. QED BY <3>1, WorkingMove DEF Working, Labels
  <2>2. CASE \E d \in {"up", "down"} : RelayEnds(c, d)
    BY <1>u, <2>2 DEF RelayEnds
  <2>3. QED BY <1>7, <2>1, <2>2 DEF Relay
<1>8. ASSUME NEW c \in Conns, Intercept(c) \/ Serve(c) PROVE SlotsConserved' /\ ActiveCountsOpen'
  <2>1. \E label \in Working : Goto(c, label) /\ pc[c] \in Working /\ UNCHANGED <<free, active>>
    <3>1. CASE Intercept(c)
      BY <3>1 DEF Intercept, HandshakeFails, ClientHandshake, UpstreamHandshake, Working, Labels
    <3>2. CASE Serve(c)
      BY <3>2 DEF Serve, NextRequest, NoMoreRequests, RequestForwarded, ResponseHead,
         SwitchProtocols, StartRelay, ExchangeFails, ExchangeRaises, ResponseDelivered,
         Working, Labels
    <3>3. QED BY <1>8, <3>1, <3>2
  <2>2. QED BY <2>1, WorkingMove
<1>9. ASSUME NEW c \in Conns, CloseUpstream(c) PROVE SlotsConserved' /\ ActiveCountsOpen'
  <2>1. Goto(c, "leave") /\ pc[c] \in Working /\ UNCHANGED <<free, active>>
    BY <1>9 DEF CloseUpstream, Working, Labels
  <2>2. QED BY <2>1, WorkingMove DEF Working, Labels
<1>10. ASSUME NEW c \in Conns, Peer(c) PROVE SlotsConserved' /\ ActiveCountsOpen'
  BY <1>10, <1>u DEF Peer, PeerCloses
<1>11. CASE LoadCA
  BY <1>11, <1>u DEF LoadCA
<1>12. CASE UNCHANGED vars
  BY <1>12, <1>u DEF vars
<1>13. QED
  BY <1>1, <1>2, <1>3, <1>4, <1>5, <1>6, <1>7, <1>8, <1>9, <1>10, <1>11, <1>12
     DEF Next, Step, Enter, CleanUp

-----------------------------------------------------------------------------
(* The types by groups of variables, one per group that a step leaves alone *)
(* or changes.                                                             *)
PcOK        == pc \in [Conns -> Labels]
AdmissionOK == free \in Nat /\ active \in Nat /\ waiters \in Seq(Conns)
RequestOK   == /\ method \in [Conns -> {"none", "connect", "plain"}]
               /\ decision \in [Conns -> {"none", "block", "bypass", "intercept"}]
UpstreamOK  == upstream \in [Conns -> {"none", "open", "tls", "closed"}]
RelaysOK    == /\ copying \in [Conns -> SUBSET {"up", "down"}]
               /\ peers \in [Conns -> SUBSET {"client", "origin"}]
               /\ toldEof \in [Conns -> SUBSET {"client", "origin"}]
CaptureOK   == due \in [Conns -> BOOLEAN] /\ recorded \in [Conns -> Nat]
CAOK        == caReady \in BOOLEAN

LEMMA TypeParts == TypeOK <=> /\ PcOK /\ AdmissionOK /\ RequestOK /\ UpstreamOK
                              /\ RelaysOK /\ CaptureOK /\ CAOK
BY DEF TypeOK, PcOK, AdmissionOK, RequestOK, UpstreamOK, RelaysOK, CaptureOK, CAOK

(* A group that a step leaves alone keeps its type.                        *)
LEMMA Frame ==
    ASSUME TypeOK
    PROVE  /\ UNCHANGED pc => PcOK'
           /\ UNCHANGED admission => AdmissionOK'
           /\ UNCHANGED request => RequestOK'
           /\ UNCHANGED upstream => UpstreamOK'
           /\ UNCHANGED relays => RelaysOK'
           /\ UNCHANGED capture => CaptureOK'
           /\ UNCHANGED caReady => CAOK'
BY TypeParts DEF admission, request, relays, capture,
   PcOK, AdmissionOK, RequestOK, UpstreamOK, RelaysOK, CaptureOK, CAOK

(* The assignments the steps are made of keep the types.                   *)
LEMMA Assignments ==
    ASSUME TypeOK, NEW c \in Conns
    PROVE  /\ \A label \in Labels : Goto(c, label) => PcOK'
           /\ Start(c) \/ Record(c) => CaptureOK'
           /\ \A m \in {"connect", "plain"}, action \in {"block", "bypass", "intercept"} :
                 Decide(c, m, action) => RequestOK'
           /\ \A state \in {"open", "tls", "closed"} : SetUpstream(c, state) => UpstreamOK'
           /\ \A label \in {"tunnel", "relay"} : StartRelay(c, label) => RelaysOK' /\ PcOK'
<1>1. PcOK /\ CaptureOK /\ RequestOK /\ UpstreamOK /\ RelaysOK
  BY TypeParts
<1>2. \A label \in Labels : Goto(c, label) => PcOK'
  BY <1>1 DEF Goto, PcOK
<1>3. Start(c) \/ Record(c) => CaptureOK'
  <2>1. ASSUME Start(c) PROVE CaptureOK'
    BY <1>1, <2>1 DEF Start, CaptureOK
  <2>2. ASSUME Record(c) PROVE CaptureOK'
    <3>1. recorded[c] + 1 \in Nat
      BY <1>1 DEF CaptureOK
    <3>2. recorded' \in [Conns -> Nat]
      BY <1>1, <2>2, <3>1 DEF Record, CaptureOK
    <3>3. due' \in [Conns -> BOOLEAN]
      BY <1>1, <2>2 DEF Record, CaptureOK
    <3>4. QED BY <3>2, <3>3 DEF CaptureOK
  <2>3. QED BY <2>1, <2>2
<1>4. \A m \in {"connect", "plain"}, action \in {"block", "bypass", "intercept"} :
         Decide(c, m, action) => RequestOK'
  BY <1>1 DEF Decide, RequestOK
<1>5. \A state \in {"open", "tls", "closed"} : SetUpstream(c, state) => UpstreamOK'
  BY <1>1 DEF SetUpstream, UpstreamOK
<1>6. \A label \in {"tunnel", "relay"} : StartRelay(c, label) => RelaysOK' /\ PcOK'
  <2>1. ASSUME NEW label \in {"tunnel", "relay"}, StartRelay(c, label) PROVE RelaysOK' /\ PcOK'
    <3>1. PcOK'
      BY <1>2, <2>1 DEF StartRelay, Labels
    <3>2. RelaysOK'
      BY <1>1, <2>1 DEF StartRelay, RelaysOK
    <3>3. QED BY <3>1, <3>2
  <2>2. QED BY <2>1
<1>7. QED BY <1>2, <1>3, <1>4, <1>5, <1>6

(* Every step keeps the types; that the count stays a natural number is     *)
(* ActiveCountsOpen after the step.                                        *)
LEMMA StepTypeOK == IInv /\ ActiveCountsOpen' /\ [Next]_vars => TypeOK'
<1> SUFFICES ASSUME IInv, ActiveCountsOpen', [Next]_vars
             PROVE  /\ PcOK' /\ AdmissionOK' /\ RequestOK' /\ UpstreamOK'
                    /\ RelaysOK' /\ CaptureOK' /\ CAOK'
  BY TypeParts DEF PcOK, AdmissionOK, RequestOK, UpstreamOK, RelaysOK, CaptureOK, CAOK, TypeOK
<1> DEFINE Typed == /\ PcOK' /\ AdmissionOK' /\ RequestOK' /\ UpstreamOK'
                    /\ RelaysOK' /\ CaptureOK' /\ CAOK'
<1>t. TypeOK
  BY DEF IInv
<1>n. active' \in Nat
  <2>1. IsFiniteSet(Open')
    BY ConnsAssumption, FS_Subset DEF Open
  <2>2. QED BY <2>1, FS_CardinalityType DEF ActiveCountsOpen
<1>l. \A label \in {"waiting", "limit", "head", "dial", "establish", "clientTls", "upstreamTls",
                     "request", "send", "await", "deliver", "closeUpstream", "leave",
                     "closeClient", "done"} : label \in Labels
  BY DEF Labels
<1>1. ASSUME NEW c \in Conns, Accept(c) PROVE Typed
  <2>1. AdmissionOK'
    BY <1>1, <1>t, <1>n DEF Accept, TypeOK, AdmissionOK
  <2>2. QED BY <1>1, <1>t, <1>l, <2>1, Frame, Assignments DEF Accept
<1>2. ASSUME NEW c \in Conns, Acquire(c) PROVE Typed
  <2>1. AdmissionOK'
    BY <1>2, <1>t, <1>n DEF Acquire, TypeOK, AdmissionOK
  <2>2. QED BY <1>2, <1>t, <1>l, <2>1, Frame, Assignments DEF Acquire
<1>3. ASSUME NEW c \in Conns, RateLimit(c) \/ NoRequest(c) PROVE Typed
  BY <1>3, <1>t, <1>l, Frame, Assignments DEF RateLimit, NoRequest
<1>4. ASSUME NEW c \in Conns, BlockConnect(c) PROVE Typed
  <2>1. CaptureOK'
    <3>1. CASE Start(c)
      BY <3>1, <1>t, Assignments
    <3>2. CASE recorded' = [recorded EXCEPT ![c] = @ + 1] /\ UNCHANGED due
      BY <3>2, <1>t DEF TypeOK, CaptureOK
    <3>3. QED BY <1>4, <3>1, <3>2 DEF BlockConnect
  <2>2. QED BY <1>4, <1>t, <1>l, <2>1, Frame, Assignments DEF BlockConnect
<1>5. ASSUME NEW c \in Conns, BlockPlain(c) PROVE Typed
  BY <1>5, <1>t, <1>l, Frame, Assignments DEF BlockPlain
<1>6. ASSUME NEW c \in Conns, NEW m \in {"connect", "plain"}, Admit(c, m) PROVE Typed
  BY <1>6, <1>t, <1>l, Frame, Assignments DEF Admit
<1>7. ASSUME NEW c \in Conns, DialFails(c) \/ DialSucceeds(c) PROVE Typed
  BY <1>7, <1>t, <1>l, Frame, Assignments DEF DialFails, DialSucceeds
<1>8. ASSUME NEW c \in Conns, Establish(c) \/ EstablishFails(c) PROVE Typed
  BY <1>8, <1>t, <1>l, Frame, Assignments DEF Establish, EstablishFails
<1>9. ASSUME NEW c \in Conns, NEW d \in {"up", "down"}, RelayEnds(c, d) PROVE Typed
  <2>1. RelaysOK'
    BY <1>9, <1>t DEF RelayEnds, Sink, TypeOK, RelaysOK
  <2>2. QED BY <1>9, <1>t, <2>1, Frame DEF RelayEnds
<1>10. ASSUME NEW c \in Conns, BothRelaysDone(c) \/ HandshakeFails(c) PROVE Typed
  BY <1>10, <1>t, <1>l, Frame, Assignments DEF BothRelaysDone, HandshakeFails
<1>11. ASSUME NEW c \in Conns, NEW p \in {"client", "origin"}, PeerCloses(c, p) PROVE Typed
  <2>1. RelaysOK'
    BY <1>11, <1>t DEF PeerCloses, TypeOK, RelaysOK
  <2>2. QED BY <1>11, <1>t, <2>1, Frame DEF PeerCloses
<1>12. ASSUME NEW c \in Conns, ClientHandshake(c) PROVE Typed
  BY <1>12, <1>t, <1>l, Frame, Assignments DEF ClientHandshake
<1>13. ASSUME NEW c \in Conns, UpstreamHandshake(c) PROVE Typed
  <2>1. CaptureOK'
    BY <1>13, <1>t DEF UpstreamHandshake, TypeOK, CaptureOK
  <2>2. QED BY <1>13, <1>t, <1>l, <2>1, Frame, Assignments DEF UpstreamHandshake
<1>14. ASSUME NEW c \in Conns, NextRequest(c) \/ NoMoreRequests(c) PROVE Typed
  BY <1>14, <1>t, <1>l, Frame, Assignments DEF NextRequest, NoMoreRequests
<1>15. ASSUME NEW c \in Conns, RequestForwarded(c) \/ ResponseHead(c) \/ SwitchProtocols(c)
       PROVE  Typed
  BY <1>15, <1>t, <1>l, Frame, Assignments DEF RequestForwarded, ResponseHead, SwitchProtocols
<1>16. ASSUME NEW c \in Conns, ExchangeFails(c) \/ ExchangeRaises(c) \/ ResponseDelivered(c)
       PROVE  Typed
  BY <1>16, <1>t, <1>l, Frame, Assignments DEF ExchangeFails, ExchangeRaises, ResponseDelivered
<1>17. ASSUME NEW c \in Conns, CloseUpstream(c) PROVE Typed
  BY <1>17, <1>t, <1>l, Frame, Assignments DEF CloseUpstream
<1>18. ASSUME NEW c \in Conns, Leave(c) \/ Release(c) PROVE Typed
  <2>1. AdmissionOK'
    BY <1>18, <1>t, <1>n DEF Leave, Release, TypeOK, AdmissionOK
  <2>2. QED BY <1>18, <1>t, <1>l, <2>1, Frame, Assignments DEF Leave, Release
<1>19. ASSUME LoadCA PROVE Typed
  <2>1. CAOK'
    BY <1>19 DEF LoadCA, CAOK
  <2>2. QED BY <1>19, <1>t, <2>1, Frame DEF LoadCA
<1>20. ASSUME UNCHANGED vars PROVE Typed
  BY <1>20, <1>t, Frame DEF vars
<1> HIDE DEF Typed
<1>21. ASSUME NEW c \in Conns, Enter(c) \/ Dispatch(c) \/ Connect(c) PROVE Typed
  BY <1>21, <1>2, <1>3, <1>4, <1>5, <1>6, <1>7, <1>8 DEF Enter, Dispatch, Connect
<1>22. ASSUME NEW c \in Conns, Relay(c) \/ Intercept(c) PROVE Typed
  BY <1>22, <1>9, <1>10, <1>12, <1>13 DEF Relay, Intercept
<1>23. ASSUME NEW c \in Conns, Serve(c) \/ CleanUp(c) \/ Peer(c) PROVE Typed
  BY <1>23, <1>11, <1>14, <1>15, <1>16, <1>17, <1>18 DEF Serve, CleanUp, Peer
<1>24. ASSUME NEW c \in Conns, Accept(c) \/ Step(c) \/ Peer(c) PROVE Typed
  <2>1. CASE Accept(c)
    BY <2>1, <1>1
  <2>2. CASE Step(c)
    BY <2>2, <1>21, <1>22, <1>23 DEF Step
  <2>3. CASE Peer(c)
    BY <2>3, <1>23
  <2>4. QED BY <1>24, <2>1, <2>2, <2>3
<1>25. ASSUME Next PROVE Typed
  BY <1>25, <1>19, <1>24 DEF Next
<1>26. Typed
  BY <1>20, <1>25
<1>27. QED BY <1>26 DEF Typed

-----------------------------------------------------------------------------
(* The policy is decided before anything is connected, and nothing decides  *)
(* again; what depends on the CA looks at the decision as well.            *)
PolicyOk(c) ==
    /\ decision[c] = "block" => upstream[c] = "none"
    /\ pc[c] \in {"clientTls", "upstreamTls"} => decision[c] = "intercept"
    /\ decision[c] = "bypass" /\ method[c] = "connect" => upstream[c] # "tls"
    /\ pc[c] \in Unconnected => upstream[c] = "none"
    /\ pc[c] \in Decided => decision[c] \in {"bypass", "intercept"}

(* The invariant is one condition per connection.                          *)
LEMMA PolicyParts == PolicyIsObeyed /\ PolicyInv <=> \A c \in Conns : PolicyOk(c)
BY DEF PolicyIsObeyed, PolicyInv, PolicyOk

(* A step of one connection leaves the others as they were.                *)
Alone(c) == \A b \in Conns \ {c} :
               /\ pc'[b] = pc[b] /\ decision'[b] = decision[b]
               /\ method'[b] = method[b] /\ upstream'[b] = upstream[b]

(* No step breaks the policy of its connection, or touches another one's.   *)
LEMMA StepPolicy == IInv /\ [Next]_vars => (PolicyIsObeyed /\ PolicyInv)'
<1> SUFFICES ASSUME IInv, [Next]_vars PROVE \A c \in Conns : PolicyOk(c)'
  BY PolicyParts DEF PolicyIsObeyed, PolicyInv, PolicyOk
<1> USE DEF admission, request, relays, capture, Goto
<1>p. TypeOK /\ \A c \in Conns : PolicyOk(c)
  BY PolicyParts DEF IInv
<1>a. ASSUME NEW c \in Conns, Alone(c), PolicyOk(c)' PROVE \A b \in Conns : PolicyOk(b)'
  BY <1>a, <1>p DEF Alone, PolicyOk
<1>u. ASSUME UNCHANGED <<pc, decision, method, upstream>> PROVE \A b \in Conns : PolicyOk(b)'
  BY <1>u, <1>p DEF PolicyOk
<1> USE DEF Unconnected, Decided
<1>1. ASSUME NEW c \in Conns, Accept(c) \/ Acquire(c) \/ RateLimit(c) \/ NoRequest(c)
      PROVE  \A b \in Conns : PolicyOk(b)'
  BY <1>1, <1>a, <1>p DEF Accept, Acquire, RateLimit, NoRequest, Alone, PolicyOk, TypeOK
<1>2. ASSUME NEW c \in Conns, BlockConnect(c) \/ BlockPlain(c)
      PROVE  \A b \in Conns : PolicyOk(b)'
  <2>1. pc[c] = "head" /\ Decide(c, method'[c], "block")
    BY <1>2, <1>p DEF BlockConnect, BlockPlain, Decide, TypeOK
  <2>2. pc' = [pc EXCEPT ![c] = "leave"] /\ UNCHANGED upstream
    BY <1>2 DEF BlockConnect, BlockPlain
  <2>3. Alone(c)
    BY <2>1, <2>2, <1>p DEF Decide, Alone, TypeOK
  <2>4. decision'[c] = "block" /\ pc'[c] = "leave" /\ upstream'[c] = "none"
    BY <2>1, <2>2, <1>p DEF Decide, PolicyOk, TypeOK
  <2>5. PolicyOk(c)'
    BY <2>4 DEF PolicyOk
  <2>6. QED BY <2>3, <2>5, <1>a
<1>3. ASSUME NEW c \in Conns, NEW m \in {"connect", "plain"}, Admit(c, m)
      PROVE  \A b \in Conns : PolicyOk(b)'
  BY <1>3, <1>a, <1>p DEF Admit, Decide, Alone, PolicyOk, TypeOK
<1>4. ASSUME NEW c \in Conns, DialFails(c) \/ DialSucceeds(c)
      PROVE  \A b \in Conns : PolicyOk(b)'
  BY <1>4, <1>a, <1>p DEF DialFails, DialSucceeds, SetUpstream, Alone, PolicyOk, TypeOK
<1>5. ASSUME NEW c \in Conns, Establish(c) \/ EstablishFails(c)
      PROVE  \A b \in Conns : PolicyOk(b)'
  BY <1>5, <1>a, <1>p DEF Establish, EstablishFails, StartRelay, Alone, PolicyOk, TypeOK
<1>6. ASSUME NEW c \in Conns, BothRelaysDone(c) \/ Intercept(c)
      PROVE  \A b \in Conns : PolicyOk(b)'
  BY <1>6, <1>a, <1>p DEF BothRelaysDone, Intercept, HandshakeFails, ClientHandshake,
     UpstreamHandshake, SetUpstream, Alone, PolicyOk, TypeOK
<1>7. ASSUME NEW c \in Conns, Serve(c) PROVE \A b \in Conns : PolicyOk(b)'
  BY <1>7, <1>a, <1>p DEF Serve, NextRequest, NoMoreRequests, RequestForwarded, ResponseHead,
     SwitchProtocols, StartRelay, ExchangeFails, ExchangeRaises, ResponseDelivered,
     Alone, PolicyOk, TypeOK
<1>8. ASSUME NEW c \in Conns, CleanUp(c) PROVE \A b \in Conns : PolicyOk(b)'
  BY <1>8, <1>a, <1>p DEF CleanUp, CloseUpstream, SetUpstream, Leave, Release, Alone, PolicyOk,
     TypeOK
<1>9. ASSUME NEW c \in Conns, NEW d \in {"up", "down"}, RelayEnds(c, d)
      PROVE  \A b \in Conns : PolicyOk(b)'
  BY <1>9, <1>u DEF RelayEnds
<1>10. ASSUME NEW c \in Conns, Peer(c) PROVE \A b \in Conns : PolicyOk(b)'
  BY <1>10, <1>u DEF Peer, PeerCloses
<1>11. CASE LoadCA \/ UNCHANGED vars
  BY <1>11, <1>u DEF LoadCA, vars
<1>12. QED
  BY <1>1, <1>2, <1>3, <1>4, <1>5, <1>6, <1>7, <1>8, <1>9, <1>10, <1>11
     DEF Next, Step, Enter, Dispatch, Connect, Relay

-----------------------------------------------------------------------------
(* A transaction is due from its head to its end, and not before the first. *)
Fresh   == {"new", "waiting", "limit", "head"}
Pending == {"dial", "establish", "tunnel", "relay", "clientTls", "upstreamTls",
            "send", "await", "deliver"}
DueOk(c) == /\ pc[c] \in Pending => due[c]
            /\ pc[c] \in Fresh => ~due[c]
DueInv == \A c \in Conns : DueOk(c)

(* What a step of c may record: one transaction, due or the blocked one.    *)
OneRecord(c) ==
    recorded'[c] # recorded[c] =>
        /\ recorded'[c] = recorded[c] + 1 /\ ~due'[c]
        /\ due[c] \/ (decision'[c] = "block" /\ pc[c] = "head")

(* ... and it leaves what the other connections have due and recorded.      *)
OthersKeep(c) == \A b \in Conns \ {c} :
                    pc'[b] = pc[b] /\ due'[b] = due[b] /\ recorded'[b] = recorded[b]

Recording(c) == DueOk(c)' /\ OneRecord(c) /\ OthersKeep(c)

(* Every step of a connection records at most one transaction.              *)
LEMMA StepRecording ==
    ASSUME TypeOK, DueInv, NEW c \in Conns, Accept(c) \/ Step(c) \/ Peer(c)
    PROVE  Recording(c)
<1> USE DEF capture, request, Goto, Fresh, Pending, DueOk, OneRecord, OthersKeep, Recording
<1>t. /\ pc \in [Conns -> Labels] /\ due \in [Conns -> BOOLEAN] /\ recorded \in [Conns -> Nat]
      /\ decision \in [Conns -> {"none", "block", "bypass", "intercept"}]
      /\ DueOk(c)
  BY DEF TypeOK, DueInv
<1>1. CASE Accept(c) \/ Enter(c)
  BY <1>1, <1>t DEF Accept, Enter, Acquire, RateLimit
<1>2. CASE Dispatch(c)
  <2>1. CASE NoRequest(c)
    BY <2>1, <1>t DEF NoRequest
  <2>2. CASE BlockConnect(c)
    BY <2>2, <1>t DEF BlockConnect, Start, Decide
  <2>3. CASE BlockPlain(c)
    BY <2>3, <1>t DEF BlockPlain, Start
  <2>4. CASE Admit(c, "connect") \/ Admit(c, "plain")
    BY <2>4, <1>t DEF Admit, Start
  <2>5. QED BY <1>2, <2>1, <2>2, <2>3, <2>4 DEF Dispatch
<1>3. CASE Connect(c)
  <2>1. CASE DialFails(c)
    BY <2>1, <1>t DEF DialFails, Record
  <2>2. CASE DialSucceeds(c)
    BY <2>2, <1>t DEF DialSucceeds
  <2>3. CASE Establish(c) \/ EstablishFails(c)
    BY <2>3, <1>t DEF Establish, EstablishFails, StartRelay
  <2>4. QED BY <1>3, <2>1, <2>2, <2>3 DEF Connect
<1>4. CASE Relay(c) \/ Peer(c)
  <2>1. CASE BothRelaysDone(c)
    BY <2>1, <1>t DEF BothRelaysDone, Record
  <2>2. CASE Peer(c) \/ \E d \in {"up", "down"} : RelayEnds(c, d)
    BY <2>2, <1>t DEF Peer, PeerCloses, RelayEnds
  <2>3. QED BY <1>4, <2>1, <2>2 DEF Relay
<1>5. CASE Intercept(c)
  <2>1. CASE HandshakeFails(c)
    BY <2>1, <1>t DEF HandshakeFails, Record
  <2>2. CASE ClientHandshake(c) \/ UpstreamHandshake(c)
    BY <2>2, <1>t DEF ClientHandshake, UpstreamHandshake
  <2>3. QED BY <1>5, <2>1, <2>2 DEF Intercept
<1>6. CASE Serve(c)
  <2>1. CASE NextRequest(c) \/ NoMoreRequests(c) \/ RequestForwarded(c) \/ ResponseHead(c)
    BY <2>1, <1>t DEF NextRequest, NoMoreRequests, RequestForwarded, ResponseHead, Start
  <2>2. CASE SwitchProtocols(c) \/ ExchangeRaises(c)
    BY <2>2, <1>t DEF SwitchProtocols, StartRelay, ExchangeRaises
  <2>3. CASE ExchangeFails(c)
    BY <2>3, <1>t DEF ExchangeFails, Record
  <2>4. CASE ResponseDelivered(c)
    BY <2>4, <1>t DEF ResponseDelivered, Record
  <2>5. QED BY <1>6, <2>1, <2>2, <2>3, <2>4 DEF Serve
<1>7. CASE CleanUp(c)
  BY <1>7, <1>t DEF CleanUp, CloseUpstream, Leave, Release
<1>8. QED BY <1>1, <1>2, <1>3, <1>4, <1>5, <1>6, <1>7 DEF Step

(* No record is due, or written, but by a step of its own connection.       *)
LEMMA StepDue ==
    ASSUME TypeOK, DueInv, [Next]_vars
    PROVE  DueInv' /\ \A c \in Conns : OneRecord(c)
<1>1. ASSUME NEW c \in Conns, Accept(c) \/ Step(c) \/ Peer(c)
      PROVE  DueInv' /\ \A b \in Conns : OneRecord(b)
  <2>1. Recording(c)
    BY <1>1, StepRecording
  <2>2. QED BY <2>1 DEF Recording, DueInv, DueOk, OneRecord, OthersKeep
<1>2. CASE LoadCA \/ UNCHANGED vars
  BY <1>2 DEF LoadCA, vars, capture, DueInv, DueOk, OneRecord
<1>3. QED BY <1>1, <1>2 DEF Next

-----------------------------------------------------------------------------
(* Only a client that vanished during its 200 goes to the clean-up of the   *)
(* client with its upstream open.                                          *)
Releases(c) == upstream[c] \in {"open", "tls"} /\ pc'[c] = "leave" /\ pc[c] # "leave"
               => upstream'[c] = "closed" \/ pc[c] = "establish"

LEMMA StepReleases == IInv /\ [Next]_vars => \A c \in Conns : Releases(c)
<1> SUFFICES ASSUME IInv, [Next]_vars, NEW b \in Conns PROVE Releases(b)
  OBVIOUS
<1> USE DEF request, Goto, Releases
<1>t. /\ pc \in [Conns -> Labels] /\ upstream \in [Conns -> {"none", "open", "tls", "closed"}]
      /\ pc[b] \in Unconnected => upstream[b] = "none"
  BY DEF IInv, TypeOK, PolicyInv
<1> USE DEF Unconnected
<1>1. ASSUME NEW c \in Conns, Accept(c) \/ Enter(c) \/ Dispatch(c) PROVE Releases(b)
  BY <1>1, <1>t DEF Accept, Enter, Acquire, RateLimit, Dispatch, NoRequest, BlockConnect,
     BlockPlain, Admit
<1>2. ASSUME NEW c \in Conns, Connect(c) PROVE Releases(b)
  BY <1>2, <1>t DEF Connect, DialFails, DialSucceeds, Establish, EstablishFails, StartRelay
<1>3. ASSUME NEW c \in Conns, Relay(c) \/ Intercept(c) \/ Peer(c) PROVE Releases(b)
  BY <1>3, <1>t DEF Relay, RelayEnds, BothRelaysDone, Intercept, HandshakeFails,
     ClientHandshake, UpstreamHandshake, Peer, PeerCloses
<1>4. ASSUME NEW c \in Conns, Serve(c) PROVE Releases(b)
  BY <1>4, <1>t DEF Serve, NextRequest, NoMoreRequests, RequestForwarded, ResponseHead,
     SwitchProtocols, StartRelay, ExchangeFails, ExchangeRaises, ResponseDelivered
<1>5. ASSUME NEW c \in Conns, CleanUp(c) PROVE Releases(b)
  BY <1>5, <1>t DEF CleanUp, CloseUpstream, SetUpstream, Leave, Release
<1>6. CASE LoadCA \/ UNCHANGED vars
  BY <1>6 DEF LoadCA, vars
<1>7. QED BY <1>1, <1>2, <1>3, <1>4, <1>5, <1>6 DEF Next, Step

-----------------------------------------------------------------------------
(* The invariant of every execution. *)
LEMMA SpecIInv == Spec => []IInv
<1>1. IInv /\ [Next]_vars => IInv'
  BY StepCounts, StepTypeOK, StepPolicy DEF IInv
<1>2. QED BY <1>1, InitIInv, PTL DEF Spec

(* Every variable of the connections keeps its type; no counter is ever     *)
(* negative.                                                               *)
THEOREM TypeCorrect == Spec => []TypeOK
BY SpecIInv, PTL DEF IInv

(* However a handler ends, the semaphore has its slot back: the slots in    *)
(* use and the free ones are max_connections.                              *)
THEOREM SlotsCorrect == Spec => []SlotsConserved
BY SpecIInv, PTL DEF IInv

(* active_connections is the number of handlers queued or at work.         *)
THEOREM ActiveCorrect == Spec => []ActiveCountsOpen
BY SpecIInv, PTL DEF IInv

(* A blocked host is never connected to, and a bypassed one never           *)
(* intercepted, whenever a CA is loaded.                                   *)
THEOREM PolicyCorrect == Spec => []PolicyIsObeyed
BY SpecIInv, PTL DEF IInv

(* A transaction is recorded at most once, and after it began.             *)
THEOREM RecordedCorrect == Spec => RecordedOnce
<1>1. Init => DueInv
  BY DEF Init, DueInv, DueOk, Pending, Fresh
<1>2. TypeOK /\ DueInv /\ [Next]_vars => DueInv'
  BY StepDue
<1>3. TypeOK /\ DueInv /\ [Next]_vars
      => [\A c \in Conns : OneRecord(c)]_vars
  BY StepDue
<1>4. QED BY <1>1, <1>2, <1>3, TypeCorrect, PTL DEF Spec, RecordedOnce, OneRecord

(* Every handler that reaches its clean-up closed its upstream, except when *)
(* its client vanished during the 200.                                     *)
THEOREM UpstreamCorrect == Spec => UpstreamReleased
<1>1. IInv /\ [Next]_vars => [\A c \in Conns : Releases(c)]_vars
  BY StepReleases
<1>2. QED BY <1>1, SpecIInv, PTL DEF Spec, UpstreamReleased, Releases
=============================================================================
