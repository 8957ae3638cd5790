--------------------------- MODULE TrafficProofs ----------------------------
(***************************************************************************)
(* Proofs about RateLimit.tla and LiveFeed.tla, for any number of arrivals *)
(* and sockets, any limit and any clock; and about the exchange, the flows,*)
(* the feed and the rate limit side by side, as MCTraffic checks them.     *)
(***************************************************************************)
EXTENDS MCTraffic, FlowStoreProofs, FramingProofs

(* The rate limit.                                                         *)

(* The instant a minute begins.                                            *)
Begins(k) == k * Minute

LEMMA MinuteFacts ==
    /\ \A k \in Int : Begins(k) \in Int /\ Begins(k + 1) = Begins(k) + Minute
    /\ Begins(0) = 0
    /\ \A j, k \in Int : j < k => Begins(j) + Minute <= Begins(k)
<1> Minute \in Nat \ {0}
  BY RateAssumption
<1>1. \A k \in Int : Begins(k) \in Int /\ Begins(k + 1) = Begins(k) + Minute
  BY DEF Begins
<1>2. Begins(0) = 0
  BY DEF Begins
<1>3. ASSUME NEW j \in Int, NEW k \in Int, j < k PROVE Begins(j) + Minute <= Begins(k)
  <2>1. (k - (j + 1)) * Minute >= 0
    BY <1>3
  <2>2. QED BY <2>1, <1>3 DEF Begins
<1>4. QED BY <1>1, <1>2, <1>3

LEMMA MinuteOfFacts ==
    ASSUME NEW t \in Int
    PROVE  /\ MinuteOf(t) \in Int
           /\ Begins(MinuteOf(t)) <= t /\ t < Begins(MinuteOf(t)) + Minute
BY RateAssumption DEF MinuteOf, Begins


LEMMA MinuteIs ==
    ASSUME NEW t \in Int, NEW k \in Int
    PROVE  MinuteOf(t) = k <=> t \in Begins(k) .. (Begins(k) + Minute - 1)
<1>1. MinuteOf(t) \in Int /\ Begins(MinuteOf(t)) <= t /\ t < Begins(MinuteOf(t)) + Minute
  BY MinuteOfFacts
<1>2. /\ MinuteOf(t) < k => Begins(MinuteOf(t)) + Minute <= Begins(k)
      /\ k < MinuteOf(t) => Begins(k) + Minute <= Begins(MinuteOf(t))
      /\ Begins(k) \in Int /\ Begins(MinuteOf(t)) \in Int
  BY <1>1, MinuteFacts
<1>3. QED BY <1>1, <1>2, RateAssumption

LEMMA LaterMinute ==
    ASSUME NEW s \in Int, NEW t \in Int, s <= t
    PROVE  /\ MinuteOf(s) <= MinuteOf(t)
           /\ t < s + Minute => MinuteOf(t) <= MinuteOf(s) + 1
           /\ 0 <= s => 0 <= MinuteOf(s)
           /\ s < 0 => MinuteOf(s) < 0
<1> DEFINE j == MinuteOf(s)
           k == MinuteOf(t)
<1>1. /\ j \in Int /\ Begins(j) <= s /\ s < Begins(j) + Minute
      /\ k \in Int /\ Begins(k) <= t /\ t < Begins(k) + Minute
  BY MinuteOfFacts
<1> HIDE DEF j, k
<1>2. /\ k < j => Begins(k) + Minute <= Begins(j)
      /\ j + 1 < k => Begins(j + 1) + Minute <= Begins(k)
      /\ Begins(j + 1) = Begins(j) + Minute
      /\ j < 0 => Begins(j) + Minute <= Begins(0)
      /\ 0 < j => Begins(0) + Minute <= Begins(j)
      /\ Begins(0) = 0 /\ Begins(j) \in Int /\ Begins(k) \in Int
  <2>1. j \in Int /\ k \in Int /\ j + 1 \in Int /\ 0 \in Int
    BY <1>1
  <2>2. QED BY <2>1, MinuteFacts
<1>3. /\ j <= k
      /\ t < s + Minute => k <= j + 1
      /\ 0 <= s => 0 <= j
      /\ s < 0 => j < 0
  BY <1>1, <1>2, RateAssumption
<1>4. QED BY <1>3 DEF j, k

(* The arrivals of a minute: those it has admitted, and those it counts.    *)
AdmittedIn(k) == {a \in Arrivals : outcome[a] = "admitted" /\ MinuteOf(arrived[a]) = k}
CountedIn(k) == {a \in Arrivals : outcome[a] \notin {"none", "asking"} /\ MinuteOf(arrived[a]) = k}
ArrivedIn(k) == {a \in Arrivals : MinuteOf(arrived[a]) = k}

(* Nobody waits for an answer longer than a minute.                         *)
AskingInv(a) == /\ arrived[a] <= clock
                /\ outcome[a] = "asking" => clock < arrived[a] + Minute

(* A counter goes two minutes after its minute began at the earliest: until *)
(* then it covers whoever was admitted, and afterwards nobody asks any more.*)
CounterInv(k) ==
    /\ count[k] <= Cardinality(CountedIn(k))
    /\ expiry[k] = 0 => AdmittedIn(k) = {}
    /\ expiry[k] # 0 => Begins(k) + 2 * Minute <= expiry[k]
    /\ k \notin forgotten =>
          /\ Cardinality(AdmittedIn(k)) <= PerMinute
          /\ Cardinality(AdmittedIn(k)) <= count[k] \/ Begins(k) + 2 * Minute <= clock

RefusedInv(a) ==
    outcome[a] = "refused" => Cardinality(ArrivedIn(MinuteOf(arrived[a])) \ {a}) >= PerMinute

RateInv == /\ RateTypeOK
           /\ \A a \in Arrivals : AskingInv(a) /\ RefusedInv(a)
           /\ \A k \in Minutes : CounterInv(k)

LEMMA MinuteSets ==
    ASSUME NEW k
    PROVE  /\ IsFiniteSet(AdmittedIn(k)) /\ IsFiniteSet(CountedIn(k)) /\ IsFiniteSet(ArrivedIn(k))
           /\ Cardinality(AdmittedIn(k)) \in Nat /\ Cardinality(CountedIn(k)) \in Nat
           /\ Cardinality(ArrivedIn(k)) \in Nat /\ Cardinality(Arrivals) \in Nat
           /\ Cardinality(CountedIn(k)) <= Cardinality(Arrivals)
<1>1. AdmittedIn(k) \subseteq Arrivals /\ CountedIn(k) \subseteq Arrivals /\ ArrivedIn(k) \subseteq Arrivals
  BY DEF AdmittedIn, CountedIn, ArrivedIn
<1>2. QED BY <1>1, ArrivalsAssumption, FS_Subset, FS_CardinalityType

(* An arrival is of a minute that has a counter.                            *)
LEMMA MinuteOfArrival ==
    ASSUME RateTypeOK, NEW a \in Arrivals, outcome[a] # "none"
    PROVE  MinuteOf(arrived[a]) \in Minutes /\ arrived[a] \in 0 .. LastTick
<1>1. arrived[a] \in 0 .. LastTick
  BY RateAssumption DEF RateTypeOK
<1>2. MinuteOf(arrived[a]) \in Int /\ MinuteOf(LastTick) \in Int
  BY <1>1, RateAssumption, MinuteOfFacts
<1>3. 0 <= MinuteOf(arrived[a]) /\ MinuteOf(arrived[a]) <= MinuteOf(LastTick)
  BY <1>1, RateAssumption, LaterMinute
<1>4. QED BY <1>1, <1>2, <1>3 DEF Minutes

LEMMA InitRate == RateInit => RateInv
<1> SUFFICES ASSUME RateInit PROVE RateInv
  OBVIOUS
<1>1. /\ clock = 0 /\ \A a \in Arrivals : arrived[a] = -1 /\ outcome[a] = "none"
      /\ \A k \in Minutes : count[k] = 0 /\ expiry[k] = 0
      /\ forgotten = {}
  BY DEF RateInit
<1>2. RateTypeOK
  BY RateAssumption, ArrivalsAssumption, FS_CardinalityType DEF RateInit, RateTypeOK
<1>3. \A k \in Minutes : AdmittedIn(k) = {}
  BY <1>1 DEF AdmittedIn
<1>4. Cardinality({}) = 0
  BY FS_EmptySet
<1>5. ASSUME NEW k \in Minutes PROVE CounterInv(k)
  <2>1. Cardinality(CountedIn(k)) \in Nat /\ Cardinality(AdmittedIn(k)) = 0
    BY <1>3, <1>4, MinuteSets
  <2>2. QED BY <1>1, <1>3, <2>1, RateAssumption DEF CounterInv
<1>6. QED BY <1>1, <1>2, <1>5 DEF RateInv, AskingInv, RefusedInv


(* The steps of a connection: it arrives.                                   *)
LEMMA ArriveStep == ASSUME RateInv, NEW a \in Arrivals, Arrive(a) PROVE RateInv'
<1>t. /\ RateTypeOK /\ outcome[a] = "none" /\ arrived[a] = -1 /\ clock \in 0 .. LastTick
      /\ outcome' = [outcome EXCEPT ![a] = "asking"] /\ arrived' = [arrived EXCEPT ![a] = clock]
      /\ UNCHANGED <<clock, count, expiry, forgotten>>
  BY DEF RateInv, RateTypeOK, Arrive
<1>1. \A b \in Arrivals : /\ outcome'[b] = IF b = a THEN "asking" ELSE outcome[b]
                          /\ arrived'[b] = IF b = a THEN clock ELSE arrived[b]
  BY <1>t DEF RateTypeOK
<1>2. RateTypeOK'
  BY <1>t, <1>1, RateAssumption DEF RateTypeOK
<1>3. \A k : AdmittedIn(k)' = AdmittedIn(k) /\ CountedIn(k)' = CountedIn(k)
  BY <1>t, <1>1 DEF AdmittedIn, CountedIn
<1>4. \A k \in Minutes : CounterInv(k)'
  BY <1>t, <1>3 DEF RateInv, CounterInv
<1>5. \A b \in Arrivals : AskingInv(b)'
  BY <1>t, <1>1, RateAssumption DEF RateInv, AskingInv, RateTypeOK
<1>6. ASSUME NEW b \in Arrivals PROVE RefusedInv(b)'
  <2>1. SUFFICES ASSUME outcome[b] = "refused", b # a PROVE RefusedInv(b)'
    BY <1>1 DEF RefusedInv
  <2> DEFINE k == MinuteOf(arrived[b])
  <2>2. arrived'[b] = arrived[b] /\ k \in Minutes
    BY <1>t, <1>1, <2>1, MinuteOfArrival
  <2>3. MinuteOf(-1) < 0
    BY LaterMinute, RateAssumption
  <2>4. a \notin ArrivedIn(k)
    BY <1>t, <2>2, <2>3, MinuteOfFacts, RateAssumption DEF ArrivedIn, Minutes
  <2>5. ArrivedIn(k) \ {b} \subseteq ArrivedIn(k)' \ {b}
    BY <1>1, <2>4 DEF ArrivedIn
  <2> DEFINE S == ArrivedIn(k) \ {b}
             T == ArrivedIn(k)' \ {b}
  <2>6. T \subseteq Arrivals
    BY DEF ArrivedIn
  <2>7. IsFiniteSet(T) /\ Cardinality(S) <= Cardinality(T) /\ Cardinality(S) \in Nat
        /\ Cardinality(T) \in Nat
    BY <2>5, <2>6, ArrivalsAssumption, FS_Subset, FS_CardinalityType
  <2>8. Cardinality(S) >= PerMinute
    BY <2>1 DEF RateInv, RefusedInv
  <2> HIDE DEF S, T
  <2>9. Cardinality(T) >= PerMinute
    BY <2>7, <2>8, RateAssumption
  <2>10. QED BY <2>2, <2>9 DEF RefusedInv, T
<1>7. QED BY <1>2, <1>4, <1>5, <1>6 DEF RateInv

(* The pipeline of an arrival is executed, or fails, after it has or has    *)
(* not increased the counter.                                              *)
LEMMA SettleStep == ASSUME RateInv, NEW a \in Arrivals, Execute(a) \/ FailOpen(a) PROVE RateInv'
<1>t. /\ RateTypeOK /\ outcome[a] = "asking" /\ clock \in 0 .. LastTick /\ clock \in Nat
      /\ UNCHANGED <<clock, arrived, forgotten>>
      /\ Minute \in Nat \ {0} /\ PerMinute \in Nat /\ LastTick \in Nat
  BY RateAssumption DEF RateInv, RateTypeOK, Execute, FailOpen
<1>0. MinuteOf(arrived[a]) \in Minutes /\ arrived[a] \in 0 .. LastTick
  BY <1>t, MinuteOfArrival
<1>a. PICK m \in Minutes : m = MinuteOf(arrived[a])
  BY <1>0
<1>b. arrived[a] \in Int /\ m \in Int
  BY <1>0, <1>t DEF Minutes
<1>m. /\ arrived[a] < Begins(m) + Minute /\ Begins(m) <= arrived[a] /\ Begins(m) \in Int
      /\ clock < arrived[a] + Minute /\ arrived[a] <= clock /\ arrived[a] \in Nat
  <2>1. arrived[a] < Begins(m) + Minute /\ Begins(m) <= arrived[a]
    BY <1>a, <1>b, MinuteOfFacts
  <2>2. Begins(m) \in Int
    BY <1>b, MinuteFacts
  <2>3. clock < arrived[a] + Minute /\ arrived[a] <= clock
    BY <1>t DEF RateInv, AskingInv
  <2>4. QED BY <1>0, <1>t, <2>1, <2>2, <2>3
<1>1. PICK o \in {"admitted", "refused", "open"} :
        /\ outcome' = [outcome EXCEPT ![a] = o]
        /\ \/ o = "open" /\ UNCHANGED <<count, expiry>>
           \/ /\ count' = [count EXCEPT ![m] = @ + 1]
              /\ expiry' = [expiry EXCEPT ![m] = Lifetime(clock)]
              /\ o = "admitted" => count[m] + 1 <= PerMinute
              /\ o = "refused" => count[m] + 1 > PerMinute
  <2>1. count[m] \in Nat
    BY <1>m, MinuteSets DEF RateInv, RateTypeOK
  <2>2. CASE FailOpen(a)
    BY <1>a, <2>2 DEF FailOpen
  <2>3. CASE Execute(a)
    <3> DEFINE o == IF count[m] + 1 > PerMinute THEN "refused" ELSE "admitted"
    <3>1. /\ outcome' = [outcome EXCEPT ![a] = o] /\ count' = [count EXCEPT ![m] = @ + 1]
          /\ expiry' = [expiry EXCEPT ![m] = Lifetime(clock)]
      BY <1>a, <2>3 DEF Execute
    <3>2. o \in {"admitted", "refused"} /\ (o = "admitted" => count[m] + 1 <= PerMinute)
          /\ (o = "refused" => count[m] + 1 > PerMinute)
      BY <1>t, <2>1
    <3> HIDE DEF o
    <3>3. QED BY <3>1, <3>2
  <2>4. QED BY <2>2, <2>3
<1>2. \A b \in Arrivals : outcome'[b] = IF b = a THEN o ELSE outcome[b]
  BY <1>t, <1>1 DEF RateTypeOK
<1>3. /\ \A k \in Minutes \ {m} : count'[k] = count[k] /\ expiry'[k] = expiry[k]
      /\ count[m] \in Nat /\ expiry[m] \in Nat
      /\ \/ o = "open" /\ count'[m] = count[m] /\ expiry'[m] = expiry[m]
         \/ /\ count'[m] = count[m] + 1 /\ expiry'[m] = clock + 2 * Minute
            /\ o = "admitted" => count[m] + 1 <= PerMinute
            /\ o = "refused" => count[m] + 1 > PerMinute
  BY <1>t, <1>m, <1>1, MinuteSets DEF RateTypeOK, Lifetime
<1>4. \A k \in Minutes \ {m} : AdmittedIn(k)' = AdmittedIn(k) /\ CountedIn(k)' = CountedIn(k)
  BY <1>t, <1>2, <1>a DEF AdmittedIn, CountedIn
<1>5. /\ CountedIn(m)' = CountedIn(m) \cup {a} /\ a \notin CountedIn(m)
      /\ AdmittedIn(m)' = IF o = "admitted" THEN AdmittedIn(m) \cup {a} ELSE AdmittedIn(m)
      /\ a \notin AdmittedIn(m)
  BY <1>t, <1>2, <1>a DEF AdmittedIn, CountedIn
<1>6. /\ Cardinality(CountedIn(m)') = Cardinality(CountedIn(m)) + 1
      /\ Cardinality(AdmittedIn(m)') = IF o = "admitted" THEN Cardinality(AdmittedIn(m)) + 1
                                       ELSE Cardinality(AdmittedIn(m))
      /\ Cardinality(CountedIn(m)) \in Nat /\ Cardinality(AdmittedIn(m)) \in Nat
  BY <1>5, MinuteSets, FS_AddElement
<1>7. CounterInv(m)
  BY <1>m DEF RateInv
<1>8. CounterInv(m)'
  <2>1. count'[m] <= Cardinality(CountedIn(m)')
    BY <1>3, <1>6, <1>7 DEF CounterInv
  <2>2. expiry'[m] = 0 => AdmittedIn(m)' = {}
    BY <1>t, <1>3, <1>5, <1>7 DEF CounterInv
  <2>3. expiry'[m] # 0 => Begins(m) + 2 * Minute <= expiry'[m]
    BY <1>t, <1>m, <1>3, <1>7 DEF CounterInv
  <2>4. m \notin forgotten => Cardinality(AdmittedIn(m)') <= PerMinute
                              /\ Cardinality(AdmittedIn(m)') <= count'[m]
    <3>1. m \notin forgotten => Cardinality(AdmittedIn(m)) <= PerMinute
                                /\ Cardinality(AdmittedIn(m)) <= count[m]
      BY <1>t, <1>m, <1>7 DEF CounterInv
    <3>2. QED BY <1>t, <1>3, <1>6, <3>1
  <2>5. QED BY <1>t, <2>1, <2>2, <2>3, <2>4 DEF CounterInv
<1>9. \A k \in Minutes : CounterInv(k)'
  <2>1. ASSUME NEW k \in Minutes \ {m} PROVE CounterInv(k)'
    <3>1. CounterInv(k)
      BY DEF RateInv
    <3>2. count'[k] = count[k] /\ expiry'[k] = expiry[k] /\ AdmittedIn(k)' = AdmittedIn(k)
          /\ CountedIn(k)' = CountedIn(k)
      BY <1>3, <1>4
    <3>3. QED BY <1>t, <3>1, <3>2 DEF CounterInv
  <2>2. QED BY <1>8, <2>1
<1>10. RateTypeOK'
  <2>1. count' \in [Minutes -> 0 .. Cardinality(Arrivals)]
    <3>1. DOMAIN count' = Minutes /\ count' = [k \in Minutes |-> count'[k]]
      BY <1>t, <1>1 DEF RateTypeOK
    <3>2. \A k \in Minutes \ {m} : count'[k] \in 0 .. Cardinality(Arrivals)
      BY <1>t, <1>3 DEF RateTypeOK
    <3>3. count'[m] <= Cardinality(CountedIn(m)') /\ count'[m] \in Nat
      BY <1>3, <1>8 DEF CounterInv
    <3>4. CountedIn(m)' \subseteq Arrivals
      BY DEF CountedIn
    <3>5. Cardinality(CountedIn(m)') <= Cardinality(Arrivals) /\ Cardinality(Arrivals) \in Nat
          /\ Cardinality(CountedIn(m)') \in Nat
      BY <3>4, ArrivalsAssumption, FS_Subset, FS_CardinalityType
    <3>6. count'[m] \in 0 .. Cardinality(Arrivals)
      BY <3>3, <3>5
    <3>7. QED BY <3>1, <3>2, <3>6
  <2>2. expiry' \in [Minutes -> Nat]
    BY <1>t, <1>1 DEF RateTypeOK, Lifetime
  <2>3. QED BY <1>t, <1>1, <1>2, <2>1, <2>2 DEF RateTypeOK
<1>11. ASSUME NEW b \in Arrivals PROVE AskingInv(b)' /\ RefusedInv(b)'
  <2>1. AskingInv(b)'
    BY <1>t, <1>2 DEF RateInv, AskingInv
  <2>3. CASE b # a
    <3>1. outcome'[b] = outcome[b] /\ arrived' = arrived /\ RefusedInv(b)
      BY <1>t, <1>2, <2>3 DEF RateInv
    <3>2. ArrivedIn(MinuteOf(arrived[b]))' = ArrivedIn(MinuteOf(arrived[b]))
      BY <3>1 DEF ArrivedIn
    <3>3. QED BY <2>1, <3>1, <3>2 DEF RefusedInv
  <2>4. CASE b = a /\ o = "refused"
    <3>1. PerMinute <= Cardinality(CountedIn(m))
      BY <1>t, <1>3, <1>6, <1>7, <2>4 DEF CounterInv
    <3>2. CountedIn(m) \subseteq ArrivedIn(m) \ {a}
      BY <1>5 DEF CountedIn, ArrivedIn
    <3>3. ArrivedIn(m) \ {a} \subseteq Arrivals
      BY DEF ArrivedIn
    <3>4. Cardinality(CountedIn(m)) <= Cardinality(ArrivedIn(m) \ {a})
          /\ Cardinality(ArrivedIn(m) \ {a}) \in Nat
      BY <3>2, <3>3, ArrivalsAssumption, FS_Subset, FS_CardinalityType
    <3>5. Cardinality(ArrivedIn(m) \ {a}) >= PerMinute
      BY <1>t, <1>6, <3>1, <3>4
    <3>6. ArrivedIn(MinuteOf(arrived[b]))' = ArrivedIn(m) /\ arrived' = arrived
      BY <1>t, <1>a, <2>4 DEF ArrivedIn
    <3>7. QED BY <2>1, <2>4, <3>5, <3>6 DEF RefusedInv
  <2>5. CASE b = a /\ o # "refused"
    BY <1>2, <2>1, <2>5 DEF RefusedInv
  <2>6. QED BY <2>1, <2>3, <2>4, <2>5
<1>12. QED BY <1>9, <1>10, <1>11 DEF RateInv


(* Time passes: a counter whose time has come covered nobody, or only        *)
(* arrivals of a minute that nobody asks for any more.                      *)
LEMMA ClockStep == ASSUME RateInv, ClockTicks PROVE RateInv'
<1>t. /\ RateTypeOK /\ clock \in 0 .. LastTick /\ clock < LastTick /\ clock' = clock + 1
      /\ UNCHANGED <<arrived, outcome, expiry, forgotten>>
      /\ count' = [k \in Minutes |-> IF expiry[k] <= clock' THEN 0 ELSE count[k]]
      /\ Minute \in Nat \ {0} /\ PerMinute \in Nat /\ LastTick \in Nat
  BY RateAssumption DEF RateInv, RateTypeOK, ClockTicks
<1>1. ASSUME NEW k \in Minutes
      PROVE  /\ count'[k] \in 0 .. Cardinality(Arrivals)
             /\ CounterInv(k)'
  <2>1. /\ count'[k] = (IF expiry[k] <= clock' THEN 0 ELSE count[k]) /\ expiry'[k] = expiry[k]
        /\ count[k] \in 0 .. Cardinality(Arrivals) /\ expiry[k] \in Nat
        /\ Cardinality(Arrivals) \in Nat
    BY <1>t, MinuteSets DEF RateTypeOK
  <2>2. AdmittedIn(k)' = AdmittedIn(k) /\ CountedIn(k)' = CountedIn(k)
    BY <1>t DEF AdmittedIn, CountedIn
  <2>3. /\ Cardinality(AdmittedIn(k)) \in Nat /\ Cardinality(CountedIn(k)) \in Nat
        /\ AdmittedIn(k) = {} => Cardinality(AdmittedIn(k)) = 0
        /\ k \in Int /\ Begins(k) \in Int
    BY MinuteSets, MinuteFacts, FS_EmptySet DEF Minutes
  <2>4. CounterInv(k)
    BY DEF RateInv
  <2>5. count'[k] <= Cardinality(CountedIn(k))
    BY <2>1, <2>3, <2>4 DEF CounterInv
  <2>6. k \notin forgotten =>
          Cardinality(AdmittedIn(k)) <= count'[k] \/ Begins(k) + 2 * Minute <= clock'
    BY <1>t, <2>1, <2>3, <2>4 DEF CounterInv
  <2>7. CounterInv(k)'
    BY <1>t, <2>1, <2>2, <2>4, <2>5, <2>6 DEF CounterInv
  <2>8. QED BY <2>1, <2>7
<1>2. RateTypeOK'
  BY <1>t, <1>1 DEF RateTypeOK
<1>3. ASSUME NEW a \in Arrivals PROVE AskingInv(a)' /\ RefusedInv(a)'
  <2>1. AskingInv(a)'
    BY <1>t DEF RateInv, AskingInv, ClockTicks, RateTypeOK
  <2>2. RefusedInv(a)'
    BY <1>t DEF RateInv, RefusedInv, ArrivedIn
  <2>3. QED BY <2>1, <2>2
<1>4. QED BY <1>1, <1>2, <1>3 DEF RateInv

(* Redis loses its counters.                                                *)
LEMMA ForgetStep == ASSUME RateInv, Forget PROVE RateInv'
<1>t. /\ RateTypeOK /\ UNCHANGED <<clock, arrived, outcome, expiry>>
      /\ count' = [k \in Minutes |-> 0]
      /\ forgotten' = forgotten \cup {k \in Minutes : count[k] > 0}
  BY DEF RateInv, Forget
<1>1. RateTypeOK'
  BY <1>t, ArrivalsAssumption, FS_CardinalityType DEF RateTypeOK
<1>2. ASSUME NEW k \in Minutes PROVE CounterInv(k)'
  <2>1. AdmittedIn(k)' = AdmittedIn(k) /\ CountedIn(k)' = CountedIn(k) /\ CounterInv(k)
    BY <1>t DEF RateInv, AdmittedIn, CountedIn
  <2>2. count'[k] = 0 /\ Cardinality(CountedIn(k)) \in Nat
    BY <1>t, MinuteSets
  <2>3. k \notin forgotten' => k \notin forgotten /\ count[k] = 0
    BY <1>t, MinuteSets DEF RateTypeOK
  <2>4. QED BY <1>t, <2>1, <2>2, <2>3 DEF CounterInv
<1>3. \A a \in Arrivals : AskingInv(a)' /\ RefusedInv(a)'
  BY <1>t DEF RateInv, AskingInv, RefusedInv, ArrivedIn
<1>4. QED BY <1>1, <1>2, <1>3 DEF RateInv

LEMMA StepRate == RateInv /\ [RateNext]_rateVars => RateInv'
<1> SUFFICES ASSUME RateInv, [RateNext]_rateVars PROVE RateInv'
  OBVIOUS
<1>1. CASE UNCHANGED rateVars
  BY <1>1 DEF rateVars, RateInv, RateTypeOK, AskingInv, RefusedInv, CounterInv, AdmittedIn,
              CountedIn, ArrivedIn
<1>2. QED BY <1>1, ArriveStep, SettleStep, ClockStep, ForgetStep DEF RateNext

LEMMA RateInvariance == RateSpec => []RateInv
<1>1. QED BY InitRate, StepRate, PTL DEF RateSpec

(* The counters stay within the arrivals, and every variable has its type,  *)
(* for any number of arrivals over any number of minutes                   *)
(* (ProxyServer._rate_limited).                                            *)
THEOREM RateTypeCorrect == RateSpec => []RateTypeOK
<1>1. RateInv => RateTypeOK
  BY DEF RateInv
<1>2. QED BY <1>1, RateInvariance, PTL

LEMMA RateInvBounds == RateInv => RateBound
<1> SUFFICES ASSUME RateInv PROVE RateBound
  OBVIOUS
<1>t. /\ RateTypeOK /\ Minute \in Nat \ {0} /\ PerMinute \in Nat /\ LastTick \in Nat
  BY RateAssumption DEF RateInv
<1>1. ASSUME NEW k \in Minutes \ forgotten
      PROVE  Cardinality(Admitted(k * Minute)) <= PerMinute
  <2>1. k \in Int
    BY DEF Minutes
  <2>2. ASSUME NEW a \in Arrivals
        PROVE  MinuteOf(arrived[a]) = k <=> arrived[a] \in Begins(k) .. (Begins(k) + Minute - 1)
    <3>1. arrived[a] \in Int
      BY <1>t DEF RateTypeOK
    <3>2. QED BY <2>1, <3>1, MinuteIs
  <2>3. Admitted(k * Minute) = AdmittedIn(k)
    BY <2>2 DEF Admitted, AdmittedIn, Begins
  <2>4. QED BY <2>3 DEF RateInv, CounterInv
<1>2. ASSUME NEW t \in 0 .. LastTick,
             {MinuteOf(t), MinuteOf(t + Minute - 1)} \cap forgotten = {}
      PROVE  Cardinality(Admitted(t)) <= 2 * PerMinute
  <2> DEFINE j == MinuteOf(t)
             k == MinuteOf(t + Minute - 1)
  <2>1. ASSUME NEW i, i \notin forgotten
        PROVE  Cardinality(AdmittedIn(i)) <= PerMinute /\ Cardinality(AdmittedIn(i)) \in Nat
               /\ IsFiniteSet(AdmittedIn(i))
    <3>1. CASE i \in Minutes
      BY <2>1, <3>1, MinuteSets DEF RateInv, CounterInv
    <3>2. CASE i \notin Minutes
      <4>1. AdmittedIn(i) = {}
        BY <1>t, <3>2, MinuteOfArrival DEF AdmittedIn
      <4>2. QED BY <1>t, <4>1, FS_EmptySet
    <3>3. QED BY <3>1, <3>2
  <2>2. ASSUME NEW a \in Arrivals, arrived[a] \in t .. (t + Minute - 1)
        PROVE  MinuteOf(arrived[a]) \in {j, k}
    <3>1. /\ t \in Int /\ t + Minute - 1 \in Int /\ arrived[a] \in Int
          /\ t <= arrived[a] /\ arrived[a] <= t + Minute - 1
          /\ t <= t + Minute - 1 /\ t + Minute - 1 < t + Minute
      BY <1>t, <2>2
    <3>2. j <= MinuteOf(arrived[a]) /\ MinuteOf(arrived[a]) <= k /\ k <= j + 1
      BY <3>1, LaterMinute
    <3>3. j \in Int /\ k \in Int /\ MinuteOf(arrived[a]) \in Int
      BY <3>1, MinuteOfFacts
    <3> HIDE DEF j, k
    <3>4. QED BY <3>2, <3>3
  <2>3. Admitted(t) \subseteq AdmittedIn(j) \cup AdmittedIn(k)
    BY <2>2 DEF Admitted, AdmittedIn
  <2> DEFINE S == AdmittedIn(j)
             T == AdmittedIn(k)
  <2>4. /\ Cardinality(S) <= PerMinute /\ Cardinality(S) \in Nat /\ IsFiniteSet(S)
        /\ Cardinality(T) <= PerMinute /\ Cardinality(T) \in Nat /\ IsFiniteSet(T)
    BY <1>2, <2>1
  <2>5. Admitted(t) \subseteq S \cup T
    BY <2>3
  <2> HIDE DEF S, T
  <2>6. /\ IsFiniteSet(S \cup T) /\ IsFiniteSet(S \cap T)
        /\ Cardinality(S \cup T) = Cardinality(S) + Cardinality(T) - Cardinality(S \cap T)
    BY <2>4, FS_Union, FS_Intersection
  <2>7. /\ Cardinality(S \cap T) \in Nat /\ Cardinality(S \cup T) \in Nat
        /\ Cardinality(Admitted(t)) <= Cardinality(S \cup T) /\ Cardinality(Admitted(t)) \in Nat
    BY <2>5, <2>6, FS_Subset, FS_CardinalityType
  <2>8. QED BY <1>t, <2>4, <2>6, <2>7
<1>3. ASSUME NEW a \in Arrivals, outcome[a] = "refused"
      PROVE  Cardinality({b \in Arrivals \ {a} : MinuteOf(arrived[b]) = MinuteOf(arrived[a])})
                >= PerMinute
  <2>1. {b \in Arrivals \ {a} : MinuteOf(arrived[b]) = MinuteOf(arrived[a])}
          = ArrivedIn(MinuteOf(arrived[a])) \ {a}
    BY DEF ArrivedIn
  <2>2. QED BY <1>3, <2>1 DEF RateInv, RefusedInv
<1>4. QED BY <1>1, <1>2, <1>3 DEF RateBound

(* Whatever the limit: Redis admits at most the limit of the arrivals of a  *)
(* clock minute, and so twice the limit of any 60 seconds, unless it has   *)
(* lost its counters; and it refuses only when the limit has arrived.      *)
THEOREM RateCorrect == RateSpec => []RateBound
<1>1. QED BY RateInvBounds, RateInvariance, PTL


-----------------------------------------------------------------------------
(* The live feed.                                                          *)

(* A handler that has ended holds nothing, but for the three leaks: the     *)
(* browser was gone before "ready", or Redis was away at the subscription   *)
(* or at the clean-up.                                                      *)
Released(w) == feed[w] = "ended" => /\ w \in subs => w \in hasty
                                    /\ w \in held => w \in hasty \cup cut
EndedIsReleased == \A w \in Sockets : Released(w)

(* Nothing is held before the subscription, and only while the handler      *)
(* serves or cleans up does its pump run and may the library subscribe again.*)
SocketInv(w) == /\ feed[w] \in {"closed", "accepted", "quiet"} => w \notin held
                /\ feed[w] = "leaving" => w \in gone
                /\ pump[w] = "running" => feed[w] \in {"serving", "leaving"}
                /\ Released(w)

FeedInv == FeedTypeOK /\ \A w \in Sockets : SocketInv(w)

LEMMA InitFeed == FeedInit => FeedInv
BY DEF FeedInit, FeedInv, FeedTypeOK, SocketInv, Released, Places

(* What one socket's handler does leaves the other sockets alone.           *)
LEMMA SocketStep ==
    ASSUME FeedInv, NEW w \in Sockets,
           Opening(w) \/ PumpDies(w) \/ Closing(w) \/ Leave(w) \/ Drop(w) \/ Resume(w)
    PROVE  FeedInv'
<1>t. /\ redis \in BOOLEAN /\ feed \in [Sockets -> Places] /\ gone \subseteq Sockets
      /\ pump \in [Sockets -> {"none", "running", "dead"}]
      /\ hasty \subseteq gone /\ cut \subseteq Sockets /\ subs \subseteq held /\ held \subseteq Sockets
      /\ SocketInv(w)
  BY DEF FeedInv, FeedTypeOK
<1> USE DEF Goto, link
<1>1. /\ redis' = redis
      /\ \A v \in Sockets \ {w} :
            /\ feed'[v] = feed[v] /\ pump'[v] = pump[v]
            /\ v \in gone <=> v \in gone'
            /\ v \in hasty <=> v \in hasty'
            /\ v \in cut <=> v \in cut'
            /\ v \in subs <=> v \in subs'
            /\ v \in held <=> v \in held'
  BY <1>t DEF Opening, Closing, Handshake, Warn, Subscribe, SendReady, PumpDies, QuietEnds,
              Disconnect, CleanUp, Leave, Drop, Resume
<1>2. FeedTypeOK' /\ SocketInv(w)'
  <2>1. CASE Handshake(w)
    BY <1>t, <2>1 DEF Handshake, FeedTypeOK, SocketInv, Released, Places
  <2>2. CASE Warn(w)
    BY <1>t, <2>2 DEF Warn, FeedTypeOK, SocketInv, Released, Places
  <2>3. CASE Subscribe(w)
    BY <1>t, <2>3 DEF Subscribe, FeedTypeOK, SocketInv, Released, Places
  <2>4. CASE SendReady(w)
    BY <1>t, <2>4 DEF SendReady, FeedTypeOK, SocketInv, Released, Places
  <2>5. CASE PumpDies(w)
    BY <1>t, <2>5 DEF PumpDies, FeedTypeOK, SocketInv, Released, Places
  <2>6. CASE QuietEnds(w)
    BY <1>t, <2>6 DEF QuietEnds, FeedTypeOK, SocketInv, Released, Places
  <2>7. CASE Disconnect(w)
    BY <1>t, <2>7 DEF Disconnect, FeedTypeOK, SocketInv, Released, Places
  <2>8. CASE CleanUp(w)
    BY <1>t, <2>8 DEF CleanUp, FeedTypeOK, SocketInv, Released, Places
  <2>9. CASE Leave(w) \/ Drop(w) \/ Resume(w)
    BY <1>t, <2>9 DEF Leave, Drop, Resume, FeedTypeOK, SocketInv, Released, Places
  <2>10. QED BY <2>1, <2>2, <2>3, <2>4, <2>5, <2>6, <2>7, <2>8, <2>9 DEF Opening, Closing
<1>3. ASSUME NEW v \in Sockets \ {w} PROVE SocketInv(v)'
  BY <1>1 DEF FeedInv, SocketInv, Released
<1>4. QED BY <1>2, <1>3 DEF FeedInv

LEMMA StepFeed == FeedInv /\ [FeedNext]_feedVars => FeedInv'
<1> SUFFICES ASSUME FeedInv, [FeedNext]_feedVars PROVE FeedInv'
  OBVIOUS
<1>1. CASE UNCHANGED feedVars
  BY <1>1 DEF feedVars, link, FeedInv, FeedTypeOK, SocketInv, Released
<1>2. QED BY <1>1, SocketStep DEF FeedNext

LEMMA FeedInvariance == FeedSpec => []FeedInv
<1>1. QED BY InitFeed, StepFeed, PTL DEF FeedSpec

(* For any number of sockets, only a socket that holds a connection has a   *)
(* subscription, and every variable has its type (stream.py).              *)
THEOREM FeedTypeCorrect == FeedSpec => []FeedTypeOK
<1>1. FeedInv => FeedTypeOK
  BY DEF FeedInv
<1>2. QED BY <1>1, FeedInvariance, PTL

(* However browsers, Redis and the pumps come and go, a handler of          *)
(* stream_flows that has ended leaves no subscription and no connection of *)
(* the pool behind but in the three cases the code does leak: the safety    *)
(* half of FeedsAreReleased.                                               *)
THEOREM ReleasedCorrect == FeedSpec => []EndedIsReleased
<1>1. FeedInv => EndedIsReleased
  BY DEF FeedInv, SocketInv, EndedIsReleased
<1>2. QED BY <1>1, FeedInvariance, PTL

-----------------------------------------------------------------------------
(* Side by side: each part goes on as if the others were not there, so that *)
(* whatever is proved of one holds of the instance that is checked.        *)
LEMMA TrafficIsIndependent == MCSpec => FlowSpec /\ StoreSpec /\ FeedSpec /\ RateSpec
<1>1. MCInit => FlowInit /\ StoreInit /\ FeedInit /\ RateInit
  BY DEF MCInit
<1>2. [MCNext]_everything =>
        [FlowNext]_flowVars /\ [StoreNext]_storeVars /\ [FeedNext]_feedVars /\ [RateNext]_rateVars
  BY DEF MCNext, InExchange, InFlows, InFeed, InRate, everything
<1>3. QED BY <1>1, <1>2, PTL DEF MCSpec, FlowSpec, StoreSpec, FeedSpec, RateSpec

(* Whatever passes: streams, rows, feeds and counters are of their types,   *)
(* for every set of messages, flows, sockets and arrivals.                 *)
THEOREM TypesCorrect == MCSpec => []Types
<1>1. FlowTypeOK /\ StoreTypeOK /\ FeedTypeOK /\ RateTypeOK <=> Types
  BY DEF Types
<1>2. QED BY <1>1, TrafficIsIndependent, FlowTypesCorrect, StoreTypeCorrect, FeedTypeCorrect,
             RateTypeCorrect, PTL
=============================================================================
