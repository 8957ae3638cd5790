----------------------------- MODULE RateLimit -----------------------------
(***************************************************************************)
(* The rate limit of one client address (ProxyServer._rate_limited): a     *)
(* counter per minute in Redis that all proxies share, and that fails      *)
(* open.  The minute is that of the arrival; the pipeline of INCR and      *)
(* EXPIRE is executed later, at once, or not at all.                       *)
(***************************************************************************)
EXTENDS Integers, FiniteSets

CONSTANTS Arrivals,  \* connections of the client, over all proxies
          Minute,    \* instants in the 60 seconds of a counter, at least 1
          PerMinute, \* rate_limit_per_minute
          LastTick   \* bound: the clock

ASSUME ArrivalsAssumption == IsFiniteSet(Arrivals)
ASSUME RateAssumption == Minute \in Nat \ {0} /\ PerMinute \in Nat /\ LastTick \in Nat

VARIABLES clock,    \* the clock
          arrived,  \* per arrival: when it arrived; -1 before
          outcome,  \* per arrival: "none", "asking", "admitted", "refused" or "open"
          count,    \* per minute: its counter in Redis; 0 when there is none
          expiry,   \* per minute: when the counter goes
          forgotten \* (history) minutes whose counter a restart of Redis lost

rateVars == <<clock, arrived, outcome, count, expiry, forgotten>>

MinuteOf(t) == t \div Minute
Minutes == 0..MinuteOf(LastTick)

RateInit == /\ clock = 0
            /\ arrived = [a \in Arrivals |-> -1]
            /\ outcome = [a \in Arrivals |-> "none"]
            /\ count = [k \in Minutes |-> 0]
            /\ expiry = [k \in Minutes |-> 0]
            /\ forgotten = {}

-----------------------------------------------------------------------------
(* The key is computed from the clock, and the pipeline is sent. *)
Arrive(a) == /\ outcome[a] = "none"
             /\ arrived' = [arrived EXCEPT ![a] = clock]
             /\ outcome' = [outcome EXCEPT ![a] = "asking"]
             /\ UNCHANGED <<clock, count, expiry, forgotten>>

\* Mutant of Lifetime: the counter lives as long as the minute.
LifetimeOneMinute(t) == t + Minute

(* EXPIRE key 120 *)
Lifetime(t) == t + 2 * Minute

(* MULTI, INCR, EXPIRE, EXEC: the counter that is read is the one it leaves. *)
Execute(a) ==
    LET k == MinuteOf(arrived[a])
    IN  /\ outcome[a] = "asking"
        /\ count' = [count EXCEPT ![k] = @ + 1]
        /\ expiry' = [expiry EXCEPT ![k] = Lifetime(clock)]
        /\ outcome' = [outcome EXCEPT ![a] = IF count[k] + 1 > PerMinute THEN "refused"
                                             ELSE "admitted"]
        /\ UNCHANGED <<clock, arrived, forgotten>>

(* Any error lets the client pass; the counter may have been increased.     *)
FailOpen(a) ==
    LET k == MinuteOf(arrived[a])
    IN  /\ outcome[a] = "asking"
        /\ outcome' = [outcome EXCEPT ![a] = "open"]
        /\ \/ UNCHANGED <<count, expiry>>
           \/ /\ count' = [count EXCEPT ![k] = @ + 1]
              /\ expiry' = [expiry EXCEPT ![k] = Lifetime(clock)]
        /\ UNCHANGED <<clock, arrived, forgotten>>

(* External: time passes, a pipeline is executed or fails within a minute,  *)
(* and a counter goes when its time has come.                              *)
ClockTicks ==
    /\ clock < LastTick
    /\ \A a \in Arrivals : outcome[a] = "asking" => clock + 1 < arrived[a] + Minute
    /\ clock' = clock + 1
    /\ count' = [k \in Minutes |-> IF expiry[k] <= clock' THEN 0 ELSE count[k]]
    /\ UNCHANGED <<arrived, outcome, expiry, forgotten>>

(* External: Redis restarts without its data. *)
Forget == /\ \E k \in Minutes : count[k] > 0
          /\ forgotten' = forgotten \cup {k \in Minutes : count[k] > 0}
          /\ count' = [k \in Minutes |-> 0]
          /\ UNCHANGED <<clock, arrived, outcome, expiry>>

RateNext == ClockTicks \/ Forget \/ \E a \in Arrivals : Arrive(a) \/ Execute(a) \/ FailOpen(a)

RateSpec == RateInit /\ [][RateNext]_rateVars

-----------------------------------------------------------------------------
(* Every variable has its type. *)
RateTypeOK == /\ clock \in 0..LastTick
              /\ arrived \in [Arrivals -> -1..LastTick]
              /\ \A a \in Arrivals : outcome[a] = "none" <=> arrived[a] = -1
              /\ outcome \in [Arrivals -> {"none", "asking", "admitted", "refused", "open"}]
              /\ count \in [Minutes -> 0..Cardinality(Arrivals)]
              /\ expiry \in [Minutes -> Nat]
              /\ forgotten \subseteq Minutes

Admitted(from) ==
    {a \in Arrivals : outcome[a] = "admitted" /\ arrived[a] \in from..(from + Minute - 1)}

(* Of the arrivals of a clock minute Redis admits the limit at most, and of *)
(* any 60 seconds twice the limit, although arrivals are counted late and  *)
(* the counter expires meanwhile; only a Redis that loses its counters     *)
(* admits more.  It refuses only when the limit has arrived.               *)
RateBound ==
    /\ \A k \in Minutes \ forgotten : Cardinality(Admitted(k * Minute)) <= PerMinute
    /\ \A t \in 0..LastTick :
          \/ Cardinality(Admitted(t)) <= 2 * PerMinute
          \/ {MinuteOf(t), MinuteOf(t + Minute - 1)} \cap forgotten # {}
    /\ \A a \in Arrivals : outcome[a] = "refused" =>
          Cardinality({b \in Arrivals \ {a} : MinuteOf(arrived[b]) = MinuteOf(arrived[a])})
             >= PerMinute
=============================================================================
