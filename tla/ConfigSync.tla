------------------------------ MODULE ConfigSync ------------------------------
(***************************************************************************)
(* How one proxy replica keeps its policy snapshot and its CA in step with *)
(* the control plane: the start-up loop of services/proxy/decrypt0rx_proxy/ *)
(* main.py, the timer (_sync_loop) and the Redis listener                  *)
(* (_config_listener) that both call PolicyEngine.refresh and              *)
(* CertificateAuthorityProvider.load, the cache of forged contexts, and    *)
(* the API that commits a change first and announces it afterwards.        *)
(*                                                                         *)
(* The two tasks interleave at every await: what one has read from the     *)
(* database it may install after the other has installed something newer.  *)
(* A rule set is its version, the number of the commit that produced it.   *)
(* PolicyEngine.version, a counter for the dashboard, is left out.         *)
(***************************************************************************)
EXTENDS Integers, Sequences, FiniteSets

CONSTANTS CAs,          \* the authorities the database can hold
          Readable,     \* those whose key this node's master key decrypts
          NoCA,         \* no authority
          Hosts,        \* host names clients ask for
          CacheSize,    \* cert_cache_size
          MaxAttempts,  \* attempts of the start-up loop (30 in the code)
          MaxWrites,    \* bound: changes made through the API
          MaxRestarts   \* bound: restarts of the container

ASSUME CAAssumption == NoCA \notin CAs /\ Readable \subseteq CAs
ASSUME SizeAssumption == CacheSize \in Nat \ {0} /\ MaxAttempts \in Nat \ {0}
ASSUME BoundAssumption == MaxWrites \in Nat /\ MaxRestarts \in Nat

VARIABLES proc,       \* the process: "starting", "serving" or "exited"
          attempts,   \* failed attempts of the start-up loop
          restarts,   \* restarts so far
          at,         \* where each task is suspended
          held,       \* what a task has read and not yet installed
          rules,      \* PolicyEngine._rules
          ca,         \* the authority _forge was built from
          contexts,   \* _contexts, least recently used first
          inbox,      \* announcements buffered on the subscription
          dbUp,       \* the database answers
          dbRules,    \* the committed rule set
          dbCA,       \* the committed active authority
          announcing, \* commits whose announcement is still to be published
          writes      \* changes made so far

snapshot == <<rules, ca, contexts>>
process  == <<proc, attempts, restarts>>
tasks    == <<at, held>>
database == <<dbUp, dbRules, dbCA, announcing, writes>>
vars == <<process, tasks, snapshot, inbox, database>>

Tasks == {"sync", "listener"}   \* the start-up loop is "sync" before it serves
Versions == 0 .. MaxWrites + 1
NoRules == 0                    \* the empty list the engine is created with
Leaf == [host : Hosts, ca : CAs]

Refreshing == {"readRules", "installRules", "readCA", "installCA"}
Subscribed == {"listen"} \cup Refreshing
Goto(t, label) == at' = [at EXCEPT ![t] = label]
Hold(t, value) == held' = [held EXCEPT ![t] = value]

Blank == /\ rules = NoRules /\ ca = NoCA /\ contexts = <<>>

Init == /\ proc = "starting" /\ attempts = 0 /\ restarts = 0
        /\ at = [t \in Tasks |-> IF t = "sync" THEN "readRules" ELSE "off"]
        /\ held = [t \in Tasks |-> NoRules]
        /\ Blank
        /\ inbox = 0
        /\ dbUp \in BOOLEAN
        /\ dbRules = 1
        /\ dbCA \in CAs \cup {NoCA}
        /\ announcing = 0 /\ writes = 0

-----------------------------------------------------------------------------
(* PolicyEngine.refresh, then CertificateAuthorityProvider.load *)

Running(t) == proc # "exited" /\ (t = "sync" \/ proc = "serving")

ReadRules(t) == /\ Running(t) /\ at[t] = "readRules" /\ dbUp
                /\ Hold(t, dbRules)
                /\ Goto(t, "installRules")
                /\ UNCHANGED <<process, snapshot, inbox, database>>

InstallRules(t) == /\ Running(t) /\ at[t] = "installRules"
                   /\ rules' = held[t]
                   /\ Goto(t, "readCA")
                   /\ UNCHANGED <<process, held, ca, contexts, inbox, database>>

ReadCA(t) == /\ Running(t) /\ at[t] = "readCA" /\ dbUp
             /\ Hold(t, dbCA)
             /\ Goto(t, "installCA")
             /\ UNCHANGED <<process, snapshot, inbox, database>>

(* The start-up attempt that succeeds spawns the tasks; the listener       *)
(* returns at once when Redis did not answer the start-up ping.            *)
Finish(t) == IF proc = "starting"
             THEN /\ proc' = "serving"
                  /\ \E l \in {"off", "subscribe"} :
                        at' = [sync |-> "readRules", listener |-> l]
             ELSE /\ Goto(t, IF t = "sync" THEN "sleep" ELSE "listen")
                  /\ UNCHANGED proc

\* Mutant of InstallCA: a deactivated authority is unloaded.
InstallCAOrNone(t) == /\ Running(t) /\ at[t] = "installCA"
                      /\ held[t] \in Readable \cup {NoCA}
                      /\ ca' = held[t]
                      /\ contexts' = IF held[t] = ca THEN contexts ELSE <<>>
                      /\ Finish(t)
                      /\ UNCHANGED <<attempts, restarts, held, rules, inbox, database>>

\* Mutant of InstallCA: the contexts forged under the old authority stay.
InstallCAKeepsLeaves(t) == /\ Running(t) /\ at[t] = "installCA"
                           /\ held[t] \in Readable \cup {NoCA}
                           /\ ca' = IF held[t] = NoCA THEN ca ELSE held[t]
                           /\ Finish(t)
                           /\ UNCHANGED <<attempts, restarts, held, rules, contexts,
                                          inbox, database>>

(* No active authority keeps the loaded one; a new one empties the cache. *)
InstallCA(t) == /\ Running(t) /\ at[t] = "installCA"
                /\ held[t] \in Readable \cup {NoCA}
                /\ IF held[t] \in {NoCA, ca}
                   THEN UNCHANGED <<ca, contexts>>
                   ELSE ca' = held[t] /\ contexts' = <<>>
                /\ Finish(t)
                /\ UNCHANGED <<attempts, restarts, held, rules, inbox, database>>

\* Mutant of Raise: the exception escapes the timer's loop as well.
RaiseEndsTimer(t) == IF proc = "starting"
                     THEN proc' = "exited" /\ UNCHANGED <<attempts, restarts, at, inbox>>
                     ELSE /\ Goto(t, IF t = "sync" THEN "off" ELSE "pause")
                          /\ inbox' = IF t = "listener" THEN 0 ELSE inbox
                          /\ UNCHANGED process

(* Any other exception than the database's ends the start-up, is logged by *)
(* the timer, and makes the listener drop its subscription.                *)
Raise(t) == IF proc = "starting"
            THEN proc' = "exited" /\ UNCHANGED <<attempts, restarts, at, inbox>>
            ELSE /\ Goto(t, IF t = "sync" THEN "sleep" ELSE "pause")
                 /\ inbox' = IF t = "listener" THEN 0 ELSE inbox
                 /\ UNCHANGED process

CAUnreadable(t) == /\ Running(t) /\ at[t] = "installCA"
                   /\ held[t] \notin Readable \cup {NoCA}
                   /\ Raise(t)
                   /\ UNCHANGED <<held, snapshot, database>>

\* Mutant of DatabaseError: the process serves when its attempts run out.
DatabaseErrorServes(t) ==
    IF proc = "starting"
    THEN /\ attempts' = attempts + 1
         /\ proc' = IF attempts + 1 = MaxAttempts THEN "serving" ELSE proc
         /\ at' = [at EXCEPT !["sync"] = "readRules"]
         /\ UNCHANGED <<restarts, inbox>>
    ELSE Raise(t)

\* Mutant of DatabaseError: the start-up loop has no limit.
DatabaseErrorForever(t) ==
    IF proc = "starting"
    THEN at' = [at EXCEPT !["sync"] = "readRules"] /\ UNCHANGED <<process, inbox>>
    ELSE Raise(t)

(* SQLAlchemyError: the start-up loop tries again, up to MaxAttempts times. *)
DatabaseError(t) ==
    IF proc = "starting"
    THEN /\ attempts' = attempts + 1
         /\ proc' = IF attempts + 1 = MaxAttempts THEN "exited" ELSE proc
         /\ at' = [at EXCEPT !["sync"] = "readRules"]
         /\ UNCHANGED <<restarts, inbox>>
    ELSE Raise(t)

QueryFails(t) == /\ Running(t) /\ at[t] \in {"readRules", "readCA"} /\ ~dbUp
                 /\ DatabaseError(t) \/ Raise(t)
                 /\ UNCHANGED <<held, snapshot, database>>

-----------------------------------------------------------------------------
(* The timer and the listener *)

Tick == /\ proc = "serving" /\ at["sync"] = "sleep"
        /\ Goto("sync", "readRules")
        /\ UNCHANGED <<process, held, snapshot, inbox, database>>

Subscribe == /\ proc = "serving" /\ at["listener"] = "subscribe"
             /\ Goto("listener", "listen") \/ Goto("listener", "pause")
             /\ UNCHANGED <<process, held, snapshot, inbox, database>>

Receive == /\ proc = "serving" /\ at["listener"] = "listen" /\ inbox > 0
           /\ inbox' = inbox - 1
           /\ Goto("listener", "readRules")
           /\ UNCHANGED <<process, held, snapshot, database>>

SubscriptionDrops == /\ proc = "serving" /\ at["listener"] = "listen"
                     /\ inbox' = 0
                     /\ Goto("listener", "pause")
                     /\ UNCHANGED <<process, held, snapshot, database>>

(* The listener subscribes again without reading what it has missed. *)
Resubscribe == /\ proc = "serving" /\ at["listener"] = "pause"
               /\ Goto("listener", "subscribe")
               /\ UNCHANGED <<process, held, snapshot, inbox, database>>

-----------------------------------------------------------------------------
(* context_for *)

CachedAt(h) == {i \in 1 .. Len(contexts) : contexts[i].host = h}
WithoutAt(i) == SubSeq(contexts, 1, i - 1) \o SubSeq(contexts, i + 1, Len(contexts))

Trim(leaves) == IF Len(leaves) > CacheSize THEN Tail(leaves) ELSE leaves

(* A hit moves its context to the end, a miss forges one and evicts. *)
ContextFor(h) ==
    /\ proc = "serving" /\ ca # NoCA
    /\ \/ \E i \in CachedAt(h) : contexts' = Append(WithoutAt(i), contexts[i])
       \/ /\ CachedAt(h) = {}
          /\ contexts' = Trim(Append(contexts, [host |-> h, ca |-> ca]))
    /\ UNCHANGED <<process, tasks, rules, ca, inbox, database>>

-----------------------------------------------------------------------------
(* The API: commit, then announce, best effort *)

Commit == dbUp /\ writes < MaxWrites /\ writes' = writes + 1

WriteRules == /\ Commit
              /\ dbRules' = dbRules + 1
              /\ announcing' = announcing + 1
              /\ UNCHANGED <<process, tasks, snapshot, inbox, dbUp, dbCA>>

ActivateCA(c) == /\ Commit
                 /\ dbCA' = c
                 /\ announcing' = announcing + 1
                 /\ UNCHANGED <<process, tasks, snapshot, inbox, dbUp, dbRules>>

(* delete_ca looks at is_active before it deletes: a row activated in      *)
(* between is deleted all the same, and no deletion is announced.          *)
DeleteCA == /\ Commit
            /\ dbCA' = NoCA
            /\ UNCHANGED <<process, tasks, snapshot, inbox, dbUp, dbRules, announcing>>

\* Mutant of Publish: a publish that got through is taken for a failed one.
PublishTwice == /\ announcing > 0
                /\ proc = "serving" /\ at["listener"] \in Subscribed
                /\ inbox' = inbox + 1
                /\ UNCHANGED <<process, tasks, snapshot, database>>

(* publish_config_change: lost with Redis, and without a subscriber. *)
Publish == /\ announcing > 0
           /\ announcing' = announcing - 1
           /\ \/ UNCHANGED inbox
              \/ /\ proc = "serving" /\ at["listener"] \in Subscribed
                 /\ inbox' = inbox + 1
           /\ UNCHANGED <<process, tasks, snapshot, dbUp, dbRules, dbCA, writes>>

(* External: the database server comes and goes. *)
Database == /\ dbUp' = ~dbUp
            /\ UNCHANGED <<process, tasks, snapshot, inbox, dbRules, dbCA, announcing, writes>>

-----------------------------------------------------------------------------
(* External: the process dies and the container runtime restarts it. *)
Crash == /\ proc # "exited"
         /\ proc' = "exited"
         /\ UNCHANGED <<attempts, restarts, tasks, snapshot, inbox, database>>

Restart == /\ proc = "exited" /\ restarts < MaxRestarts
           /\ restarts' = restarts + 1
           /\ proc' = "starting" /\ attempts' = 0
           /\ at' = [sync |-> "readRules", listener |-> "off"]
           /\ held' = [t \in Tasks |-> NoRules]
           /\ rules' = NoRules /\ ca' = NoCA /\ contexts' = <<>>
           /\ inbox' = 0
           /\ UNCHANGED database

Load(t) == \/ ReadRules(t) \/ InstallRules(t) \/ ReadCA(t)
           \/ InstallCA(t) \/ CAUnreadable(t) \/ QueryFails(t)

Next == \/ \E t \in Tasks : Load(t)
        \/ Tick \/ Subscribe \/ Receive \/ SubscriptionDrops \/ Resubscribe
        \/ \E h \in Hosts : ContextFor(h)
        \/ WriteRules \/ DeleteCA \/ Publish \/ Database
        \/ \E c \in CAs : ActivateCA(c)
        \/ Crash \/ Restart

Spec == Init /\ [][Next]_vars

(* asyncio runs a task whose await has returned, a query returns or fails, *)
(* and a sleep ends; nothing is assumed of Redis or of the database.       *)
FairSpec == Spec /\ WF_vars(Load("sync")) /\ WF_vars(Tick)

-----------------------------------------------------------------------------
Labels == Refreshing \cup {"sleep", "off", "subscribe", "listen", "pause"}
Elems(s) == {s[i] : i \in 1 .. Len(s)}

(* Every variable has its type, the start-up loop keeps its limit, and no   *)
(* announcement is on its way that no commit has made.                     *)
TypeOK == /\ proc \in {"starting", "serving", "exited"}
          /\ attempts \in 0 .. MaxAttempts /\ restarts \in 0 .. MaxRestarts
          /\ at \in [Tasks -> Labels]
          /\ held \in [Tasks -> Versions \cup CAs \cup {NoCA}]
          /\ rules \in Versions /\ ca \in Readable \cup {NoCA}
          /\ contexts \in Seq(Leaf)
          /\ dbUp \in BOOLEAN /\ dbRules \in Versions /\ dbCA \in CAs \cup {NoCA}
          /\ inbox \in Nat /\ announcing \in Nat /\ writes \in 0 .. MaxWrites
          /\ inbox + announcing <= writes

(* Every context the cache can hand to a handshake was forged under the     *)
(* authority that is loaded now, whichever of the two tasks loaded it and   *)
(* whatever was forged in between; a host has one, and the cache is bounded. *)
CacheIsCoherent == /\ Len(contexts) <= CacheSize
                   /\ \A leaf \in Elems(contexts) : leaf.ca = ca
                   /\ \A i, j \in 1 .. Len(contexts) :
                         contexts[i].host = contexts[j].host => i = j

(* main.py: starting up with an empty policy set would intercept hosts an   *)
(* operator had excluded; no traffic is accepted before a set was loaded,   *)
(* whatever fails during the start-up and however often it is restarted.   *)
ServingHasPolicy == proc = "serving" => rules # NoRules

(* A process that has a rule set and an authority never loses them to a     *)
(* failing database, an unreadable key or a vanished active row; Connection *)
(* relies on it (caReady never becomes FALSE).                             *)
NeverUnloaded == [][proc = "serving" /\ proc' = "serving" =>
                       /\ (ca # NoCA => ca' # NoCA)
                       /\ (rules # NoRules => rules' # NoRules)]_vars

(* The start-up loop ends, by serving or by exiting, whatever the database  *)
(* does: it does not wait for ever.                                        *)
StartupEnds == (proc = "starting") ~> (proc # "starting")

Converged == rules = dbRules /\ (dbCA \in Readable => ca = dbCA)

(* events.py: a missed announcement costs at most one refresh interval      *)
(* rather than correctness.  Once the database stays up, a replica that     *)
(* serves ends up with the committed rules and authority for good, also     *)
(* when every announcement was lost and when a stale read was installed.   *)
Converges == <>[]dbUp => <>[](proc = "serving" => Converged)

-----------------------------------------------------------------------------
(* A claim of the documentation that the code does not keep.               *)

(* docs/LLD.md: after the refresh a change triggers, the next connection    *)
(* sees the new rule - so no later step may put an older set in force.     *)
SnapshotNeverGoesBack == [][proc = "serving" /\ proc' = "serving" => rules' >= rules]_vars
=============================================================================
