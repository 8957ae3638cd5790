-------------------------- MODULE ConfigSyncProofs --------------------------
(***************************************************************************)
(* Proofs about ConfigSync.tla, for every set of authorities and hosts,    *)
(* every cache size and number of attempts, changes and restarts.          *)
(***************************************************************************)
EXTENDS ConfigSync, SequenceTheorems, TLAPS

(* What a task holds was read: a committed rule set, or an authority.       *)
HeldInv == \A t \in Tasks :
               /\ at[t] = "installRules" => held[t] \in 1 .. MaxWrites + 1
               /\ at[t] = "installCA" => held[t] \in CAs \cup {NoCA}

(* An attempt of the start-up loop that is past refresh has a rule set, and *)
(* there is no attempt after the last one.                                 *)
StartInv == proc = "starting" =>
                /\ attempts < MaxAttempts
                /\ at["sync"] \in {"readCA", "installCA"} => rules # NoRules

(* The committed rule set is numbered by a commit.                         *)
DatabaseInv == dbRules \in 1 .. writes + 1

IInv == TypeOK /\ CacheIsCoherent /\ ServingHasPolicy /\ HeldInv /\ StartInv /\ DatabaseInv

-----------------------------------------------------------------------------
(* A sequence without its element at i.                                    *)
Without(s, i) == SubSeq(s, 1, i - 1) \o SubSeq(s, i + 1, Len(s))

LEMMA WithoutElement ==
    ASSUME NEW S, NEW s \in Seq(S), NEW i \in 1 .. Len(s)
    PROVE  /\ Without(s, i) \in Seq(S) /\ Len(Without(s, i)) = Len(s) - 1
           /\ \A j \in 1 .. Len(s) - 1 : Without(s, i)[j] = s[IF j < i THEN j ELSE j + 1]
<1> DEFINE a == SubSeq(s, 1, i - 1)
           b == SubSeq(s, i + 1, Len(s))
           n == Len(s)
           r == Without(s, i)
<1>n. n \in Nat /\ i \in 1 .. n
  OBVIOUS
<1>1. a \in Seq(S) /\ Len(a) = i - 1 /\ \A j \in 1 .. i - 1 : a[j] = s[j]
  OBVIOUS
<1>2. b \in Seq(S) /\ Len(b) = n - i /\ \A j \in 1 .. n - i : b[j] = s[i + j]
  OBVIOUS
<1>3. r = a \o b
  BY DEF Without
<1> HIDE DEF a, b, n, r
<1>4. /\ r \in Seq(S) /\ Len(r) = Len(a) + Len(b)
      /\ \A j \in 1 .. Len(a) + Len(b) : r[j] = IF j <= Len(a) THEN a[j] ELSE b[j - Len(a)]
  BY <1>1, <1>2, <1>3, ConcatProperties
<1>5. Len(a) + Len(b) = n - 1
  BY <1>n, <1>1, <1>2
<1>6. ASSUME NEW j \in 1 .. n - 1 PROVE r[j] = s[IF j < i THEN j ELSE j + 1]
  <2>1. r[j] = IF j <= i - 1 THEN a[j] ELSE b[j - (i - 1)]
    BY <1>1, <1>4, <1>5
  <2>2. CASE j < i
    <3>1. j \in 1 .. i - 1 /\ j <= i - 1
      BY <1>n, <2>2
    <3>2. QED BY <1>1, <2>1, <2>2, <3>1
  <2>3. CASE ~(j < i)
    <3>1. j - (i - 1) \in 1 .. n - i /\ i + (j - (i - 1)) = j + 1 /\ ~(j <= i - 1)
      BY <1>n, <2>3
    <3>2. b[j - (i - 1)] = s[j + 1]
      BY <1>2, <3>1
    <3>3. QED BY <2>1, <2>3, <3>1, <3>2
  <2>4. QED BY <2>2, <2>3
<1>7. QED BY <1>4, <1>5, <1>6 DEF r, n

(* A cache of leaves of one authority, a host at most once.                 *)
Coherent(s, authority) ==
    /\ s \in Seq(Leaf)
    /\ \A i \in 1 .. Len(s) : s[i].ca = authority
    /\ \A i, j \in 1 .. Len(s) : s[i].host = s[j].host => i = j

(* Which says the same as the invariant's set of elements.                  *)
LEMMA CoherentCache ==
    TypeOK => (CacheIsCoherent <=> Coherent(contexts, ca) /\ Len(contexts) <= CacheSize)
BY DEF TypeOK, CacheIsCoherent, Coherent, Elems

(* A hit: the context moves to the end, and the cache is as coherent.       *)
LEMMA HitCoherent ==
    ASSUME NEW s, NEW authority, Coherent(s, authority), NEW i \in 1 .. Len(s)
    PROVE  /\ Coherent(Append(Without(s, i), s[i]), authority)
           /\ Len(Append(Without(s, i), s[i])) = Len(s)
<1> DEFINE n == Len(s)
           q == Without(s, i)
           r == Append(q, s[i])
           At(j) == IF j = n THEN i ELSE IF j < i THEN j ELSE j + 1
<1>n. s \in Seq(Leaf) /\ n \in Nat /\ i \in 1 .. n /\ s[i] \in Leaf
  BY DEF Coherent
<1>1. /\ q \in Seq(Leaf) /\ Len(q) = n - 1
      /\ \A j \in 1 .. n - 1 : q[j] = s[IF j < i THEN j ELSE j + 1]
  BY <1>n, WithoutElement
<1> HIDE DEF q, n
<1>2. r \in Seq(Leaf) /\ Len(r) = n /\ r[n] = s[i] /\ \A j \in 1 .. n - 1 : r[j] = q[j]
  BY <1>n, <1>1
<1> HIDE DEF r
<1>3. ASSUME NEW j \in 1 .. n PROVE r[j] = s[At(j)] /\ At(j) \in 1 .. n
  <2>1. CASE j = n
    BY <1>n, <1>2, <2>1
  <2>2. CASE j # n
    <3>1. j \in 1 .. n - 1
      BY <1>n, <2>2
    <3>2. QED BY <1>n, <1>1, <1>2, <2>2, <3>1
  <2>3. QED BY <2>1, <2>2
<1>4. ASSUME NEW j \in 1 .. n, NEW k \in 1 .. n, At(j) = At(k) PROVE j = k
  BY <1>n, <1>4
<1> HIDE DEF At
<1>5. \A j \in 1 .. n : s[j].ca = authority
  BY DEF Coherent, n
<1>6. \A j, k \in 1 .. n : s[j].host = s[k].host => j = k
  BY DEF Coherent, n
<1>7. Coherent(r, authority)
  <2>1. \A j \in 1 .. n : r[j].ca = authority
    BY <1>3, <1>5
  <2>2. ASSUME NEW j \in 1 .. n, NEW k \in 1 .. n, r[j].host = r[k].host PROVE j = k
    <3>1. At(j) = At(k)
      BY <1>3, <1>6, <2>2
    <3>2. QED BY <1>4, <3>1
  <2>3. QED BY <1>2, <2>1, <2>2 DEF Coherent
<1>8. QED BY <1>2, <1>7 DEF q, r, n

(* A miss: a context for a new host, forged by the same authority.          *)
LEMMA MissCoherent ==
    ASSUME NEW s, NEW authority \in CAs, Coherent(s, authority), Len(s) <= CacheSize,
           NEW h \in Hosts, \A i \in 1 .. Len(s) : s[i].host # h,
           NEW r, r = Trim(Append(s, [host |-> h, ca |-> authority]))
    PROVE  Coherent(r, authority) /\ Len(r) <= CacheSize
<1> DEFINE q == Append(s, [host |-> h, ca |-> authority])
           n == Len(s)
<1>n. /\ s \in Seq(Leaf) /\ n \in Nat
      /\ \A j \in 1 .. n : s[j].ca = authority /\ s[j].host # h
      /\ \A j, k \in 1 .. n : s[j].host = s[k].host => j = k
  BY DEF Coherent
<1>1. Coherent(q, authority) /\ Len(q) = n + 1
  <2>1. [host |-> h, ca |-> authority] \in Leaf
    BY DEF Leaf
  <2>2. q \in Seq(Leaf) /\ Len(q) = n + 1
    BY <1>n, <2>1
  <2>3. q[n + 1].host = h /\ q[n + 1].ca = authority /\ \A j \in 1 .. n : q[j] = s[j]
    BY <1>n, <2>1
  <2> HIDE DEF q, n
  <2>4. \A j \in 1 .. n + 1 : j \in 1 .. n \/ j = n + 1
    BY <1>n
  <2>5. \A j \in 1 .. n + 1 : q[j].ca = authority
    BY <1>n, <2>3, <2>4
  <2>6. ASSUME NEW j \in 1 .. n + 1, NEW k \in 1 .. n + 1, q[j].host = q[k].host PROVE j = k
    BY <1>n, <2>3, <2>4, <2>6
  <2>7. QED BY <2>2, <2>5, <2>6 DEF Coherent
<1>2. r = IF Len(q) > CacheSize THEN Tail(q) ELSE q
  BY DEF Trim
<1> HIDE DEF q, n
<1>3. CASE Len(q) > CacheSize
  <2> DEFINE p == Tail(q)
  <2>1. q \in Seq(Leaf) /\ q # <<>>
    BY <1>n, <1>1 DEF Coherent
  <2>2. p \in Seq(Leaf) /\ Len(p) = n /\ \A j \in 1 .. n : p[j] = q[j + 1]
    BY <1>n, <1>1, <2>1, HeadTailProperties
  <2> HIDE DEF p
  <2>3. \A j \in 1 .. n : j + 1 \in 1 .. n + 1
    BY <1>n
  <2>4. \A j \in 1 .. n : p[j].ca = authority
    BY <1>1, <2>2, <2>3 DEF Coherent
  <2>5. ASSUME NEW j \in 1 .. n, NEW k \in 1 .. n, p[j].host = p[k].host PROVE j = k
    <3>1. j + 1 = k + 1
      BY <1>1, <2>2, <2>3, <2>5 DEF Coherent
    <3>2. QED BY <3>1
  <2>6. r = p /\ Len(p) <= CacheSize
    BY <1>2, <1>3, <2>2 DEF p, n
  <2>7. QED BY <2>2, <2>4, <2>5, <2>6 DEF Coherent
<1>4. CASE ~(Len(q) > CacheSize)
  BY <1>n, <1>1, <1>2, <1>4, SizeAssumption
<1>5. QED BY <1>3, <1>4

(* context_for keeps the cache coherent, and its bound.                     *)
LEMMA StepCoherent ==
    ASSUME TypeOK, CacheIsCoherent, NEW h \in Hosts, ContextFor(h)
    PROVE  Coherent(contexts', ca) /\ Len(contexts') <= CacheSize
<1>1. Coherent(contexts, ca) /\ Len(contexts) <= CacheSize
  BY CoherentCache
<1>2. ca \in CAs
  BY CAAssumption DEF TypeOK, ContextFor
<1>3. ASSUME NEW i \in CachedAt(h), contexts' = Append(WithoutAt(i), contexts[i])
      PROVE  Coherent(contexts', ca) /\ Len(contexts') <= CacheSize
  <2>1. i \in 1 .. Len(contexts) /\ WithoutAt(i) = Without(contexts, i)
    BY DEF CachedAt, WithoutAt, Without
  <2>2. QED BY <1>1, <1>3, <2>1, HitCoherent
<1>4. ASSUME CachedAt(h) = {}, contexts' = Trim(Append(contexts, [host |-> h, ca |-> ca]))
      PROVE  Coherent(contexts', ca) /\ Len(contexts') <= CacheSize
  <2>1. \A i \in 1 .. Len(contexts) : contexts[i].host # h
    BY <1>4 DEF CachedAt
  <2>2. QED BY <1>1, <1>2, <1>4, <2>1, MissCoherent
<1>5. QED BY <1>3, <1>4 DEF ContextFor

-----------------------------------------------------------------------------
(* The initial states satisfy the invariant. *)
LEMMA InitIInv == Init => IInv
<1> SUFFICES ASSUME Init PROVE IInv
  OBVIOUS
<1>1. TypeOK
  BY CAAssumption, SizeAssumption, BoundAssumption
     DEF Init, Blank, TypeOK, Labels, Refreshing, Tasks, Versions, NoRules
<1>2. CacheIsCoherent
  BY SizeAssumption DEF Init, Blank, CacheIsCoherent, Elems
<1>3. ServingHasPolicy /\ HeldInv /\ StartInv /\ DatabaseInv
  BY SizeAssumption, BoundAssumption
     DEF Init, ServingHasPolicy, HeldInv, StartInv, DatabaseInv, Tasks
<1>4. QED BY <1>1, <1>2, <1>3 DEF IInv

-----------------------------------------------------------------------------
(* The labels and the process, which most steps change together.           *)
ProcessOK == /\ proc \in {"starting", "serving", "exited"}
             /\ attempts \in 0 .. MaxAttempts /\ restarts \in 0 .. MaxRestarts
TasksOK == /\ at \in [Tasks -> Labels]
           /\ held \in [Tasks -> Versions \cup CAs \cup {NoCA}]
SnapshotOK == rules \in Versions /\ ca \in Readable \cup {NoCA} /\ contexts \in Seq(Leaf)
DatabaseOK == /\ dbUp \in BOOLEAN /\ dbRules \in Versions /\ dbCA \in CAs \cup {NoCA}
              /\ inbox \in Nat /\ announcing \in Nat /\ writes \in 0 .. MaxWrites
              /\ inbox + announcing <= writes

(* TypeOK is these four groups.                                            *)
LEMMA TypeParts == TypeOK <=> ProcessOK /\ TasksOK /\ SnapshotOK /\ DatabaseOK
BY DEF TypeOK, ProcessOK, TasksOK, SnapshotOK, DatabaseOK

(* No more announcements are on their way than changes were made.          *)
LEMMA OnTheirWay ==
    ASSUME DatabaseOK, NEW i \in Nat, NEW a \in Nat, i + a <= inbox + announcing
    PROVE  i + a <= writes
<1>1. inbox \in Nat /\ announcing \in Nat /\ writes \in Int /\ inbox + announcing <= writes
  BY BoundAssumption DEF DatabaseOK
<1>2. QED BY <1>1

(* An exception keeps the types.                                           *)
LEMMA RaiseType ==
    ASSUME TypeOK, NEW t \in Tasks, Raise(t) \/ (DatabaseError(t) /\ attempts < MaxAttempts),
           UNCHANGED <<held, snapshot, database>>
    PROVE  TypeOK'
<1>1. ProcessOK /\ TasksOK /\ SnapshotOK /\ DatabaseOK
  BY TypeParts
<1>2. CASE Raise(t)
  <2>1. ProcessOK' /\ TasksOK'
    BY <1>1, <1>2 DEF Raise, process, Goto, ProcessOK, TasksOK, Tasks, Labels, Refreshing
  <2>2. inbox' \in Nat /\ inbox' <= inbox
    BY <1>1, <1>2 DEF Raise, DatabaseOK
  <2>3. UNCHANGED <<rules, ca, contexts, dbUp, dbRules, dbCA, announcing, writes>>
    BY DEF snapshot, database
  <2>4. inbox' + announcing <= writes
    <3>1. inbox \in Nat /\ announcing \in Nat
      BY <1>1 DEF DatabaseOK
    <3>2. \A i, j, a \in Nat : i <= j => i + a <= j + a
      OBVIOUS
    <3>3. inbox' + announcing <= inbox + announcing
      BY <2>2, <3>1, <3>2
    <3>4. QED BY <1>1, <2>2, <3>1, <3>3, OnTheirWay
  <2>5. SnapshotOK' /\ DatabaseOK'
    BY <1>1, <2>2, <2>3, <2>4 DEF SnapshotOK, DatabaseOK
  <2>6. QED BY <2>1, <2>5 DEF TypeOK, ProcessOK, TasksOK, SnapshotOK, DatabaseOK
<1>3. CASE DatabaseError(t) /\ proc = "starting" /\ attempts < MaxAttempts
  <2>1. ProcessOK' /\ TasksOK'
    BY <1>1, <1>3, SizeAssumption
       DEF DatabaseError, ProcessOK, TasksOK, Tasks, Labels, Refreshing
  <2>2. SnapshotOK' /\ DatabaseOK'
    BY <1>1, <1>3 DEF DatabaseError, snapshot, database, SnapshotOK, DatabaseOK
  <2>3. QED BY <2>1, <2>2 DEF TypeOK, ProcessOK, TasksOK, SnapshotOK, DatabaseOK
<1>4. QED BY <1>2, <1>3 DEF DatabaseError

(* Every step keeps the types.                                             *)
LEMMA StepTypeOK == IInv /\ [Next]_vars => TypeOK'
<1> SUFFICES ASSUME IInv, [Next]_vars PROVE TypeOK'
  OBVIOUS
<1> USE DEF process, tasks, snapshot, database, Goto, Hold
<1>t. /\ TypeOK /\ ProcessOK /\ TasksOK /\ SnapshotOK /\ DatabaseOK
      /\ StartInv /\ HeldInv /\ DatabaseInv
  <2>1. TypeOK /\ StartInv /\ HeldInv /\ DatabaseInv
    BY DEF IInv
  <2>2. QED BY <2>1, TypeParts
<1>p. ProcessOK' /\ TasksOK' /\ SnapshotOK' /\ DatabaseOK' => TypeOK'
  BY DEF TypeOK, ProcessOK, TasksOK, SnapshotOK, DatabaseOK
<1>u. /\ UNCHANGED process => ProcessOK'
      /\ UNCHANGED tasks => TasksOK'
      /\ UNCHANGED snapshot => SnapshotOK'
      /\ UNCHANGED <<inbox, database>> => DatabaseOK'
  BY <1>t DEF ProcessOK, TasksOK, SnapshotOK, DatabaseOK
<1>l. \A label \in Labels : \A t \in Tasks : Goto(t, label) /\ UNCHANGED held => TasksOK'
  BY <1>t DEF TasksOK
<1>v. /\ {"readRules", "installRules", "readCA", "installCA", "sleep", "off", "subscribe",
          "listen", "pause"} = Labels
      /\ Tasks = {"sync", "listener"}
  BY DEF Labels, Refreshing, Tasks
<1>1. ASSUME NEW t \in Tasks, ReadRules(t) PROVE TypeOK'
  <2>1. TasksOK'
    BY <1>1, <1>t, <1>v DEF ReadRules, TasksOK, DatabaseOK
  <2>2. QED BY <1>1, <1>p, <1>u, <2>1 DEF ReadRules
<1>2. ASSUME NEW t \in Tasks, InstallRules(t) PROVE TypeOK'
  <2>1. SnapshotOK'
    BY <1>2, <1>t DEF InstallRules, SnapshotOK, HeldInv, Versions
  <2>2. TasksOK'
    BY <1>2, <1>l, <1>v DEF InstallRules
  <2>3. QED BY <1>2, <1>p, <1>u, <2>1, <2>2 DEF InstallRules
<1>3. ASSUME NEW t \in Tasks, ReadCA(t) PROVE TypeOK'
  <2>1. TasksOK'
    BY <1>3, <1>t, <1>v DEF ReadCA, TasksOK, DatabaseOK
  <2>2. QED BY <1>3, <1>p, <1>u, <2>1 DEF ReadCA
<1>4. ASSUME NEW t \in Tasks, InstallCA(t) PROVE TypeOK'
  <2>1. SnapshotOK'
    <3>1. <<>> \in Seq(Leaf)
      OBVIOUS
    <3>2. QED BY <1>4, <1>t, <3>1 DEF InstallCA, SnapshotOK
  <2>2. ProcessOK'
    BY <1>4, <1>t DEF InstallCA, Finish, ProcessOK
  <2>3. TasksOK'
    BY <1>4, <1>t, <1>v DEF InstallCA, Finish, TasksOK
  <2>4. QED BY <1>4, <1>p, <1>u, <2>1, <2>2, <2>3 DEF InstallCA
<1>5. ASSUME NEW t \in Tasks, CAUnreadable(t) \/ QueryFails(t) PROVE TypeOK'
  <2>1. Raise(t) \/ (DatabaseError(t) /\ attempts < MaxAttempts)
    BY <1>5, <1>t DEF CAUnreadable, QueryFails, DatabaseError, StartInv
  <2>2. QED BY <1>5, <1>t, <2>1, RaiseType DEF CAUnreadable, QueryFails
<1>6. CASE Tick \/ Subscribe \/ Resubscribe
  BY <1>6, <1>p, <1>u, <1>l, <1>v DEF Tick, Subscribe, Resubscribe
<1>7. CASE Receive \/ SubscriptionDrops
  <2>1. inbox' \in Nat /\ inbox' <= inbox
    BY <1>7, <1>t DEF Receive, SubscriptionDrops, DatabaseOK
  <2>2. DatabaseOK'
    BY <1>7, <1>t, <2>1 DEF Receive, SubscriptionDrops, DatabaseOK
  <2>3. QED BY <1>7, <1>p, <1>u, <1>l, <1>v, <2>2 DEF Receive, SubscriptionDrops
<1>8. ASSUME NEW h \in Hosts, ContextFor(h) PROVE TypeOK'
  <2>1. SnapshotOK'
    BY <1>8, <1>t, StepCoherent, CAAssumption DEF IInv, ContextFor, SnapshotOK, Coherent
  <2>2. QED BY <1>8, <1>p, <1>u, <2>1 DEF ContextFor
<1>9. CASE WriteRules \/ DeleteCA \/ \E c \in CAs : ActivateCA(c)
  <2>1. DatabaseOK'
    BY <1>9, <1>t, BoundAssumption
       DEF WriteRules, DeleteCA, ActivateCA, Commit, DatabaseOK, DatabaseInv, Versions
  <2>2. QED BY <1>9, <1>p, <1>u, <2>1 DEF WriteRules, DeleteCA, ActivateCA
<1>10. CASE Publish \/ Database
  <2>1. CASE Publish
    <3>1. inbox' \in Nat /\ announcing' \in Nat /\ inbox' + announcing' <= inbox + announcing
      BY <2>1, <1>t DEF Publish, DatabaseOK
    <3>2. inbox' + announcing' <= writes
      BY <1>t, <3>1, OnTheirWay
    <3>3. DatabaseOK'
      BY <2>1, <1>t, <3>1, <3>2 DEF Publish, DatabaseOK
    <3>4. QED BY <2>1, <1>p, <1>u, <3>3 DEF Publish
  <2>2. CASE Database
    <3>1. DatabaseOK'
      BY <2>2, <1>t DEF Database, DatabaseOK
    <3>2. QED BY <2>2, <1>p, <1>u, <3>1 DEF Database
  <2>3. QED BY <1>10, <2>1, <2>2
<1>11. CASE Crash
  BY <1>11, <1>t, <1>p, <1>u DEF Crash, ProcessOK
<1>12. CASE Restart
  <2>1. ProcessOK' /\ TasksOK'
    BY <1>12, <1>t, <1>v, SizeAssumption, BoundAssumption
       DEF Restart, ProcessOK, TasksOK, Versions, NoRules
  <2>2. SnapshotOK' /\ DatabaseOK'
    BY <1>12, <1>t, BoundAssumption DEF Restart, SnapshotOK, DatabaseOK, Versions, NoRules
  <2>3. QED BY <1>p, <2>1, <2>2
<1>13. CASE UNCHANGED vars
  BY <1>13, <1>p, <1>u DEF vars
<1>14. ASSUME NEW t \in Tasks, Load(t) PROVE TypeOK'
  BY <1>14, <1>1, <1>2, <1>3, <1>4, <1>5 DEF Load
<1>15. CASE Next
  BY <1>15, <1>6, <1>7, <1>8, <1>9, <1>10, <1>11, <1>12, <1>14 DEF Next
<1>16. QED BY <1>13, <1>15

-----------------------------------------------------------------------------
(* The cache is coherent after every step: only a new authority and a       *)
(* restart, which empty it, change what its contexts must chain to.        *)
LEMMA StepCache == IInv /\ TypeOK' /\ [Next]_vars => CacheIsCoherent'
<1> SUFFICES ASSUME IInv, TypeOK', [Next]_vars PROVE CacheIsCoherent'
  OBVIOUS
<1> USE DEF process, tasks, snapshot, database
<1>t. TypeOK /\ CacheIsCoherent
  BY DEF IInv
<1>e. contexts' = <<>> => CacheIsCoherent'
  BY SizeAssumption DEF CacheIsCoherent, Elems
<1>u. UNCHANGED <<ca, contexts>> => CacheIsCoherent'
  BY <1>t DEF CacheIsCoherent, Elems
<1>1. ASSUME NEW h \in Hosts, ContextFor(h) PROVE CacheIsCoherent'
  <2>1. Coherent(contexts', ca) /\ Len(contexts') <= CacheSize /\ ca' = ca
    BY <1>1, <1>t, StepCoherent DEF ContextFor
  <2>2. QED BY <2>1 DEF Coherent, CacheIsCoherent, Elems
<1>2. ASSUME NEW t \in Tasks, Load(t) PROVE UNCHANGED <<ca, contexts>> \/ contexts' = <<>>
  BY <1>2 DEF Load, ReadRules, InstallRules, ReadCA, InstallCA, CAUnreadable, QueryFails
<1>3. CASE Restart
  BY <1>3, <1>e DEF Restart
<1>4. CASE Tick \/ Subscribe \/ Receive \/ SubscriptionDrops \/ Resubscribe \/ Crash
  BY <1>4, <1>u DEF Tick, Subscribe, Receive, SubscriptionDrops, Resubscribe, Crash
<1>5. CASE WriteRules \/ DeleteCA \/ Publish \/ Database \/ \E c \in CAs : ActivateCA(c)
  BY <1>5, <1>u DEF WriteRules, DeleteCA, Publish, Database, ActivateCA
<1>6. CASE UNCHANGED vars
  BY <1>6, <1>u DEF vars
<1>7. CASE Next
  BY <1>7, <1>1, <1>2, <1>3, <1>4, <1>5, <1>e, <1>u DEF Next
<1>8. QED BY <1>6, <1>7

-----------------------------------------------------------------------------
StartupInv == ServingHasPolicy /\ HeldInv /\ StartInv

(* What a step of a task does to a set that is held or in force.            *)
LEMMA StepLoad ==
    ASSUME IInv, NEW t \in Tasks, Load(t)
    PROVE  StartupInv' /\ (rules # NoRules => rules' # NoRules) /\ (ca # NoCA => ca' # NoCA)
<1> USE DEF process, tasks, snapshot, database, Goto, Hold, Tasks, NoRules
<1>t. /\ at \in [Tasks -> Labels] /\ held \in [Tasks -> Versions \cup CAs \cup {NoCA}]
      /\ proc \in {"starting", "serving", "exited"} /\ dbRules \in 1 .. MaxWrites + 1
      /\ dbCA \in CAs \cup {NoCA} /\ attempts \in 0 .. MaxAttempts
      /\ ServingHasPolicy /\ HeldInv /\ StartInv
  <2>1. dbRules \in 1 .. MaxWrites + 1
    BY BoundAssumption DEF IInv, TypeOK, DatabaseInv
  <2>2. QED BY <2>1 DEF IInv, TypeOK
<1> USE DEF StartupInv, ServingHasPolicy, HeldInv, StartInv, Running
<1>1. CASE ReadRules(t)
  BY <1>1, <1>t DEF ReadRules
<1>2. CASE InstallRules(t)
  <2>1. rules' # NoRules
    BY <1>2, <1>t, BoundAssumption DEF InstallRules
  <2>2. HeldInv' /\ UNCHANGED <<proc, attempts, ca>>
    BY <1>2, <1>t DEF InstallRules
  <2>3. QED BY <1>t, <2>1, <2>2
<1>3. CASE ReadCA(t)
  BY <1>3, <1>t DEF ReadCA
<1>4. CASE InstallCA(t)
  <2>1. UNCHANGED <<rules, held, attempts>> /\ (ca # NoCA => ca' # NoCA)
    BY <1>4 DEF InstallCA
  <2>2. CASE proc = "starting"
    <3>1. /\ t = "sync" /\ proc' = "serving" /\ rules # NoRules
          /\ \E l \in {"off", "subscribe"} : at' = [sync |-> "readRules", listener |-> l]
      BY <1>4, <1>t, <2>2 DEF InstallCA, Finish
    <3>2. HeldInv'
      BY <3>1
    <3>3. QED BY <2>1, <3>1, <3>2
  <2>3. CASE proc # "starting"
    <3>1. /\ proc' = "serving" /\ proc = "serving"
          /\ at' = [at EXCEPT ![t] = IF t = "sync" THEN "sleep" ELSE "listen"]
      BY <1>4, <1>t, <2>3 DEF InstallCA, Finish
    <3>2. HeldInv'
      BY <1>t, <2>1, <3>1
    <3>3. QED BY <1>t, <2>1, <3>1, <3>2
  <2>4. QED BY <2>2, <2>3
<1>5. CASE CAUnreadable(t) \/ QueryFails(t)
  <2>1. UNCHANGED <<held, rules, ca>> /\ (Raise(t) \/ DatabaseError(t))
    BY <1>5 DEF CAUnreadable, QueryFails
  <2>2. proc' = "exited" \/ UNCHANGED proc
    BY <2>1 DEF Raise, DatabaseError
  <2>3. HeldInv'
    BY <1>t, <2>1 DEF Raise, DatabaseError
  <2>4. StartInv'
    BY <1>t, <2>1, SizeAssumption DEF Raise, DatabaseError
  <2>5. QED BY <1>t, <2>1, <2>2, <2>3, <2>4
<1>6. QED BY <1>1, <1>2, <1>3, <1>4, <1>5 DEF Load

(* Both are kept by every other step while the process serves.              *)
Kept == proc = "serving" /\ proc' = "serving" =>
            (rules # NoRules => rules' # NoRules) /\ (ca # NoCA => ca' # NoCA)

LEMMA StepStartup == IInv /\ [Next]_vars => StartupInv' /\ Kept
<1> SUFFICES ASSUME IInv, [Next]_vars PROVE StartupInv' /\ Kept
  OBVIOUS
<1> USE DEF process, tasks, snapshot, database, Goto, Tasks
<1>t. /\ at \in [Tasks -> Labels] /\ StartupInv
  BY DEF IInv, TypeOK, StartupInv
<1>1. ASSUME NEW t \in Tasks, Load(t) PROVE StartupInv' /\ Kept
  BY <1>1, StepLoad DEF Kept
<1> USE DEF StartupInv, ServingHasPolicy, HeldInv, StartInv, Kept
<1>2. CASE Tick \/ Subscribe \/ Receive \/ SubscriptionDrops \/ Resubscribe
  BY <1>2, <1>t DEF Tick, Subscribe, Receive, SubscriptionDrops, Resubscribe
<1>3. ASSUME NEW h \in Hosts, ContextFor(h) PROVE StartupInv' /\ Kept
  BY <1>3, <1>t DEF ContextFor
<1>4. CASE WriteRules \/ DeleteCA \/ Publish \/ Database \/ \E c \in CAs : ActivateCA(c)
  BY <1>4, <1>t DEF WriteRules, DeleteCA, Publish, Database, ActivateCA
<1>5. CASE Crash
  BY <1>5, <1>t DEF Crash
<1>6. CASE Restart
  BY <1>6, SizeAssumption DEF Restart
<1>7. CASE UNCHANGED vars
  BY <1>7, <1>t DEF vars
<1> HIDE DEF StartupInv, Kept
<1>8. CASE Next
  BY <1>8, <1>1, <1>2, <1>3, <1>4, <1>5, <1>6 DEF Next
<1>9. QED BY <1>7, <1>8

(* Every commit of rules takes the next number.                            *)
LEMMA StepDatabase == IInv /\ [Next]_vars => DatabaseInv'
<1> SUFFICES ASSUME IInv, [Next]_vars PROVE DatabaseInv'
  OBVIOUS
<1> USE DEF database, DatabaseInv
<1>t. dbRules \in 1 .. writes + 1 /\ writes \in Nat
  BY BoundAssumption DEF IInv, TypeOK
<1>1. CASE WriteRules \/ DeleteCA \/ \E c \in CAs : ActivateCA(c)
  BY <1>1, <1>t DEF WriteRules, DeleteCA, ActivateCA, Commit
<1>2. ASSUME ~WriteRules, ~DeleteCA, \A c \in CAs : ~ActivateCA(c)
      PROVE  UNCHANGED <<dbRules, writes>>
  BY <1>2 DEF Next, vars, Load, ReadRules, InstallRules, ReadCA, InstallCA, CAUnreadable,
     QueryFails, Tick, Subscribe, Receive, SubscriptionDrops, Resubscribe, ContextFor,
     Publish, Database, Crash, Restart
<1>3. QED BY <1>1, <1>2, <1>t

(* The invariant of every execution. *)
LEMMA SpecIInv == Spec => []IInv
<1>1. IInv /\ [Next]_vars => IInv'
  BY StepTypeOK, StepCache, StepStartup, StepDatabase DEF IInv, StartupInv
<1>2. QED BY <1>1, InitIInv, PTL DEF Spec

(* Every variable keeps its type: the start-up loop stays within its        *)
(* attempts, and no announcement exists that no commit has made.           *)
THEOREM TypeCorrect == Spec => []TypeOK
BY SpecIInv, PTL DEF IInv

(* context_for never hands out a leaf of an authority that is not loaded,   *)
(* and never more than cert_cache_size are kept.                           *)
THEOREM CacheCorrect == Spec => []CacheIsCoherent
BY SpecIInv, PTL DEF IInv

(* A process serves traffic only with a rule set that was read.            *)
THEOREM ServingCorrect == Spec => []ServingHasPolicy
BY SpecIInv, PTL DEF IInv

(* What is loaded stays loaded until the process ends.                     *)
THEOREM NeverUnloadedCorrect == Spec => NeverUnloaded
<1>1. IInv /\ [Next]_vars => [Kept]_vars
  BY StepStartup
<1>2. [Kept]_vars => [proc = "serving" /\ proc' = "serving" =>
                         /\ (ca # NoCA => ca' # NoCA)
                         /\ (rules # NoRules => rules' # NoRules)]_vars
  BY DEF Kept
<1>3. QED BY <1>1, <1>2, SpecIInv, PTL DEF Spec, NeverUnloaded
=============================================================================
