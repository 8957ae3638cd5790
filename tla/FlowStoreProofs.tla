-------------------------- MODULE FlowStoreProofs ---------------------------
(***************************************************************************)
(* Proofs about FlowStore.tla, for any number of flows and replicas, every *)
(* window and every page size.                                             *)
(***************************************************************************)
EXTENDS FlowStore, FiniteSetTheorems, TLAPS

Newer(f) == {g \in flows : StartedAt[g] > StartedAt[f]}

(* A deletion that is not open has selected nothing. *)
ClosedInv == /\ \A r \in Replicas : sweep[r] # "deleting" => doomed[r] = {}
             /\ ~purging => doomed[Purge] = {}

(* Deletions that began after the client take rows behind those that stay.  *)
BehindInv == list # "away" /\ calm =>
                \A d \in Deletions : \A f \in there \ doomed[d], g \in doomed[d] :
                    StartedAt[g] < StartedAt[f]

(* A row that was there all the time and has not been shown, nor another of *)
(* its instant, is on a page still to come, and the last page is not before *)
(* it.                                                                     *)
PageInv == calm => /\ list # "away" => \A f \in there \ got :
                                           Twin(f) \/ Cardinality(Newer(f)) >= offset
                   /\ list = "page" => Cardinality(flows) <= total
                   /\ list = "done" => \A f \in there \ got : Twin(f)

StoreInv == StoreTypeOK /\ ClosedInv /\ BehindInv /\ PageInv

-----------------------------------------------------------------------------
LEMMA Finite ==
    ASSUME NEW S, S \subseteq Flows
    PROVE  IsFiniteSet(S) /\ Cardinality(S) \in Nat
BY FS_Subset, FS_CardinalityType, FlowsAssumption

LEMMA Smaller ==
    ASSUME NEW S, S \subseteq Flows, NEW R, R \subseteq S
    PROVE  Cardinality(R) <= Cardinality(S) /\ (R # S => Cardinality(R) < Cardinality(S))
<1>1. IsFiniteSet(S) /\ Cardinality(S) \in Nat /\ Cardinality(R) \in Nat
  BY Finite
<1>2. Cardinality(R) <= Cardinality(S) /\ (Cardinality(R) = Cardinality(S) => R = S)
  BY <1>1, FS_Subset
<1>3. QED BY <1>1, <1>2

LEMMA InitStoreInv == StoreInit => StoreInv
<1> SUFFICES ASSUME StoreInit PROVE StoreInv
  OBVIOUS
<1>1. StoreTypeOK
  <2>1. 0 \in 0 .. MaxTime
    BY SizesAssumption
  <2>2. dbUp \in BOOLEAN /\ purging \in BOOLEAN /\ calm \in BOOLEAN
    BY DEF StoreInit
  <2>3. /\ doomed \in [Deletions -> SUBSET ended]
        /\ sweep \in [Replicas -> {"sleeping", "deleting", "down"}]
    BY DEF StoreInit
  <2>4. QED BY <2>1, <2>2, <2>3 DEF StoreInit, StoreTypeOK
<1>2. ClosedInv
  BY DEF StoreInit, ClosedInv, Deletions
<1>3. BehindInv /\ PageInv
  BY DEF StoreInit, BehindInv, PageInv
<1>4. QED BY <1>1, <1>2, <1>3 DEF StoreInv

-----------------------------------------------------------------------------
(* The store goes on: rows are added, time passes, the database fails.      *)
LEMMA StoreStep ==
    ASSUME StoreInv, Tick \/ DbChanges \/ Insert
    PROVE  StoreInv'
<1>t. /\ StoreTypeOK /\ flows \subseteq Flows /\ ended \subseteq Flows
      /\ UNCHANGED <<deletion, list, offset, total, got, there>>
      /\ UNCHANGED <<sweep, doomed, purging>>
  BY DEF StoreInv, StoreTypeOK, Tick, DbChanges, Insert, paging, deletion
<1>1. CASE Tick \/ DbChanges
  <2>1. UNCHANGED <<flows, ended, paging>> /\ UNCHANGED <<list, offset, total, got, there, calm>>
    BY <1>1 DEF Tick, DbChanges, paging
  <2>2. now' \in 0 .. MaxTime /\ dbUp' \in BOOLEAN
    <3>1. now \in 0 .. MaxTime /\ dbUp \in BOOLEAN
      BY <1>t DEF StoreTypeOK
    <3>2. CASE Tick
      <4>1. now < MaxTime /\ now' = now + 1 /\ dbUp' = dbUp
        BY <3>2 DEF Tick
      <4>2. QED BY <3>1, <4>1, SizesAssumption
    <3>3. CASE DbChanges
      BY <3>1, <3>3 DEF DbChanges
    <3>4. QED BY <1>1, <3>2, <3>3
  <2>3. StoreTypeOK'
    BY <1>t, <2>1, <2>2 DEF StoreTypeOK
  <2>4. ClosedInv' /\ BehindInv' /\ PageInv'
    BY <1>t, <2>1 DEF StoreInv, ClosedInv, BehindInv, PageInv, Newer, Twin
  <2>5. QED BY <2>3, <2>4 DEF StoreInv
<1>2. CASE Insert
  <2>1. PICK batch \in SUBSET {f \in Flows \ ended : StartedAt[f] < now} :
          ended' = ended \cup batch /\ flows' = flows \cup batch
    BY <1>2 DEF Insert
  <2>2. calm' = (calm /\ list # "page") /\ now' = now /\ dbUp' = dbUp
    BY <1>2 DEF Insert
  <2>3. StoreTypeOK'
    BY <1>t, <2>1, <2>2 DEF StoreTypeOK
  <2>4. ClosedInv' /\ BehindInv'
    BY <1>t, <2>2 DEF StoreInv, ClosedInv, BehindInv
  <2>a. \A f : Twin(f) => Twin(f)'
    BY <1>t, <2>1 DEF Twin
  <2>5. ASSUME NEW f \in there \ got, calm, list # "away", ~Twin(f)
        PROVE  Cardinality(Newer(f)') >= offset
    <3>1. Newer(f) \subseteq Newer(f)' /\ Newer(f)' \subseteq Flows
      BY <1>t, <2>1 DEF Newer
    <3>2. Cardinality(Newer(f)) >= offset /\ offset \in Nat
      BY <1>t, <2>5 DEF StoreInv, PageInv, StoreTypeOK
    <3>3. Cardinality(Newer(f)) <= Cardinality(Newer(f)')
      BY <3>1, Smaller
    <3>4. Cardinality(Newer(f)) \in Nat /\ Cardinality(Newer(f)') \in Nat
      BY <3>1, Finite
    <3>5. QED BY <3>2, <3>3, <3>4
  <2>6. PageInv'
    BY <1>t, <2>2, <2>a, <2>5 DEF StoreInv, PageInv
  <2>7. QED BY <2>3, <2>4, <2>6 DEF StoreInv
<1>3. QED BY <1>1, <1>2

(* A deletion selects rows older than some instant, or all of them.         *)
LEMMA SelectStep ==
    ASSUME StoreInv, NEW d \in Deletions, NEW S,
           S = flows \/ \E age \in Int : S = {f \in flows : Old(f, age)},
           doomed' = [doomed EXCEPT ![d] = S], UNCHANGED <<store, flows, paging>>,
           sweep' \in [Replicas -> {"sleeping", "deleting", "down"}], purging' \in BOOLEAN,
           \A r \in Replicas : sweep'[r] # "deleting" => sweep[r] # "deleting" /\ r # d,
           ~purging' => ~purging /\ Purge # d
    PROVE  StoreInv'
<1>t. /\ StoreTypeOK /\ UNCHANGED <<now, ended, dbUp, list, offset, total, got, there, calm>>
      /\ flows \subseteq ended /\ ended \subseteq Flows /\ there \subseteq flows
      /\ doomed \in [Deletions -> SUBSET ended] /\ now \in Int /\ Purge \in Deletions
      /\ Replicas \subseteq Deletions
  BY DEF StoreInv, StoreTypeOK, store, paging, Deletions
<1>1. S \subseteq flows
  OBVIOUS
<1>2. \A e \in Deletions : doomed'[e] = IF e = d THEN S ELSE doomed[e]
  BY <1>t
<1>3. StoreTypeOK'
  BY <1>t, <1>1 DEF StoreTypeOK
<1>4. ClosedInv'
  BY <1>t, <1>2 DEF StoreInv, ClosedInv
<1>5. ASSUME NEW f \in there \ S, NEW g \in S PROVE StartedAt[g] < StartedAt[f]
  <2>1. StartedAt[f] \in Int /\ StartedAt[g] \in Int
    BY <1>t, <1>1, <1>5, FlowsAssumption
  <2>2. PICK age \in Int : S = {x \in flows : Old(x, age)}
    BY <1>t, <1>5
  <2>3. StartedAt[g] < now - age /\ ~(StartedAt[f] < now - age)
    BY <1>t, <1>5, <2>2 DEF Old
  <2>4. QED BY <1>t, <2>1, <2>2, <2>3
<1>6. BehindInv'
  BY <1>t, <1>2, <1>5 DEF StoreInv, BehindInv
<1>7. PageInv'
  BY <1>t DEF StoreInv, PageInv, Newer, Twin
<1>8. QED BY <1>3, <1>4, <1>6, <1>7 DEF StoreInv

(* A deletion ends; its rows go or they stay.                               *)
LEMMA RemoveStep ==
    ASSUME StoreInv, NEW d \in Deletions, NEW S, S = doomed[d] \/ S = {},
           flows' = flows \ S, there' = there \ S,
           doomed' = [doomed EXCEPT ![d] = {}],
           UNCHANGED <<store, list, offset, total, got, calm>>,
           sweep' \in [Replicas -> {"sleeping", "deleting", "down"}], purging' \in BOOLEAN,
           \A r \in Replicas : sweep'[r] # "deleting" => sweep[r] # "deleting" \/ r = d,
           ~purging' => ~purging \/ d = Purge
    PROVE  StoreInv'
<1>t. /\ StoreTypeOK /\ UNCHANGED <<now, ended, dbUp>>
      /\ flows \subseteq ended /\ ended \subseteq Flows /\ there \subseteq flows
      /\ doomed \in [Deletions -> SUBSET ended] /\ Purge \in Deletions
      /\ Replicas \subseteq Deletions
  BY DEF StoreInv, StoreTypeOK, store, Deletions
<1>1. \A e \in Deletions : doomed'[e] = IF e = d THEN {} ELSE doomed[e]
  BY <1>t
<1>2. StoreTypeOK'
  BY <1>t DEF StoreTypeOK
<1>3. ClosedInv'
  BY <1>t, <1>1 DEF StoreInv, ClosedInv
<1>4. BehindInv'
  BY <1>t, <1>1 DEF StoreInv, BehindInv
<1>5. ASSUME list # "away", calm, NEW f \in there \ S
      PROVE  Newer(f)' = Newer(f) /\ (Twin(f) => Twin(f)')
  <2>1. \A g \in S : StartedAt[g] < StartedAt[f]
    BY <1>5 DEF StoreInv, BehindInv
  <2>2. \A g \in S : StartedAt[g] \in Int /\ StartedAt[f] \in Int
    <3>1. doomed[d] \subseteq ended
      BY <1>t
    <3>2. S \subseteq Flows /\ f \in Flows
      BY <1>t, <1>5, <3>1
    <3>3. QED BY <3>2, FlowsAssumption
  <2>3. \A g \in S : ~(StartedAt[g] > StartedAt[f]) /\ StartedAt[g] # StartedAt[f]
    BY <2>1, <2>2
  <2>4. QED BY <1>t, <2>3 DEF Newer, Twin
<1>6. Cardinality(flows') <= Cardinality(flows)
  BY <1>t, Smaller
<1>7. Cardinality(flows') \in Nat /\ Cardinality(flows) \in Nat /\ total \in Nat
  BY <1>t, Finite DEF StoreTypeOK
<1>8. PageInv'
  BY <1>5, <1>6, <1>7 DEF StoreInv, PageInv
<1>9. QED BY <1>2, <1>3, <1>4, <1>8 DEF StoreInv

-----------------------------------------------------------------------------
(* Whatever orders the two bounds of a page are taken from, a row at which   *)
(* a page comes by is on it, or another row of its instant is.              *)
LEMMA OnPage ==
    ASSUME flows \subseteq Flows, offset \in Nat, NEW page, IsPage(page, offset),
           NEW f \in flows, Cardinality(Newer(f)) >= offset,
           Cardinality(Newer(f)) < offset + Limit
    PROVE  \E x \in page : StartedAt[x] = StartedAt[f]
<1>0. /\ Cardinality(flows) \in Nat /\ Cardinality(Newer(f)) \in Nat /\ Newer(f) \subseteq flows
      /\ \A x \in flows : StartedAt[x] \in Int
      /\ Limit \in Nat
  <2>1. Newer(f) \subseteq flows
    BY DEF Newer
  <2>2. QED BY <2>1, Finite, FlowsAssumption, SizesAssumption
<1>1. PICK before \in Leading(offset), upTo \in Leading(offset + Limit) :
        before \subseteq upTo /\ page = upTo \ before
  BY DEF IsPage
<1>2. /\ before \subseteq flows /\ upTo \subseteq flows
      /\ Cardinality(before) \in Nat /\ Cardinality(before) <= offset
      /\ Cardinality(upTo) = offset + Limit \/ upTo = flows
      /\ \A x \in before, g \in flows \ before : StartedAt[x] >= StartedAt[g]
      /\ \A x \in upTo, g \in flows \ upTo : StartedAt[x] >= StartedAt[g]
  BY <1>0, <1>1, Finite DEF Leading
<1>3. \E x \in upTo : StartedAt[x] = StartedAt[f]
  <2>1. CASE f \in upTo
    BY <2>1
  <2>2. CASE f \notin upTo
    <3>1. Cardinality(upTo) > Cardinality(Newer(f))
      BY <1>0, <1>2, <2>2
    <3>2. ~(upTo \subseteq Newer(f))
      <4>1. SUFFICES ASSUME upTo \subseteq Newer(f) PROVE FALSE
        OBVIOUS
      <4>2. Cardinality(upTo) <= Cardinality(Newer(f)) /\ Cardinality(upTo) \in Nat
        BY <1>0, <1>2, <4>1, Smaller, Finite
      <4>3. QED BY <1>0, <3>1, <4>2
    <3>3. PICK x \in upTo : x \notin Newer(f)
      BY <3>2
    <3>4. StartedAt[x] >= StartedAt[f] /\ ~(StartedAt[x] > StartedAt[f])
      BY <1>2, <2>2, <3>3 DEF Newer
    <3>5. QED BY <1>0, <1>2, <3>3, <3>4
  <2>3. QED BY <2>1, <2>2
<1>4. ASSUME NEW x \in before, StartedAt[x] = StartedAt[f] PROVE FALSE
  <2>1. Newer(f) \subseteq before
    <3>1. SUFFICES ASSUME NEW g \in Newer(f), g \notin before PROVE FALSE
      OBVIOUS
    <3>2. StartedAt[f] >= StartedAt[g] /\ StartedAt[g] > StartedAt[f]
      BY <1>2, <1>4, <3>1 DEF Newer
    <3>3. QED BY <1>0, <3>1, <3>2
  <2>2. x \notin Newer(f)
    BY <1>0, <1>4 DEF Newer
  <2>3. Cardinality(Newer(f)) < Cardinality(before)
    BY <1>2, <2>1, <2>2, Smaller
  <2>4. QED BY <1>0, <1>2, <2>3
<1>5. QED BY <1>1, <1>3, <1>4

-----------------------------------------------------------------------------
(* The client.                                                             *)
LEMMA ClientStep ==
    ASSUME StoreInv, Opens \/ Counts \/ Shows \/ Closes
    PROVE  StoreInv'
<1>t. /\ StoreTypeOK /\ UNCHANGED <<now, ended, dbUp, flows, sweep, doomed, purging>>
      /\ flows \subseteq Flows /\ there \subseteq flows /\ offset \in Nat /\ total \in Nat
      /\ flows \subseteq ended
  BY DEF StoreInv, StoreTypeOK, Opens, Counts, Shows, Closes, store, deletion
<1>1. ClosedInv'
  BY <1>t DEF StoreInv, ClosedInv
<1>f. Cardinality(flows) \in Nat
  BY <1>t, Finite
<1>2. CASE Opens
  <2>1. /\ list' = "count" /\ offset' = 0 /\ there' = flows /\ total' = total /\ got' = got
        /\ calm' = (~purging /\ \A r \in Replicas : sweep[r] # "deleting")
    BY <1>2 DEF Opens
  <2>2. StoreTypeOK'
    <3>1. calm' \in BOOLEAN
      BY <2>1
    <3>2. QED BY <1>t, <2>1, <3>1 DEF StoreTypeOK
  <2>3. calm' => \A d \in Deletions : doomed[d] = {}
    BY <2>1 DEF StoreInv, ClosedInv, Deletions
  <2>4. BehindInv'
    BY <1>t, <2>3 DEF BehindInv
  <2>5. \A f \in there' : Cardinality(Newer(f)') \in Nat
    <3>1. \A f \in there' : Newer(f)' \subseteq Flows
      BY <1>t DEF Newer
    <3>2. QED BY <3>1, Finite
  <2>6. PageInv'
    BY <2>1, <2>5 DEF PageInv
  <2>7. QED BY <1>1, <2>2, <2>4, <2>6 DEF StoreInv
<1>3. CASE Counts
  <2>1. /\ list = "count" /\ list' = "page" /\ total' = Cardinality(flows)
        /\ UNCHANGED <<offset, got, there, calm>>
    BY <1>3 DEF Counts
  <2>2. StoreTypeOK' /\ BehindInv'
    BY <1>t, <1>f, <2>1 DEF StoreInv, StoreTypeOK, BehindInv
  <2>3. PageInv'
    BY <1>t, <1>f, <2>1 DEF StoreInv, PageInv, Newer, Twin
  <2>4. QED BY <1>1, <2>2, <2>3 DEF StoreInv
<1>4. CASE Shows
  <2>1. /\ list = "page" /\ offset' = offset + Limit
        /\ list' = IF offset' < total THEN "count" ELSE "done"
        /\ UNCHANGED <<total, there, calm>>
    BY <1>4 DEF Shows
  <2>p. PICK page \in SUBSET flows : IsPage(page, offset) /\ got' = got \cup page
    BY <1>4 DEF Shows
  <2>2. Limit \in Nat /\ Limit > 0
    BY SizesAssumption
  <2>3. StoreTypeOK'
    BY <1>t, <2>1, <2>p, <2>2 DEF StoreTypeOK
  <2>4. BehindInv'
    BY <1>t, <2>1 DEF StoreInv, BehindInv
  <2>5. ASSUME calm, NEW f \in there \ got', ~Twin(f)'
        PROVE  /\ Cardinality(Newer(f)) >= offset + Limit
               /\ Cardinality(Newer(f)) < Cardinality(flows)
               /\ Cardinality(Newer(f)) \in Nat
    <3>1. f \in flows /\ f \notin got /\ ~Twin(f)
      BY <1>t, <2>1, <2>p, <2>5 DEF Twin
    <3>2. Cardinality(Newer(f)) >= offset
      BY <2>1, <2>5, <3>1 DEF StoreInv, PageInv
    <3>3. Newer(f) \subseteq flows /\ f \notin Newer(f)
      <4>1. StartedAt[f] \in Int
        BY <1>t, <3>1, FlowsAssumption
      <4>2. QED BY <4>1 DEF Newer
    <3>4. Cardinality(Newer(f)) \in Nat /\ Cardinality(Newer(f)) < Cardinality(flows)
      BY <1>t, <3>1, <3>3, Smaller, Finite
    <3>5. ~(Cardinality(Newer(f)) < offset + Limit)
      <4>1. SUFFICES ASSUME Cardinality(Newer(f)) < offset + Limit PROVE FALSE
        OBVIOUS
      <4>2. PICK x \in page : StartedAt[x] = StartedAt[f]
        BY <1>t, <2>p, <3>1, <3>2, <4>1, OnPage
      <4>3. QED BY <1>t, <2>p, <2>5, <4>2 DEF Twin
    <3>6. QED BY <1>t, <2>2, <3>4, <3>5
  <2>6. calm => Cardinality(flows) <= total
    BY <2>1 DEF StoreInv, PageInv
  <2>7. calm /\ list' = "done" => \A f \in there \ got' : Twin(f)'
    <3>1. SUFFICES ASSUME calm, list' = "done", NEW f \in there \ got', ~Twin(f)' PROVE FALSE
      OBVIOUS
    <3>2. /\ Cardinality(Newer(f)) >= offset + Limit /\ Cardinality(Newer(f)) < Cardinality(flows)
          /\ Cardinality(Newer(f)) \in Nat
      BY <2>5, <3>1
    <3>3. ~(offset + Limit < total)
      BY <2>1, <3>1
    <3>4. QED BY <1>t, <1>f, <2>2, <2>6, <3>1, <3>2, <3>3
  <2>8. \A f \in there \ got' : calm => Twin(f)' \/ Cardinality(Newer(f)) >= offset'
    BY <2>1, <2>5
  <2>n. \A f : Newer(f)' = Newer(f)
    BY <1>t DEF Newer
  <2>9. PageInv'
    BY <1>t, <2>1, <2>7, <2>8, <2>n DEF PageInv
  <2>10. QED BY <1>1, <2>3, <2>4, <2>9 DEF StoreInv
<1>5. CASE Closes
  <2>1. /\ list' = "away" /\ offset' = 0 /\ total' = 0 /\ got' = {} /\ there' = {}
        /\ calm' = TRUE
    BY <1>5 DEF Closes
  <2>2. StoreTypeOK'
    BY <1>t, <2>1 DEF StoreTypeOK
  <2>3. BehindInv' /\ PageInv'
    BY <2>1 DEF BehindInv, PageInv
  <2>4. QED BY <1>1, <2>2, <2>3 DEF StoreInv
<1>6. QED BY <1>2, <1>3, <1>4, <1>5

LEMMA SweepStep == ASSUME StoreInv, NEW r \in Replicas, Sweeping(r) PROVE StoreInv'
<1>t. /\ sweep \in [Replicas -> {"sleeping", "deleting", "down"}] /\ purging \in BOOLEAN
      /\ r \in Deletions /\ r # Purge /\ Window \in Int
  BY ReplicasAssumption, SizesAssumption DEF StoreInv, StoreTypeOK, Deletions, Purge
<1>1. CASE SweepBegins(r)
  <2>1. /\ sweep' = [sweep EXCEPT ![r] = "deleting"] /\ purging' = purging
        /\ doomed' = [doomed EXCEPT ![r] = {f \in flows : Old(f, Window)}]
        /\ UNCHANGED <<store, flows, paging>>
    BY <1>1 DEF SweepBegins
  <2>2. \E age \in Int : {f \in flows : Old(f, Window)} = {f \in flows : Old(f, age)}
    BY <1>t
  <2>3. /\ sweep' \in [Replicas -> {"sleeping", "deleting", "down"}]
        /\ \A q \in Replicas : sweep'[q] # "deleting" => sweep[q] # "deleting" /\ q # r
    BY <1>t, <2>1
  <2>4. QED BY <1>t, <2>1, <2>2, <2>3, SelectStep
<1>2. CASE SweepCommits(r) \/ SweepFails(r)
  <2>1. /\ sweep' = [sweep EXCEPT ![r] = "sleeping"] /\ purging' = purging
        /\ doomed' = [doomed EXCEPT ![r] = {}]
        /\ UNCHANGED <<store, list, offset, total, got, calm>>
    BY <1>2 DEF SweepCommits, SweepFails, paging
  <2>2. \E S \in {doomed[r], {}} : flows' = flows \ S /\ there' = there \ S
    BY <1>2 DEF SweepCommits, SweepFails, Remove, paging
  <2>3. /\ sweep' \in [Replicas -> {"sleeping", "deleting", "down"}]
        /\ \A q \in Replicas : sweep'[q] # "deleting" => sweep[q] # "deleting" \/ q = r
    BY <1>t, <2>1
  <2>4. QED BY <1>t, <2>1, <2>2, <2>3, RemoveStep
<1>3. QED BY <1>1, <1>2 DEF Sweeping

LEMMA PurgeStep ==
    ASSUME StoreInv, PurgeBegins \/ PurgeCommits \/ PurgeFails PROVE StoreInv'
<1>t. /\ sweep \in [Replicas -> {"sleeping", "deleting", "down"}] /\ purging \in BOOLEAN
      /\ Purge \in Deletions /\ Purge \notin Replicas /\ 1 .. Window \subseteq Int
  BY ReplicasAssumption, SizesAssumption DEF StoreInv, StoreTypeOK, Deletions, Purge
<1>1. CASE PurgeBegins
  <2>1. purging' = TRUE /\ sweep' = sweep /\ UNCHANGED <<store, flows, paging>>
    BY <1>1 DEF PurgeBegins
  <2>2. PICK S : /\ S = flows \/ \E age \in Int : S = {f \in flows : Old(f, age)}
                 /\ doomed' = [doomed EXCEPT ![Purge] = S]
    BY <1>t, <1>1 DEF PurgeBegins
  <2>3. QED BY <1>t, <2>1, <2>2, SelectStep
<1>2. CASE PurgeCommits \/ PurgeFails
  <2>1. /\ purging' = FALSE /\ sweep' = sweep /\ doomed' = [doomed EXCEPT ![Purge] = {}]
        /\ UNCHANGED <<store, list, offset, total, got, calm>>
    BY <1>2 DEF PurgeCommits, PurgeFails, PurgeEnds, paging
  <2>2. \E S \in {doomed[Purge], {}} : flows' = flows \ S /\ there' = there \ S
    BY <1>2 DEF PurgeCommits, PurgeFails, Remove, paging
  <2>3. QED BY <1>t, <2>1, <2>2, RemoveStep
<1>3. QED BY <1>1, <1>2

LEMMA StepStoreInv == StoreInv /\ [StoreNext]_storeVars => StoreInv'
<1> SUFFICES ASSUME StoreInv, [StoreNext]_storeVars PROVE StoreInv'
  OBVIOUS
<1>1. CASE UNCHANGED storeVars
  <2>1. UNCHANGED <<now, ended, dbUp, flows, sweep, doomed, purging, list, offset, total, got,
                    there, calm>>
    BY <1>1 DEF storeVars, store, deletion, paging
  <2>2. StoreTypeOK' /\ ClosedInv' /\ BehindInv'
    BY <2>1 DEF StoreInv, StoreTypeOK, ClosedInv, BehindInv
  <2>3. PageInv'
    BY <2>1 DEF StoreInv, PageInv, Newer, Twin
  <2>4. QED BY <2>2, <2>3 DEF StoreInv
<1>2. QED BY <1>1, StoreStep, SweepStep, PurgeStep, ClientStep DEF StoreNext

LEMMA StoreInvariance == StoreSpec => []StoreInv
<1>1. StoreInit => StoreInv
  BY InitStoreInv
<1>2. StoreInv /\ [StoreNext]_storeVars => StoreInv'
  BY StepStoreInv
<1>3. QED BY <1>1, <1>2, PTL DEF StoreSpec

-----------------------------------------------------------------------------
(* What a deletion has selected was recorded, and every variable has its    *)
(* type (_retention_sweep, purge_flows, list_flows).                       *)
THEOREM StoreTypeCorrect == StoreSpec => []StoreTypeOK
<1>1. StoreInv => StoreTypeOK
  BY DEF StoreInv
<1>2. QED BY <1>1, StoreInvariance, PTL

(* For any number of rows, whatever instants they share, of replicas that   *)
(* sweep and of pages: a client that turns the pages to the end has been    *)
(* shown every row that was there all the time or another of its instant,   *)
(* unless a deletion was open when it began or rows were added between a    *)
(* count and its page (list_flows).                                        *)
THEOREM PagesCorrect == StoreSpec => []PagesSkipOnlyTies
<1>1. StoreInv => PagesSkipOnlyTies
  BY DEF StoreInv, PageInv, PagesSkipOnlyTies
<1>2. QED BY <1>1, StoreInvariance, PTL
=============================================================================
