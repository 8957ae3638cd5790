----------------------------- MODULE FlowStore ------------------------------
(***************************************************************************)
(* The rows of flows: batches of the recorder are added, the retention     *)
(* sweep of each API replica (services/api/app/main.py) and the purge      *)
(* (routers/flows.py) delete old ones, and a client pages through them.    *)
(* A statement sees what is committed when it begins.  What the recorder   *)
(* does is in Recorder; bodies expire in the object store.                 *)
(***************************************************************************)
EXTENDS Integers, FiniteSets

CONSTANTS Flows,      \* flows that are recorded at some time
          StartedAt,  \* per flow: its started_at, which others may share
          Replicas,   \* API replicas, each with its sweep
          Window,     \* flow_retention_days
          Limit,      \* page size of the client, at least 1
          MaxTime     \* bound: the clock

ASSUME FlowsAssumption == IsFiniteSet(Flows) /\ StartedAt \in [Flows -> Nat]
ASSUME ReplicasAssumption == "purge" \notin Replicas
ASSUME SizesAssumption == Window \in Nat /\ Limit \in Nat \ {0} /\ MaxTime \in Nat

VARIABLES now,       \* the clock
          ended,     \* flows that have been submitted, recorded or lost
          flows,     \* committed rows
          dbUp,      \* the database answers
          sweep,     \* per replica: "sleeping", "deleting", or "down"
          doomed,    \* per deletion: the rows its statement selected
          purging,   \* a purge is between its statement and its commit
          list,      \* the client: "away", "count", "page" or "done"
          offset,    \* where its page begins
          total,     \* the count it was given
          got,       \* rows it has been shown
          there,     \* (history) rows there ever since it began
          calm       \* (history) no deletion was open when it began, and no
                     \* row was added between a count and its page

store == <<now, ended, dbUp>>
deletion == <<sweep, doomed, purging>>
paging == <<list, offset, total, got, there, calm>>
storeVars == <<store, flows, deletion, paging>>

Purge == "purge"
Deletions == Replicas \cup {Purge}

StoreInit == /\ now = 0 /\ ended = {} /\ flows = {} /\ dbUp = TRUE
             /\ sweep = [r \in Replicas |-> "sleeping"]
             /\ doomed = [d \in Deletions |-> {}] /\ purging = FALSE
             /\ list = "away" /\ offset = 0 /\ total = 0
             /\ got = {} /\ there = {} /\ calm = TRUE

-----------------------------------------------------------------------------
(* External: time passes, the database fails and comes back. *)
Tick == /\ now < MaxTime /\ now' = now + 1
        /\ UNCHANGED <<ended, flows, dbUp, deletion, paging>>
DbChanges == /\ dbUp' = ~dbUp
             /\ UNCHANGED <<now, ended, flows, deletion, paging>>

(* A batch of flows that began at some time is committed; a flow may be     *)
(* recorded long after a later one.                                        *)
Insert == /\ dbUp
          /\ \E batch \in SUBSET {f \in Flows \ ended : StartedAt[f] < now} :
                /\ batch # {}
                /\ ended' = ended \cup batch
                /\ flows' = flows \cup batch
          /\ calm' = (calm /\ list # "page")
          /\ UNCHANGED <<now, dbUp, deletion, list, offset, total, got, there>>

(* The rows of a deletion go; one that another deletion has removed is      *)
(* skipped.                                                                *)
Remove(S) == flows' = flows \ S /\ there' = there \ S

-----------------------------------------------------------------------------
Old(f, age) == StartedAt[f] < now - age

(* _retention_sweep wakes and executes its DELETE. *)
SweepBegins(r) ==
    /\ sweep[r] = "sleeping" /\ dbUp
    /\ sweep' = [sweep EXCEPT ![r] = "deleting"]
    /\ doomed' = [doomed EXCEPT ![r] = {f \in flows : Old(f, Window)}]
    /\ UNCHANGED <<store, flows, purging, paging>>

SweepCommits(r) ==
    /\ sweep[r] = "deleting" /\ dbUp
    /\ Remove(doomed[r])
    /\ sweep' = [sweep EXCEPT ![r] = "sleeping"]
    /\ doomed' = [doomed EXCEPT ![r] = {}]
    /\ UNCHANGED <<store, purging, list, offset, total, got, calm>>

\* Mutant of SweepFails: an error ends the task.
SweepDies(r) ==
    /\ sweep[r] = "deleting" /\ ~dbUp
    /\ sweep' = [sweep EXCEPT ![r] = "down"]
    /\ doomed' = [doomed EXCEPT ![r] = {}]
    /\ UNCHANGED <<store, flows, purging, paging>>

(* The database is gone before the commit: logged, and the task sleeps.     *)
SweepFails(r) ==
    /\ sweep[r] = "deleting" /\ ~dbUp
    /\ sweep' = [sweep EXCEPT ![r] = "sleeping"]
    /\ doomed' = [doomed EXCEPT ![r] = {}]
    /\ UNCHANGED <<store, flows, purging, paging>>

(* purge_flows: everything, or what is older than older_than_minutes. *)
PurgeBegins ==
    /\ ~purging /\ dbUp
    /\ purging' = TRUE
    /\ \/ doomed' = [doomed EXCEPT ![Purge] = flows]
       \/ \E age \in 1..Window : doomed' = [doomed EXCEPT ![Purge] = {f \in flows : Old(f, age)}]
    /\ UNCHANGED <<store, flows, sweep, paging>>

PurgeEnds == /\ purging' = FALSE
             /\ doomed' = [doomed EXCEPT ![Purge] = {}]
             /\ UNCHANGED <<store, sweep>>
PurgeCommits == /\ purging /\ dbUp /\ Remove(doomed[Purge]) /\ PurgeEnds
                /\ UNCHANGED <<list, offset, total, got, calm>>
PurgeFails == purging /\ ~dbUp /\ PurgeEnds /\ UNCHANGED <<flows, paging>>

-----------------------------------------------------------------------------
(* The client asks for its first page. *)
Opens == /\ list = "away"
         /\ list' = "count" /\ offset' = 0 /\ there' = flows
         /\ calm' = (~purging /\ \A r \in Replicas : sweep[r] # "deleting")
         /\ UNCHANGED <<store, flows, deletion, total, got>>

(* list_flows: the count is a statement of its own. *)
Counts == /\ list = "count" /\ dbUp
          /\ list' = "page" /\ total' = Cardinality(flows)
          /\ UNCHANGED <<store, flows, deletion, offset, got, there, calm>>

\* Mutant of Leading: the oldest first.
LeadingOldest(n) ==
    {S \in SUBSET flows : /\ Cardinality(S) = n \/ (S = flows /\ Cardinality(S) < n)
                          /\ \A f \in S, g \in flows \ S : StartedAt[f] <= StartedAt[g]}

(* ORDER BY started_at DESC: what the first n rows may be.  Nothing orders  *)
(* rows of one instant, and two statements may put them in two orders.     *)
Leading(n) ==
    {S \in SUBSET flows : /\ Cardinality(S) = n \/ (S = flows /\ Cardinality(S) < n)
                          /\ \A f \in S, g \in flows \ S : StartedAt[f] >= StartedAt[g]}

(* LIMIT OFFSET, in one such order *)
IsPage(page, from) == \E before \in Leading(from), upTo \in Leading(from + Limit) :
                         before \subseteq upTo /\ page = upTo \ before

(* The page; the client asks for the next one while the count says there is *)
(* one.                                                                    *)
Shows == /\ list = "page" /\ dbUp
         /\ \E page \in SUBSET flows : IsPage(page, offset) /\ got' = got \cup page
         /\ offset' = offset + Limit
         /\ list' = IF offset' < total THEN "count" ELSE "done"
         /\ UNCHANGED <<store, flows, deletion, total, there, calm>>

(* A request that fails is asked again; the client may leave at any time.   *)
Closes == /\ list # "away"
          /\ list' = "away" /\ offset' = 0 /\ total' = 0
          /\ got' = {} /\ there' = {} /\ calm' = TRUE
          /\ UNCHANGED <<store, flows, deletion>>

Sweeping(r) == SweepBegins(r) \/ SweepCommits(r) \/ SweepFails(r)

StoreNext == \/ Tick \/ DbChanges \/ Insert
             \/ \E r \in Replicas : Sweeping(r)
             \/ PurgeBegins \/ PurgeCommits \/ PurgeFails
             \/ Opens \/ Counts \/ Shows \/ Closes

StoreSpec == StoreInit /\ [][StoreNext]_storeVars

(* A task that sleeps wakes, and a statement ends. *)
SweepFairness == \A r \in Replicas : WF_storeVars(Sweeping(r))
StoreFairSpec == StoreSpec /\ SweepFairness

-----------------------------------------------------------------------------
(* Every variable has its type; what a deletion has selected was recorded. *)
StoreTypeOK == /\ now \in 0..MaxTime /\ flows \subseteq ended /\ ended \subseteq Flows
               /\ dbUp \in BOOLEAN /\ purging \in BOOLEAN /\ calm \in BOOLEAN
               /\ sweep \in [Replicas -> {"sleeping", "deleting", "down"}]
               /\ doomed \in [Deletions -> SUBSET ended]
               /\ list \in {"away", "count", "page", "done"}
               /\ offset \in Nat /\ total \in Nat
               /\ got \subseteq ended /\ there \subseteq flows

(* A client that turns the pages to the end has been shown every row that   *)
(* was there all the time, or another row of the same instant in its place, *)
(* while batches are added, late ones included, and old rows go: a deletion *)
(* only takes rows behind those that stay.  Not so when a deletion had      *)
(* selected its rows before the client began, or when rows are added        *)
(* between the count and the page of one request.                          *)
Twin(f) == \E g \in got \cap flows : StartedAt[g] = StartedAt[f]
PagesSkipOnlyTies == list = "done" /\ calm => \A f \in there \ got : Twin(f)

(* A database that stays up in the end: again and again no row past the     *)
(* retention window is left, so that each one goes, whatever failed before. *)
RetentionHolds == <>[]dbUp => []<>(\A f \in flows : ~Old(f, Window))

-----------------------------------------------------------------------------
(* The traffic page of the console: "Every transaction the proxy has seen". *)
(* A client that turns the pages to the end, of a table that has only its   *)
(* first rows, has been shown all of them.                                 *)
PagesShowEverything == list = "done" /\ calm /\ there = flows => flows \subseteq got
=============================================================================
