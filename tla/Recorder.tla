------------------------------ MODULE Recorder ------------------------------
(***************************************************************************)
(* The capture pipeline of the proxy (services/proxy/decrypt0rx_proxy/     *)
(* recorder.py): connection handlers put FlowRecords on a bounded queue,   *)
(* record_workers asyncio tasks take them in batches, upload the bodies,   *)
(* insert the batch in one transaction and publish it to the live view.    *)
(* The shutdown of run() (main.py) is part of the model because it is what *)
(* cancels the workers.                                                    *)
(*                                                                         *)
(* Granularity: one action per stretch of code between two awaits.  A kill *)
(* of the process needs no action: only flows, rowRefs, store and live     *)
(* survive it, and every reachable state of those is a state to restart    *)
(* from.                                                                   *)
(***************************************************************************)
EXTENDS Integers, Sequences, FiniteSets

CONSTANTS Records,    \* the transactions reported during one life of the proxy
          Workers,    \* the recorder tasks (record_workers)
          QueueSize,  \* record_queue_size
          BatchSize,  \* record_batch_size
          Bodies,     \* the captured bodies: pairs <<record, direction>>
          Rules,      \* policy rules that exist when the run starts
          RuleOf,     \* the rule a record was decided by, or NoRule
          NoRule,
          Faults      \* the services that may fail: "db", "store", "redis"

ASSUME SizesAssumption == QueueSize \in Nat \ {0} /\ BatchSize \in Nat \ {0}
ASSUME BodiesAssumption == Bodies \subseteq Records \X {"request", "response"}
ASSUME RulesAssumption == /\ NoRule \notin Rules
                          /\ RuleOf \in [Records -> Rules \cup {NoRule}]
ASSUME FaultsAssumption == Faults \subseteq {"db", "store", "redis"}
ASSUME FiniteAssumption == IsFiniteSet(Records) /\ IsFiniteSet(Workers)

VARIABLES phase,      \* run(): "running", "draining" (server.stop), "stopping", "closed"
          handler,    \* per record, what its connection handler has done with it
          queue,      \* Recorder._queue
          dropped,    \* Recorder.dropped
          written,    \* Recorder.written
          pc,         \* where each worker is suspended
          batch,      \* its local batch
          next,       \* how many records of the batch _persist_bodies has done
          refs,       \* the body refs held by the Flow rows built so far
          final,      \* the worker is in the flush of its CancelledError handler
          rules,      \* policy_rules in the database
          flows,      \* primary keys in the flows table
          rowRefs,    \* the non-null body refs of those rows
          store,      \* objects in the body store
          live        \* how often each record was published to CHANNEL_FLOWS

pipeline == <<queue, dropped>>
worker   == <<pc, batch, next, refs, final>>
database == <<rules, flows, rowRefs>>
vars == <<phase, handler, pipeline, written, worker, database, store, live>>

Elems(s) == {s[i] : i \in 1..Len(s)}
BodiesOf(r) == {b \in Bodies : b[1] = r}

Init == /\ phase = "running"
        /\ handler = [r \in Records |-> "idle"]
        /\ queue = <<>> /\ dropped = 0 /\ written = 0
        /\ pc = [w \in Workers |-> "get"]
        /\ batch = [w \in Workers |-> <<>>]
        /\ next = [w \in Workers |-> 0]
        /\ refs = [w \in Workers |-> {}]
        /\ final = [w \in Workers |-> FALSE]
        /\ rules = Rules
        /\ flows = {} /\ rowRefs = {} /\ store = {}
        /\ live = [r \in Records |-> 0]

-----------------------------------------------------------------------------
(* The connection handlers.  A handler may outlive its client's transport: *)
(* a relay still waits for the upstream after the client has gone.         *)

OpenConnection(r) ==
    /\ phase = "running" /\ handler[r] = "idle"
    /\ handler' = [handler EXCEPT ![r] = "open"]
    /\ UNCHANGED <<phase, pipeline, written, worker, database, store, live>>

ClientGone(r) ==
    /\ phase # "closed" /\ handler[r] = "open"
    /\ handler' = [handler EXCEPT ![r] = "detached"]
    /\ UNCHANGED <<phase, pipeline, written, worker, database, store, live>>

\* Mutant of Enqueue: an off-by-one in the bound of the queue.
EnqueueOneTooMany(r) == /\ Len(queue) <= QueueSize
                        /\ queue' = Append(queue, r)
                        /\ handler' = [handler EXCEPT ![r] = "queued"]
                        /\ UNCHANGED dropped

\* Mutant of Drop: the oldest queued record makes room for the new one.
DropOldest(r) == /\ Len(queue) >= QueueSize
                 /\ queue' = Append(Tail(queue), r)
                 /\ dropped' = dropped + 1
                 /\ handler' = [handler EXCEPT ![r] = "queued"]

(* Recorder.submit: put_nowait, or count the record when the queue is full. *)
Enqueue(r) == /\ Len(queue) < QueueSize
              /\ queue' = Append(queue, r)
              /\ handler' = [handler EXCEPT ![r] = "queued"]
              /\ UNCHANGED dropped

Drop(r) == /\ Len(queue) >= QueueSize
           /\ dropped' = dropped + 1
           /\ handler' = [handler EXCEPT ![r] = "dropped"]
           /\ UNCHANGED queue

Submit(r) ==
    /\ phase # "closed" /\ handler[r] \in {"open", "detached"}
    /\ Enqueue(r) \/ Drop(r)
    /\ UNCHANGED <<phase, written, worker, database, store, live>>

-----------------------------------------------------------------------------
(* The workers.  Once stop() has cancelled them, a worker only moves by     *)
(* handling the cancellation and then inside its final flush.              *)

MayRun(w) == phase # "stopping" \/ final[w]

Goto(w, label) == pc' = [pc EXCEPT ![w] = label]

(* queue.get() under wait_for, then get_nowait up to the batch size: no     *)
(* await in between, so the whole batch leaves the queue in one step.      *)
TakeSize == IF Len(queue) <= BatchSize THEN Len(queue) ELSE BatchSize

\* Mutant of Take: the last record of the batch stays in the queue.
TakeLeavesLast(w) ==
    /\ MayRun(w) /\ pc[w] = "get" /\ queue # <<>>
    /\ batch' = [batch EXCEPT ![w] = SubSeq(queue, 1, TakeSize)]
    /\ queue' = SubSeq(queue, TakeSize, Len(queue))
    /\ next' = [next EXCEPT ![w] = 0]
    /\ refs' = [refs EXCEPT ![w] = {}]
    /\ Goto(w, "put")
    /\ UNCHANGED <<phase, handler, dropped, written, final, database, store, live>>

Take(w) ==
    /\ MayRun(w) /\ pc[w] = "get" /\ queue # <<>>
    /\ batch' = [batch EXCEPT ![w] = SubSeq(queue, 1, TakeSize)]
    /\ queue' = SubSeq(queue, TakeSize + 1, Len(queue))
    /\ next' = [next EXCEPT ![w] = 0]
    /\ refs' = [refs EXCEPT ![w] = {}]
    /\ Goto(w, "put")
    /\ UNCHANGED <<phase, handler, dropped, written, final, database, store, live>>

Attempts(r) == [held : SUBSET BodiesOf(r), ok : SUBSET BodiesOf(r)]

\* Mutant of Uploads: the key is kept as the ref although the upload failed.
UploadsUnchecked(r) == {u \in Attempts(r) : u.held \subseteq u.ok}

(* _persist_bodies of the next record: the objects the store then holds and *)
(* the refs the row gets.  A failed upload gives no ref (the row is kept)   *)
(* and may still have stored the object.                                   *)
Uploads(r) == IF "store" \in Faults
              THEN {u \in Attempts(r) : u.ok \subseteq u.held}
              ELSE {[held |-> BodiesOf(r), ok |-> BodiesOf(r)]}

PersistBodies(w) ==
    /\ MayRun(w) /\ pc[w] = "put" /\ next[w] < Len(batch[w])
    /\ \E u \in Uploads(batch[w][next[w] + 1]) :
         /\ store' = store \cup u.held
         /\ refs' = [refs EXCEPT ![w] = @ \cup u.ok]
    /\ next' = [next EXCEPT ![w] = @ + 1]
    /\ UNCHANGED <<phase, handler, pipeline, written, pc, batch, final, database, live>>

\* Mutant of Insertable: existing rows are skipped (ON CONFLICT DO NOTHING).
InsertableUpsert(w) == \A r \in Elems(batch[w]) : RuleOf[r] \in rules \cup {NoRule}

(* The insert needs fresh primary keys and rules that still exist.         *)
Insertable(w) == /\ Elems(batch[w]) \cap flows = {}
                 /\ \A r \in Elems(batch[w]) : RuleOf[r] \in rules \cup {NoRule}

InsertRows(w) == /\ flows' = flows \cup Elems(batch[w])
                 /\ rowRefs' = rowRefs \cup refs[w]
                 /\ UNCHANGED rules

CommitReady(w) == pc[w] = "put" /\ next[w] = Len(batch[w])

Commit(w) ==
    /\ MayRun(w) /\ CommitReady(w) /\ Insertable(w)
    /\ InsertRows(w)
    /\ written' = written + Len(batch[w])
    /\ Goto(w, "publish")
    /\ UNCHANGED <<phase, handler, pipeline, batch, next, refs, final, store, live>>

EmptyBatch(w) == /\ batch' = [batch EXCEPT ![w] = <<>>]
                 /\ next' = [next EXCEPT ![w] = 0]
                 /\ refs' = [refs EXCEPT ![w] = {}]

\* Mutant of AbandonBatch: the exception of a bad batch ends the worker.
AbandonAndEnd(w) ==
    /\ Goto(w, "done")
    /\ EmptyBatch(w) /\ UNCHANGED final

\* Mutant of AbandonBatch: a failed final flush resumes the loop.
AbandonAndResume(w) ==
    /\ Goto(w, "sleep")
    /\ EmptyBatch(w) /\ UNCHANGED final

(* The exception handlers of _worker: in the loop the batch is discarded    *)
(* and the worker sleeps; in the final flush the worker ends.              *)
AbandonBatch(w) ==
    /\ Goto(w, IF final[w] THEN "done" ELSE "sleep")
    /\ EmptyBatch(w) /\ UNCHANGED final

\* Mutant of CommitFails: the counter is raised before the commit.
CommitFailsCounted(w) ==
    /\ MayRun(w) /\ CommitReady(w)
    /\ \/ (~Insertable(w) \/ "db" \in Faults) /\ UNCHANGED database
       \/ Insertable(w) /\ "db" \in Faults /\ InsertRows(w)
    /\ AbandonBatch(w)
    /\ written' = written + Len(batch[w])
    /\ UNCHANGED <<phase, handler, pipeline, store, live>>

(* The transaction raises: it violated a constraint, or the database is     *)
(* unreachable - and then the commit may have been applied all the same.   *)
CommitFails(w) ==
    /\ MayRun(w) /\ CommitReady(w)
    /\ \/ (~Insertable(w) \/ "db" \in Faults) /\ UNCHANGED database
       \/ Insertable(w) /\ "db" \in Faults /\ InsertRows(w)
    /\ AbandonBatch(w)
    /\ UNCHANGED <<phase, handler, pipeline, written, store, live>>

(* One MULTI/EXEC pipeline; its failure is swallowed. *)
Announce(w) == live' = [r \in Records |-> live[r] + (IF r \in Elems(batch[w]) THEN 1 ELSE 0)]

Publish(w) ==
    /\ MayRun(w) /\ pc[w] = "publish"
    /\ Announce(w) \/ ("redis" \in Faults /\ UNCHANGED live)
    /\ Goto(w, IF final[w] THEN "done" ELSE "get")
    /\ EmptyBatch(w)
    /\ UNCHANGED <<phase, handler, pipeline, written, final, database, store>>

Wake(w) == /\ MayRun(w) /\ pc[w] = "sleep"
           /\ Goto(w, "get")
           /\ UNCHANGED <<phase, handler, pipeline, written, batch, next, refs, final,
                          database, store, live>>

-----------------------------------------------------------------------------
(* Shutdown: run() after stop.wait().                                      *)

SigTerm == /\ phase = "running"
           /\ phase' = "draining"
           /\ UNCHANGED <<handler, pipeline, written, worker, database, store, live>>

(* server.stop() returns once every client transport is closed (wait_closed *)
(* of Python 3.12), and Recorder.stop() cancels the workers.               *)
StopWorkers == /\ phase = "draining"
               /\ \A r \in Records : handler[r] # "open"
               /\ phase' = "stopping"
               /\ UNCHANGED <<handler, pipeline, written, worker, database, store, live>>

(* CancelledError at the await where the worker is suspended.  The awaited  *)
(* call may have taken effect.  A batch in hand is flushed from the start. *)
FinalFlush(w) == /\ final' = [final EXCEPT ![w] = TRUE]
                 /\ Goto(w, "put")
                 /\ next' = [next EXCEPT ![w] = 0]
                 /\ refs' = [refs EXCEPT ![w] = {}]
                 /\ UNCHANGED batch

Interrupted(w) == phase = "stopping" /\ ~final[w]

CancelIdle(w) == /\ Interrupted(w) /\ pc[w] \in {"get", "sleep"}
                 /\ Goto(w, "done")
                 /\ UNCHANGED <<phase, handler, pipeline, written, batch, next, refs, final,
                                database, store, live>>

\* Mutant of CancelUpload: the cancellation ends the worker with its batch unflushed.
CancelUploadEnds(w) == /\ Interrupted(w) /\ pc[w] = "put" /\ next[w] < Len(batch[w])
                       /\ Goto(w, "done")
                       /\ UNCHANGED <<phase, handler, pipeline, written, batch, next, refs,
                                      final, database, store, live>>

CancelUpload(w) == /\ Interrupted(w) /\ pc[w] = "put" /\ next[w] < Len(batch[w])
                   /\ \E held \in SUBSET BodiesOf(batch[w][next[w] + 1]) : store' = store \cup held
                   /\ FinalFlush(w)
                   /\ UNCHANGED <<phase, handler, pipeline, written, database, live>>

CancelCommit(w) == /\ Interrupted(w) /\ CommitReady(w)
                   /\ UNCHANGED database \/ (Insertable(w) /\ InsertRows(w))
                   /\ FinalFlush(w)
                   /\ UNCHANGED <<phase, handler, pipeline, written, store, live>>

CancelPublish(w) == /\ Interrupted(w) /\ pc[w] = "publish"
                    /\ Announce(w) \/ UNCHANGED live
                    /\ FinalFlush(w)
                    /\ UNCHANGED <<phase, handler, pipeline, written, database, store>>

Cancelled(w) == CancelIdle(w) \/ CancelUpload(w) \/ CancelCommit(w) \/ CancelPublish(w)

\* Mutant of Close: Recorder.stop does not wait for the cancelled workers.
CloseEarly == /\ phase = "stopping"
              /\ phase' = "closed"
              /\ UNCHANGED <<handler, pipeline, written, worker, database, store, live>>

(* gather() in Recorder.stop, then the store, Redis and the pool are closed. *)
Close == /\ phase = "stopping"
         /\ \A w \in Workers : pc[w] = "done"
         /\ phase' = "closed"
         /\ UNCHANGED <<handler, pipeline, written, worker, database, store, live>>

(* delete_policy of the API: the row goes while records that name it are    *)
(* still in the proxy's memory (the foreign key of stored rows is cleared). *)
DeleteRule(k) == /\ k \in rules
                 /\ rules' = rules \ {k}
                 /\ UNCHANGED <<phase, handler, pipeline, written, worker, flows, rowRefs,
                                store, live>>

-----------------------------------------------------------------------------
Handler(r) == OpenConnection(r) \/ ClientGone(r) \/ Submit(r)

Flush(w) == PersistBodies(w) \/ Commit(w) \/ CommitFails(w) \/ Publish(w)

WorkerStep(w) == Take(w) \/ Flush(w) \/ Wake(w) \/ Cancelled(w)

Next == \/ \E r \in Records : Handler(r)
        \/ \E w \in Workers : WorkerStep(w)
        \/ SigTerm \/ StopWorkers \/ Close
        \/ \E k \in Rules : DeleteRule(k)

Spec == Init /\ [][Next]_vars

(* The event loop runs every ready task and every awaited call returns      *)
(* (drivers and wait_for time out); shutdown goes on when it can; a handler *)
(* that lost its client ends by its upstream closing.                      *)
Fairness == /\ \A w \in Workers : WF_vars(WorkerStep(w))
            /\ WF_vars(StopWorkers) /\ WF_vars(Close)

(* With clients that eventually hang up, nothing keeps shutdown waiting.   *)
ClientsLeave == \A r \in Records : WF_vars(ClientGone(r) \/ Submit(r))

FairSpec == Spec /\ Fairness
FairShutdownSpec == FairSpec /\ ClientsLeave

-----------------------------------------------------------------------------
Phases == {"running", "draining", "stopping", "closed"}
HandlerStates == {"idle", "open", "detached", "queued", "dropped"}
Labels == {"get", "put", "publish", "sleep", "done"}

(* Every variable has its type, and the queue and the batches keep the      *)
(* bounds of record_queue_size and record_batch_size.                      *)
TypeOK == /\ phase \in Phases
          /\ handler \in [Records -> HandlerStates]
          /\ queue \in Seq(Records) /\ Len(queue) <= QueueSize
          /\ dropped \in Nat /\ written \in Nat
          /\ pc \in [Workers -> Labels]
          /\ batch \in [Workers -> Seq(Records)]
          /\ next \in [Workers -> Nat]
          /\ \A w \in Workers : Len(batch[w]) <= BatchSize /\ next[w] <= Len(batch[w])
          /\ refs \in [Workers -> SUBSET Bodies]
          /\ final \in [Workers -> BOOLEAN]
          /\ rules \subseteq Rules /\ flows \subseteq Records
          /\ rowRefs \subseteq Bodies /\ store \subseteq Bodies
          /\ live \in [Records -> Nat]

Batched == UNION {Elems(batch[w]) : w \in Workers}
InPipeline == Elems(queue) \cup Batched
Accepted == {r \in Records : handler[r] = "queued"}

(* No record is handled twice: the queue and the batches of all workers     *)
(* never hold two copies of one record, so no two workers race to insert it. *)
SingleOwner ==
    /\ \A i, j \in 1..Len(queue) : queue[i] = queue[j] => i = j
    /\ \A w \in Workers : \A i, j \in 1..Len(batch[w]) : batch[w][i] = batch[w][j] => i = j
    /\ \A w \in Workers : Elems(queue) \cap Elems(batch[w]) = {}
    /\ \A w, x \in Workers : w # x => Elems(batch[w]) \cap Elems(batch[x]) = {}

(* The live view announces a flow at most once and never one that is not    *)
(* committed, whatever the cancellation of a worker repeats.               *)
LiveAfterCommit == \A r \in Records : live[r] <= 1 /\ (live[r] = 1 => r \in flows)

(* A row that names a body never names an object that was not stored.      *)
RefsResolve == rowRefs \subseteq store

(* The written counter never claims a row that is not in the table.        *)
WrittenNeverOverstates == written <= Cardinality(flows)

(* Once run() closes the store and the pool, no worker can still use them:  *)
(* all have ended, with nothing in hand.                                   *)
ClosedIsQuiet == phase = "closed" => \A w \in Workers : pc[w] = "done" /\ batch[w] = <<>>

(* The batch in hand when the cancellation arrives gets one more attempt:   *)
(* a worker whose batch is not settled is never ended by the cancellation. *)
CancelFlushesBatch ==
    [][\A w \in Workers : pc'[w] = "done" /\ pc[w] # "done" =>
          Elems(batch[w]) \subseteq flows' \/ final[w]]_vars

(* While the proxy runs, no accepted record waits for ever: its batch is    *)
(* committed or given up, however often uploads and commits fail.          *)
AcceptedIsSettled ==
    \A r \in Records : (r \in InPipeline) ~> (r \notin InPipeline \/ phase # "running")

(* A shutdown whose clients leave reaches its end: no worker keeps          *)
(* Recorder.stop waiting.                                                  *)
ShutdownCompletes == (phase = "draining") ~> (phase = "closed")

(* The code implements CaptureLog: lost is what was accepted and is in      *)
(* neither the pipeline nor the table.                                     *)
Log == INSTANCE CaptureLog WITH
           pending <- InPipeline \ flows,
           kept    <- flows,
           dropped <- {r \in Records : handler[r] = "dropped"},
           lost    <- Accepted \ (InPipeline \cup flows)

ImplementsLog == Log!Spec

-----------------------------------------------------------------------------
(* Claims of the documentation that the code does not keep.                *)

(* docs/LLD.md: on stop, workers flush whatever is left - queued records    *)
(* are not thrown away.                                                    *)
QueuedRecordsAreFlushed == phase = "closed" => queue = <<>>

Lost == Accepted \ (InPipeline \cup flows)

(* README.md: metadata is always recorded - with every service up and the   *)
(* queue never full, an accepted record is not lost.                       *)
MetadataIsRecorded == Lost = {}
=============================================================================
