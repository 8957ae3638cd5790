--------------------------- MODULE RecorderProofs ---------------------------
(***************************************************************************)
(* Proofs about Recorder.tla, for every number of records and workers,     *)
(* every queue and batch size and every set of faults.                     *)
(***************************************************************************)
EXTENDS Recorder, FiniteSetTheorems, TLAPS

Injective(s) == \A i, j \in 1..Len(s) : s[i] = s[j] => i = j

(* A worker holds a batch only between taking it and finishing its flush.   *)
BatchInv == \A w \in Workers : pc[w] \in {"get", "sleep", "done"} => batch[w] = <<>>

(* What is in the pipeline or in the table was submitted, once.            *)
SubmittedInv == \A r \in Records :
                    \/ r \in Elems(queue) \/ r \in flows
                    \/ \E w \in Workers : r \in Elems(batch[w])
                    => handler[r] = "queued"

(* A worker about to publish has committed, and has not published yet.     *)
PublishInv == \A w \in Workers : pc[w] = "publish" =>
                  \A r \in Elems(batch[w]) : r \in flows /\ live[r] = 0

RefsInv == rowRefs \subseteq store /\ \A w \in Workers : refs[w] \subseteq store

IInv == /\ TypeOK /\ BatchInv /\ SubmittedInv /\ SingleOwner
        /\ PublishInv /\ LiveAfterCommit /\ RefsInv /\ ClosedIsQuiet

-----------------------------------------------------------------------------
(* Cutting a sequence without repetitions at n gives two such sequences     *)
(* that share no element and hold every element of it.                     *)
LEMMA CutSequence ==
    ASSUME NEW S, NEW q \in Seq(S), NEW n \in 0..Len(q), Injective(q)
    PROVE  /\ SubSeq(q, 1, n) \in Seq(S)
           /\ SubSeq(q, n + 1, Len(q)) \in Seq(S)
           /\ Len(SubSeq(q, 1, n)) = n
           /\ Len(SubSeq(q, n + 1, Len(q))) = Len(q) - n
           /\ Injective(SubSeq(q, 1, n))
           /\ Injective(SubSeq(q, n + 1, Len(q)))
           /\ Elems(SubSeq(q, 1, n)) \cap Elems(SubSeq(q, n + 1, Len(q))) = {}
           /\ Elems(SubSeq(q, 1, n)) \cup Elems(SubSeq(q, n + 1, Len(q))) = Elems(q)
<1> DEFINE a == SubSeq(q, 1, n)
           b == SubSeq(q, n + 1, Len(q))
<1>1. /\ a \in Seq(S) /\ Len(a) = n
      /\ \A i \in 1..n : a[i] = q[i]
  OBVIOUS
<1>2. /\ b \in Seq(S) /\ Len(b) = Len(q) - n
      /\ \A i \in 1..(Len(q) - n) : b[i] = q[n + i]
  OBVIOUS
<1> HIDE DEF a, b
<1> Len(q) \in Nat
  OBVIOUS
<1>3. Injective(a) /\ Injective(b)
  <2>1. ASSUME NEW i \in 1..n, NEW j \in 1..n, a[i] = a[j] PROVE i = j
    BY <1>1, <2>1 DEF Injective
  <2>2. ASSUME NEW i \in 1..(Len(q) - n), NEW j \in 1..(Len(q) - n), b[i] = b[j]
        PROVE  i = j
    <3>1. q[n + i] = q[n + j] /\ n + i \in 1..Len(q) /\ n + j \in 1..Len(q)
      BY <1>2, <2>2
    <3>2. n + i = n + j
      BY <3>1 DEF Injective
    <3>3. QED BY <3>2
  <2>3. QED BY <2>1, <2>2, <1>1, <1>2 DEF Injective
<1>4. Elems(a) \cap Elems(b) = {}
  <2>1. ASSUME NEW i \in 1..n, NEW j \in 1..(Len(q) - n), a[i] = b[j] PROVE FALSE
    <3>1. q[i] = q[n + j] /\ i \in 1..Len(q) /\ n + j \in 1..Len(q)
      BY <1>1, <1>2, <2>1
    <3>2. i = n + j
      BY <3>1 DEF Injective
    <3>3. QED BY <3>2
  <2>2. QED BY <2>1, <1>1, <1>2 DEF Elems
<1>5. Elems(a) \cup Elems(b) = Elems(q)
  <2>1. ASSUME NEW i \in 1..Len(q) PROVE q[i] \in Elems(a) \cup Elems(b)
    <3>1. CASE i <= n  BY <3>1, <1>1 DEF Elems
    <3>2. CASE i > n
      <4>1. i - n \in 1..(Len(q) - n) /\ q[i] = b[i - n]
        BY <3>2, <1>2
      <4>2. QED BY <4>1, <1>2 DEF Elems
    <3>3. QED BY <3>1, <3>2
  <2>2. ASSUME NEW i \in 1..n PROVE a[i] \in Elems(q)
    BY <1>1 DEF Elems
  <2>3. ASSUME NEW i \in 1..(Len(q) - n) PROVE b[i] \in Elems(q)
    <3>1. n + i \in 1..Len(q) /\ b[i] = q[n + i]
      BY <1>2
    <3>2. QED BY <3>1 DEF Elems
  <2>4. Elems(a) \subseteq Elems(q) /\ Elems(b) \subseteq Elems(q)
    BY <2>2, <2>3, <1>1, <1>2 DEF Elems
  <2>5. Elems(q) \subseteq Elems(a) \cup Elems(b)
    BY <2>1 DEF Elems
  <2>6. QED BY <2>4, <2>5
<1>6. QED BY <1>1, <1>2, <1>3, <1>4, <1>5 DEF a, b

(* A put at the end of the queue adds exactly the new element.             *)
LEMMA AppendElement ==
    ASSUME NEW S, NEW q \in Seq(S), NEW r \in S
    PROVE  /\ Append(q, r) \in Seq(S)
           /\ Len(Append(q, r)) = Len(q) + 1
           /\ Elems(Append(q, r)) = Elems(q) \cup {r}
           /\ Injective(q) /\ r \notin Elems(q) => Injective(Append(q, r))
<1> DEFINE p == Append(q, r)
<1>1. /\ p \in Seq(S) /\ Len(p) = Len(q) + 1
      /\ p[Len(q) + 1] = r
      /\ \A i \in 1..Len(q) : p[i] = q[i]
  OBVIOUS
<1> HIDE DEF p
<1>2. Elems(p) = Elems(q) \cup {r}
  BY <1>1 DEF Elems
<1>3. Injective(q) /\ r \notin Elems(q) => Injective(p)
  BY <1>1 DEF Elems, Injective
<1>4. QED BY <1>1, <1>2, <1>3 DEF p

-----------------------------------------------------------------------------
(* A worker takes at least one record, and no more than a batch holds.     *)
LEMMA TakeSizeInRange ==
    ASSUME TypeOK, queue # <<>>
    PROVE  TakeSize \in 1..Len(queue) /\ TakeSize <= BatchSize
BY SizesAssumption DEF TypeOK, TakeSize

(* An outcome of the uploads is about bodies, and holds what succeeded.      *)
LEMMA UploadsAreBodies ==
    ASSUME NEW r \in Records, NEW u \in Uploads(r)
    PROVE  u.held \subseteq Bodies /\ u.ok \subseteq u.held
BY DEF Uploads, Attempts, BodiesOf

(* The pipeline starts with its types.                                     *)
LEMMA InitTypeOK == Init => TypeOK
BY SizesAssumption DEF Init, TypeOK, Phases, HandlerStates, Labels

(* Every step keeps the types and the bounds of the queue and the batches.  *)
LEMMA StepTypeOK == TypeOK /\ [Next]_vars => TypeOK'
<1> SUFFICES ASSUME TypeOK, [Next]_vars PROVE TypeOK'
  OBVIOUS
<1> USE DEF TypeOK, Phases, HandlerStates, Labels, pipeline, worker, database
<1>1. ASSUME NEW r \in Records, OpenConnection(r) PROVE TypeOK'
  BY <1>1 DEF OpenConnection
<1>2. ASSUME NEW r \in Records, ClientGone(r) PROVE TypeOK'
  BY <1>2 DEF ClientGone
<1>3. ASSUME NEW r \in Records, Submit(r) PROVE TypeOK'
  <2>1. CASE Enqueue(r)
    <3>1. queue' \in Seq(Records) /\ Len(queue') = Len(queue) + 1
      BY <2>1, AppendElement DEF Enqueue
    <3>2. QED BY <1>3, <2>1, <3>1, SizesAssumption DEF Submit, Enqueue
  <2>2. CASE Drop(r)
    BY <1>3, <2>2 DEF Submit, Drop
  <2>3. QED BY <1>3, <2>1, <2>2 DEF Submit
<1>4. ASSUME NEW w \in Workers, Take(w) PROVE TypeOK'
  <2>1. TakeSize \in 1..Len(queue) /\ TakeSize <= BatchSize
    BY <1>4, TakeSizeInRange DEF Take
  <2>2. /\ SubSeq(queue, 1, TakeSize) \in Seq(Records)
        /\ Len(SubSeq(queue, 1, TakeSize)) = TakeSize
        /\ SubSeq(queue, TakeSize + 1, Len(queue)) \in Seq(Records)
        /\ Len(SubSeq(queue, TakeSize + 1, Len(queue))) = Len(queue) - TakeSize
    BY <2>1
  <2>3. batch' \in [Workers -> Seq(Records)] /\ queue' \in Seq(Records)
    BY <1>4, <2>2 DEF Take
  <2>4. \A x \in Workers : Len(batch'[x]) <= BatchSize /\ next'[x] <= Len(batch'[x])
    BY <1>4, <2>1, <2>2 DEF Take
  <2>5. Len(queue') <= QueueSize
    BY <1>4, <2>1, <2>2, SizesAssumption DEF Take
  <2>6. QED BY <1>4, <2>3, <2>4, <2>5 DEF Take, Goto
<1>5. ASSUME NEW w \in Workers, PersistBodies(w) PROVE TypeOK'
  <2>1. batch[w][next[w] + 1] \in Records
    BY <1>5 DEF PersistBodies
  <2>2. PICK u \in Uploads(batch[w][next[w] + 1]) :
            store' = store \cup u.held /\ refs' = [refs EXCEPT ![w] = @ \cup u.ok]
    BY <1>5 DEF PersistBodies
  <2>3. u.held \subseteq Bodies /\ u.ok \subseteq Bodies
    BY <2>1, UploadsAreBodies
  <2>4. next' \in [Workers -> Nat] /\ \A x \in Workers : next'[x] <= Len(batch'[x])
    BY <1>5 DEF PersistBodies
  <2>5. QED BY <1>5, <2>2, <2>3, <2>4 DEF PersistBodies
<1>6. ASSUME NEW w \in Workers, InsertRows(w)
      PROVE  flows' \subseteq Records /\ rowRefs' \subseteq Bodies /\ rules' \subseteq Rules
  BY <1>6 DEF InsertRows, Elems
<1>7. ASSUME NEW w \in Workers, Commit(w) PROVE TypeOK'
  BY <1>6, <1>7 DEF Commit, Goto
<1>8. ASSUME NEW w \in Workers, EmptyBatch(w)
      PROVE  /\ batch' \in [Workers -> Seq(Records)] /\ next' \in [Workers -> Nat]
             /\ refs' \in [Workers -> SUBSET Bodies]
             /\ \A x \in Workers : Len(batch'[x]) <= BatchSize /\ next'[x] <= Len(batch'[x])
  <2>1. <<>> \in Seq(Records) /\ Len(<<>>) = 0 /\ 0 <= BatchSize
    BY SizesAssumption
  <2>2. QED BY <1>8, <2>1 DEF EmptyBatch
<1>9. ASSUME NEW w \in Workers, CommitFails(w) PROVE TypeOK'
  <2>1. flows' \subseteq Records /\ rowRefs' \subseteq Bodies /\ rules' \subseteq Rules
    BY <1>6, <1>9 DEF CommitFails
  <2>2. pc' \in [Workers -> Labels] /\ final' = final /\ EmptyBatch(w)
    BY <1>9 DEF CommitFails, AbandonBatch, Goto
  <2>3. QED BY <1>8, <1>9, <2>1, <2>2 DEF CommitFails
<1>10. ASSUME NEW w \in Workers, Announce(w) PROVE live' \in [Records -> Nat]
  BY <1>10 DEF Announce
<1>11. ASSUME NEW w \in Workers, Publish(w) PROVE TypeOK'
  <2>1. live' \in [Records -> Nat]
    BY <1>10, <1>11 DEF Publish
  <2>2. pc' \in [Workers -> Labels] /\ EmptyBatch(w)
    BY <1>11 DEF Publish, Goto
  <2>3. QED BY <1>8, <1>11, <2>1, <2>2 DEF Publish
<1>12. ASSUME NEW w \in Workers, Wake(w) PROVE TypeOK'
  BY <1>12 DEF Wake, Goto
<1>13. ASSUME NEW w \in Workers, CancelIdle(w) PROVE TypeOK'
  BY <1>13 DEF CancelIdle, Goto
<1>14. ASSUME NEW w \in Workers, FinalFlush(w)
       PROVE  /\ pc' \in [Workers -> Labels] /\ final' \in [Workers -> BOOLEAN]
              /\ next' \in [Workers -> Nat] /\ refs' \in [Workers -> SUBSET Bodies]
              /\ batch' = batch
              /\ \A x \in Workers : next'[x] <= Len(batch'[x])
  BY <1>14 DEF FinalFlush, Goto
<1>15. ASSUME NEW w \in Workers, CancelUpload(w) PROVE TypeOK'
  <2>1. store' \subseteq Bodies
    BY <1>15 DEF CancelUpload, BodiesOf
  <2>2. QED BY <1>14, <1>15, <2>1 DEF CancelUpload
<1>16. ASSUME NEW w \in Workers, CancelCommit(w) PROVE TypeOK'
  <2>1. flows' \subseteq Records /\ rowRefs' \subseteq Bodies /\ rules' \subseteq Rules
    BY <1>6, <1>16 DEF CancelCommit
  <2>2. QED BY <1>14, <1>16, <2>1 DEF CancelCommit
<1>17. ASSUME NEW w \in Workers, CancelPublish(w) PROVE TypeOK'
  <2>1. live' \in [Records -> Nat]
    BY <1>10, <1>17 DEF CancelPublish
  <2>2. QED BY <1>14, <1>17, <2>1 DEF CancelPublish
<1>18. CASE SigTerm
  BY <1>18 DEF SigTerm
<1>19. CASE StopWorkers
  BY <1>19 DEF StopWorkers
<1>20. CASE Close
  BY <1>20 DEF Close
<1>21. ASSUME NEW k \in Rules, DeleteRule(k) PROVE TypeOK'
  BY <1>21 DEF DeleteRule
<1>22. CASE UNCHANGED vars
  BY <1>22 DEF vars
<1>23. QED
  BY <1>1, <1>2, <1>3, <1>4, <1>5, <1>7, <1>9, <1>11, <1>12, <1>13, <1>15, <1>16, <1>17,
     <1>18, <1>19, <1>20, <1>21, <1>22
     DEF Next, Handler, WorkerStep, Flush, Cancelled

-----------------------------------------------------------------------------
(* No record is submitted, queued or batched twice.                        *)
PipelineInv == BatchInv /\ SubmittedInv /\ SingleOwner

(* SingleOwner is about the queue and the batches only.                    *)
LEMMA SameSingleOwner ==
    ASSUME SingleOwner, queue' = queue, batch' = batch
    PROVE  SingleOwner'
<1>1. \A i, j \in 1..Len(queue') : queue'[i] = queue'[j] => i = j
  BY DEF SingleOwner
<1>2. \A w \in Workers : \A i, j \in 1..Len(batch'[w]) : batch'[w][i] = batch'[w][j] => i = j
  BY DEF SingleOwner
<1>3. \A w \in Workers : Elems(queue') \cap Elems(batch'[w]) = {}
  BY DEF SingleOwner
<1>4. \A w, x \in Workers : w # x => Elems(batch'[w]) \cap Elems(batch'[x]) = {}
  BY DEF SingleOwner
<1>5. QED BY <1>1, <1>2, <1>3, <1>4 DEF SingleOwner

(* No step submits, queues or takes a record a second time.                *)
LEMMA StepPipelineInv == TypeOK /\ TypeOK' /\ PipelineInv /\ [Next]_vars => PipelineInv'
<1> SUFFICES ASSUME TypeOK, TypeOK', PipelineInv, [Next]_vars PROVE PipelineInv'
  OBVIOUS
<1> USE DEF PipelineInv
<1>e. Elems(<<>>) = {} /\ Len(<<>>) = 0
  BY DEF Elems
(* Steps that leave the queue, the batches and the table alone. *)
<1>f. ASSUME UNCHANGED <<queue, batch, flows>> PROVE SingleOwner'
  <2>1. queue' = queue /\ batch' = batch
    BY <1>f
  <2>2. QED BY <2>1, SameSingleOwner DEF PipelineInv
<1>g. ASSUME UNCHANGED <<queue, batch, flows>>, UNCHANGED handler PROVE SubmittedInv'
  BY <1>g DEF SubmittedInv, Elems
<1>1. ASSUME NEW r \in Records, OpenConnection(r) \/ ClientGone(r) PROVE PipelineInv'
  <2>1. UNCHANGED <<queue, batch, flows, pc>>
    BY <1>1 DEF OpenConnection, ClientGone, pipeline, worker, database
  <2>2. SubmittedInv'
    <3>1. queue' = queue /\ batch' = batch /\ flows' = flows
      BY <2>1
    <3>2. handler[r] # "queued" /\ \A q \in Records : q # r => handler'[q] = handler[q]
      BY <1>1 DEF OpenConnection, ClientGone, TypeOK
    <3>3. QED BY <3>1, <3>2 DEF SubmittedInv
  <2>3. QED BY <1>f, <2>1, <2>2 DEF BatchInv
<1>2. ASSUME NEW r \in Records, Submit(r) PROVE PipelineInv'
  <2>1. UNCHANGED <<batch, flows, pc>> /\ handler[r] # "queued"
    BY <1>2 DEF Submit, worker, database
  <2>2. BatchInv'
    BY <2>1 DEF BatchInv
  <2>3. CASE Enqueue(r)
    <3>1. /\ Elems(queue') = Elems(queue) \cup {r}
          /\ Injective(queue) /\ r \notin Elems(queue) => Injective(queue')
      BY <2>3, AppendElement DEF Enqueue, TypeOK
    <3>2. r \notin Elems(queue) /\ \A w \in Workers : r \notin Elems(batch[w])
      BY <2>1 DEF SubmittedInv
    <3>3. Injective(queue)
      BY DEF SingleOwner, Injective
    <3>4. SingleOwner'
      <4>1. batch' = batch /\ Injective(queue')
        BY <2>1, <3>1, <3>2, <3>3
      <4>2. \A w \in Workers : Elems(queue') \cap Elems(batch'[w]) = {}
        BY <3>1, <3>2, <4>1 DEF SingleOwner
      <4>3. QED BY <4>1, <4>2 DEF SingleOwner, Injective
    <3>5. SubmittedInv'
      <4>1. handler'[r] = "queued" /\ \A q \in Records : q # r => handler'[q] = handler[q]
        BY <2>3 DEF Enqueue, TypeOK
      <4>2. batch' = batch /\ flows' = flows
        BY <2>1
      <4>3. QED BY <3>1, <4>1, <4>2 DEF SubmittedInv
    <3>6. QED BY <2>2, <3>4, <3>5
  <2>4. CASE Drop(r)
    <3>1. SubmittedInv'
      <4>1. queue' = queue /\ batch' = batch /\ flows' = flows
        BY <2>1, <2>4 DEF Drop
      <4>2. \A q \in Records : q # r => handler'[q] = handler[q]
        BY <2>4 DEF Drop, TypeOK
      <4>3. QED BY <2>1, <4>1, <4>2 DEF SubmittedInv
    <3>2. QED BY <1>f, <2>1, <2>2, <2>4, <3>1 DEF Drop
  <2>5. QED BY <1>2, <2>3, <2>4 DEF Submit
<1>3. ASSUME NEW w \in Workers, Take(w) PROVE PipelineInv'
  <2> DEFINE front == SubSeq(queue, 1, TakeSize)
             rest  == SubSeq(queue, TakeSize + 1, Len(queue))
  <2>1. /\ batch' = [batch EXCEPT ![w] = front] /\ queue' = rest
        /\ UNCHANGED <<handler, flows>> /\ pc' = [pc EXCEPT ![w] = "put"]
    BY <1>3 DEF Take, Goto, database
  <2>2. /\ Injective(front) /\ Injective(rest)
        /\ Elems(front) \cap Elems(rest) = {}
        /\ Elems(front) \cup Elems(rest) = Elems(queue)
    <3>1. TakeSize \in 0..Len(queue) /\ Injective(queue) /\ queue \in Seq(Records)
      <4>1. TakeSize \in 1..Len(queue) /\ queue \in Seq(Records)
        BY <1>3, TakeSizeInRange DEF Take, TypeOK
      <4>2. Injective(queue)
        BY DEF SingleOwner, Injective
      <4>3. QED BY <4>1, <4>2
    <3>2. QED BY <3>1, CutSequence
  <2> HIDE DEF front, rest
  <2>3. \A x \in Workers : x # w => batch'[x] = batch[x] /\ pc'[x] = pc[x]
    BY <2>1 DEF TypeOK
  <2>4. batch'[w] = front /\ pc'[w] = "put"
    BY <2>1 DEF TypeOK
  <2>5. BatchInv'
    BY <2>3, <2>4 DEF BatchInv
  <2>6. SubmittedInv'
    BY <2>1, <2>2, <2>3, <2>4 DEF SubmittedInv
  <2>7. SingleOwner'
    <3>1. Injective(queue') /\ \A x \in Workers : Injective(batch'[x])
      BY <2>1, <2>2, <2>3, <2>4 DEF SingleOwner, Injective
    <3>2. \A x \in Workers : Elems(queue') \cap Elems(batch'[x]) = {}
      BY <2>1, <2>2, <2>3, <2>4 DEF SingleOwner
    <3>3. \A x, y \in Workers : x # y => Elems(batch'[x]) \cap Elems(batch'[y]) = {}
      BY <2>2, <2>3, <2>4 DEF SingleOwner
    <3>4. QED BY <3>1, <3>2, <3>3 DEF SingleOwner, Injective
  <2>8. QED BY <2>5, <2>6, <2>7
(* Steps of a flush keep the batch or empty it; the table grows by it.      *)
<1>4. ASSUME NEW w \in Workers, UNCHANGED <<queue, batch, handler>>,
             flows' \subseteq flows \cup Elems(batch[w])
      PROVE  SubmittedInv' /\ SingleOwner'
  <2>1. queue' = queue /\ batch' = batch /\ handler' = handler
    BY <1>4
  <2>2. SubmittedInv'
    BY <1>4, <2>1 DEF SubmittedInv
  <2>3. SingleOwner'
    BY <2>1 DEF SingleOwner
  <2>4. QED BY <2>2, <2>3
<1>5. ASSUME NEW w \in Workers, EmptyBatch(w), UNCHANGED <<queue, handler>>,
             flows' \subseteq flows \cup Elems(batch[w]),
             NEW l, pc' = [pc EXCEPT ![w] = l]
      PROVE  PipelineInv'
  <2>1. batch'[w] = <<>> /\ \A x \in Workers : x # w => batch'[x] = batch[x] /\ pc'[x] = pc[x]
    BY <1>5 DEF EmptyBatch, TypeOK
  <2>2. BatchInv'
    BY <2>1 DEF BatchInv
  <2>3. SubmittedInv'
    BY <1>e, <1>5, <2>1 DEF SubmittedInv
  <2>4. SingleOwner'
    <3>1. \A x \in Workers : Injective(batch'[x])
      BY <1>e, <2>1 DEF SingleOwner, Injective
    <3>2. \A x \in Workers : Elems(batch'[x]) \subseteq Elems(batch[x])
      BY <1>e, <2>1
    <3>3. QED BY <1>5, <3>1, <3>2 DEF SingleOwner, Injective
  <2>5. QED BY <2>2, <2>3, <2>4
<1>6. ASSUME NEW w \in Workers, PersistBodies(w) PROVE PipelineInv'
  BY <1>f, <1>g, <1>6 DEF PersistBodies, pipeline, database, BatchInv
<1>7. ASSUME NEW w \in Workers, Commit(w) PROVE PipelineInv'
  <2>1. UNCHANGED <<queue, batch, handler>> /\ flows' = flows \cup Elems(batch[w])
    BY <1>7 DEF Commit, InsertRows, pipeline
  <2>2. BatchInv'
    BY <1>7, <2>1 DEF BatchInv, Commit, Goto, TypeOK
  <2>3. QED BY <1>4, <2>1, <2>2
<1>8. ASSUME NEW w \in Workers, CommitFails(w) PROVE PipelineInv'
  <2>1. flows' \subseteq flows \cup Elems(batch[w])
    BY <1>8 DEF CommitFails, InsertRows, database
  <2>2. QED BY <1>5, <1>8, <2>1 DEF CommitFails, AbandonBatch, Goto, pipeline
<1>9. ASSUME NEW w \in Workers, Publish(w) PROVE PipelineInv'
  BY <1>5, <1>9 DEF Publish, Goto, pipeline, database
<1>10. ASSUME NEW w \in Workers, Wake(w) \/ CancelIdle(w) PROVE PipelineInv'
  <2>1. UNCHANGED <<queue, batch, flows, handler>> /\ pc[w] \in {"get", "sleep"}
    BY <1>10 DEF Wake, CancelIdle, pipeline, database
  <2>2. BatchInv'
    BY <1>10, <2>1 DEF BatchInv, Wake, CancelIdle, Goto, TypeOK
  <2>3. QED BY <1>f, <1>g, <2>1, <2>2
<1>11. ASSUME NEW w \in Workers, FinalFlush(w) PROVE BatchInv'
  BY <1>11 DEF BatchInv, FinalFlush, Goto, TypeOK
<1>12. ASSUME NEW w \in Workers, CancelUpload(w) \/ CancelCommit(w) \/ CancelPublish(w)
       PROVE  PipelineInv'
  <2>1. UNCHANGED <<queue, batch, handler>> /\ FinalFlush(w)
    BY <1>12 DEF CancelUpload, CancelCommit, CancelPublish, FinalFlush, pipeline
  <2>2. flows' \subseteq flows \cup Elems(batch[w])
    BY <1>12 DEF CancelUpload, CancelCommit, CancelPublish, InsertRows, database
  <2>3. QED BY <1>4, <1>11, <2>1, <2>2
<1>13. ASSUME SigTerm \/ StopWorkers \/ Close \/ (\E k \in Rules : DeleteRule(k)) \/ UNCHANGED vars
       PROVE  PipelineInv'
  <2>1. UNCHANGED <<queue, batch, flows, handler, pc>>
    BY <1>13 DEF SigTerm, StopWorkers, Close, DeleteRule, vars, pipeline, worker, database
  <2>2. QED BY <1>f, <1>g, <2>1 DEF BatchInv
<1>14. QED
  BY <1>1, <1>2, <1>3, <1>6, <1>7, <1>8, <1>9, <1>10, <1>12, <1>13
     DEF Next, Handler, WorkerStep, Flush, Cancelled

-----------------------------------------------------------------------------
(* The live view only shows committed rows, once each.                     *)
LiveInv == PublishInv /\ LiveAfterCommit

(* No step announces a flow twice, or before its row is committed.         *)
LEMMA StepLiveInv == TypeOK /\ TypeOK' /\ SingleOwner /\ LiveInv /\ [Next]_vars => LiveInv'
<1> SUFFICES ASSUME TypeOK, TypeOK', SingleOwner, LiveInv, [Next]_vars PROVE LiveInv'
  OBVIOUS
<1> USE DEF LiveInv
<1>1. \A r \in Records : live[r] \in Nat
  BY DEF TypeOK
(* Steps in which nobody starts to publish and nothing is announced.       *)
<1>2. ASSUME flows \subseteq flows', live' = live,
             \A w \in Workers : pc'[w] = "publish" => pc[w] = "publish" /\ batch'[w] = batch[w]
      PROVE  LiveInv'
  <2>1. PublishInv'
    BY <1>2 DEF PublishInv
  <2>2. QED BY <1>2, <2>1 DEF LiveAfterCommit
(* A step of worker w that leaves the publication it was in, if any.       *)
<1>3. ASSUME NEW w \in Workers, flows \subseteq flows', live' = live,
             NEW l \in Labels, l # "publish", pc' = [pc EXCEPT ![w] = l],
             \A x \in Workers : x # w => batch'[x] = batch[x]
      PROVE  LiveInv'
  <2>1. \A x \in Workers : pc'[x] = "publish" => x # w /\ pc[x] = "publish"
    BY <1>3 DEF TypeOK
  <2>2. QED BY <1>2, <1>3, <2>1
<1>4. ASSUME NEW w \in Workers, pc[w] = "publish", Announce(w), flows' = flows,
             NEW l \in Labels, l # "publish", pc' = [pc EXCEPT ![w] = l],
             \A x \in Workers : x # w => batch'[x] = batch[x]
      PROVE  LiveInv'
  <2>1. \A r \in Records : live'[r] = IF r \in Elems(batch[w]) THEN live[r] + 1 ELSE live[r]
    BY <1>1, <1>4 DEF Announce
  <2>2. \A r \in Elems(batch[w]) : r \in flows /\ live[r] = 0
    BY <1>4 DEF PublishInv
  <2>3. LiveAfterCommit'
    BY <1>4, <2>1, <2>2 DEF LiveAfterCommit
  <2>4. ASSUME NEW x \in Workers, pc'[x] = "publish", NEW r \in Elems(batch'[x])
        PROVE  r \in flows' /\ live'[r] = 0
    <3>1. x # w /\ pc[x] = "publish" /\ batch'[x] = batch[x]
      BY <1>4, <2>4 DEF TypeOK
    <3>2. r \in flows /\ live[r] = 0 /\ r \in Records
      BY <3>1, <2>4 DEF PublishInv, TypeOK
    <3>3. r \notin Elems(batch[w])
      BY <3>1, <2>4 DEF SingleOwner
    <3>4. QED BY <1>4, <2>1, <3>2, <3>3
  <2>5. QED BY <2>3, <2>4 DEF PublishInv
<1>5. ASSUME NEW w \in Workers, EmptyBatch(w) PROVE \A x \in Workers : x # w => batch'[x] = batch[x]
  BY <1>5 DEF EmptyBatch, TypeOK
<1>6. ASSUME NEW w \in Workers, InsertRows(w) PROVE flows \subseteq flows'
  BY <1>6 DEF InsertRows
<1>7. ASSUME NEW r \in Records, Handler(r) PROVE LiveInv'
  BY <1>2, <1>7 DEF Handler, OpenConnection, ClientGone, Submit, worker, database
<1>8. ASSUME NEW w \in Workers, Take(w) PROVE LiveInv'
  <2>1. \A x \in Workers : x # w => batch'[x] = batch[x]
    BY <1>8 DEF Take, TypeOK
  <2>2. QED BY <1>3, <1>8, <2>1 DEF Take, Goto, database, Labels
<1>9. ASSUME NEW w \in Workers, PersistBodies(w) PROVE LiveInv'
  BY <1>2, <1>9 DEF PersistBodies, database
<1>10. ASSUME NEW w \in Workers, Commit(w) PROVE LiveInv'
  <2>1. /\ flows' = flows \cup Elems(batch[w]) /\ live' = live /\ batch' = batch
        /\ Elems(batch[w]) \cap flows = {}
        /\ \A x \in Workers : x # w => pc'[x] = pc[x]
    BY <1>10 DEF Commit, InsertRows, Insertable, Goto, TypeOK
  <2>2. Elems(batch[w]) \subseteq Records
    BY DEF TypeOK, Elems
  <2>3. \A r \in Elems(batch[w]) : live[r] = 0
    BY <1>1, <2>1, <2>2 DEF LiveAfterCommit
  <2>4. PublishInv'
    BY <2>1, <2>3 DEF PublishInv
  <2>5. QED BY <2>1, <2>4 DEF LiveAfterCommit
<1>11. ASSUME NEW w \in Workers, CommitFails(w) PROVE LiveInv'
  <2>1. flows \subseteq flows'
    BY <1>6, <1>11 DEF CommitFails, database
  <2>2. PICK l \in Labels : l # "publish" /\ pc' = [pc EXCEPT ![w] = l]
    BY <1>11 DEF CommitFails, AbandonBatch, Goto, Labels
  <2>3. \A x \in Workers : x # w => batch'[x] = batch[x]
    BY <1>5, <1>11 DEF CommitFails, AbandonBatch
  <2>4. QED BY <1>3, <1>11, <2>1, <2>2, <2>3 DEF CommitFails
<1>12. ASSUME NEW w \in Workers, Publish(w) PROVE LiveInv'
  <2>1. PICK l \in Labels : l # "publish" /\ pc' = [pc EXCEPT ![w] = l]
    BY <1>12 DEF Publish, Goto, Labels
  <2>2. \A x \in Workers : x # w => batch'[x] = batch[x]
    BY <1>5, <1>12 DEF Publish
  <2>3. flows' = flows /\ pc[w] = "publish" /\ (Announce(w) \/ live' = live)
    BY <1>12 DEF Publish, database
  <2>4. QED BY <1>3, <1>4, <2>1, <2>2, <2>3
<1>13. ASSUME NEW w \in Workers, Wake(w) \/ CancelIdle(w) PROVE LiveInv'
  <2>1. PICK l \in Labels : l # "publish" /\ pc' = [pc EXCEPT ![w] = l]
    BY <1>13 DEF Wake, CancelIdle, Goto, Labels
  <2>2. batch' = batch /\ live' = live /\ flows' = flows
    BY <1>13 DEF Wake, CancelIdle, database
  <2>3. QED BY <1>3, <2>1, <2>2
<1>14. ASSUME NEW w \in Workers, CancelUpload(w) \/ CancelCommit(w) \/ CancelPublish(w)
       PROVE  LiveInv'
  <2>1. pc' = [pc EXCEPT ![w] = "put"] /\ "put" \in Labels /\ batch' = batch
    BY <1>14 DEF CancelUpload, CancelCommit, CancelPublish, FinalFlush, Goto, Labels
  <2>2. CASE CancelUpload(w) \/ CancelCommit(w)
    <3>1. flows \subseteq flows' /\ live' = live
      BY <1>6, <2>2 DEF CancelUpload, CancelCommit, database
    <3>2. QED BY <1>3, <2>1, <3>1
  <2>3. CASE CancelPublish(w)
    <3>1. flows' = flows /\ pc[w] = "publish" /\ (Announce(w) \/ live' = live)
      BY <2>3 DEF CancelPublish, database
    <3>2. QED BY <1>3, <1>4, <2>1, <3>1
  <2>4. QED BY <1>14, <2>2, <2>3
<1>15. ASSUME SigTerm \/ StopWorkers \/ Close \/ (\E k \in Rules : DeleteRule(k)) \/ UNCHANGED vars
       PROVE  LiveInv'
  BY <1>2, <1>15 DEF SigTerm, StopWorkers, Close, DeleteRule, vars, worker, database
<1>16. QED
  BY <1>7, <1>8, <1>9, <1>10, <1>11, <1>12, <1>13, <1>14, <1>15
     DEF Next, WorkerStep, Flush, Cancelled

-----------------------------------------------------------------------------
(* A ref in a row, or in a row being built, names a stored object.         *)
LEMMA StepRefsInv == TypeOK /\ RefsInv /\ [Next]_vars => RefsInv'
<1> SUFFICES ASSUME TypeOK, RefsInv, [Next]_vars PROVE RefsInv'
  OBVIOUS
<1>1. ASSUME store \subseteq store', rowRefs' \subseteq store,
             \A w \in Workers : refs'[w] \subseteq refs[w]
      PROVE  RefsInv'
  BY <1>1 DEF RefsInv
<1>2. ASSUME NEW w \in Workers, EmptyBatch(w) \/ FinalFlush(w)
      PROVE  \A x \in Workers : refs'[x] \subseteq refs[x]
  BY <1>2 DEF EmptyBatch, FinalFlush, TypeOK
<1>3. ASSUME NEW w \in Workers, InsertRows(w) \/ UNCHANGED database
      PROVE  rowRefs' \subseteq store
  BY <1>3 DEF InsertRows, RefsInv, database
<1>4. rowRefs \subseteq store
  BY DEF RefsInv
<1>5. ASSUME NEW r \in Records, Handler(r) PROVE RefsInv'
  BY <1>1, <1>4, <1>5 DEF Handler, OpenConnection, ClientGone, Submit, worker, database
<1>6. ASSUME NEW w \in Workers, Take(w) PROVE RefsInv'
  BY <1>6 DEF Take, RefsInv, TypeOK, database
<1>7. ASSUME NEW w \in Workers, PersistBodies(w) PROVE RefsInv'
  <2>1. batch[w][next[w] + 1] \in Records
    BY <1>7 DEF PersistBodies, TypeOK
  <2>2. PICK u \in Uploads(batch[w][next[w] + 1]) :
            store' = store \cup u.held /\ refs' = [refs EXCEPT ![w] = @ \cup u.ok]
    BY <1>7 DEF PersistBodies
  <2>3. u.ok \subseteq u.held
    BY <2>1, UploadsAreBodies
  <2>4. QED BY <1>7, <2>2, <2>3 DEF PersistBodies, RefsInv, TypeOK, database
<1>8. ASSUME NEW w \in Workers, Commit(w) PROVE RefsInv'
  BY <1>1, <1>3, <1>8 DEF Commit
<1>9. ASSUME NEW w \in Workers, CommitFails(w) PROVE RefsInv'
  <2>1. EmptyBatch(w) /\ store' = store /\ (InsertRows(w) \/ UNCHANGED database)
    BY <1>9 DEF CommitFails, AbandonBatch
  <2>2. QED BY <1>1, <1>2, <1>3, <2>1
<1>10. ASSUME NEW w \in Workers, Publish(w) PROVE RefsInv'
  BY <1>1, <1>2, <1>3, <1>10 DEF Publish
<1>11. ASSUME NEW w \in Workers, Wake(w) \/ CancelIdle(w) PROVE RefsInv'
  BY <1>1, <1>4, <1>11 DEF Wake, CancelIdle, database
<1>12. ASSUME NEW w \in Workers, Cancelled(w) PROVE RefsInv'
  BY <1>1, <1>2, <1>3, <1>11, <1>12 DEF Cancelled, CancelUpload, CancelCommit, CancelPublish
<1>13. ASSUME SigTerm \/ StopWorkers \/ Close \/ (\E k \in Rules : DeleteRule(k)) \/ UNCHANGED vars
       PROVE  RefsInv'
  BY <1>1, <1>4, <1>13 DEF SigTerm, StopWorkers, Close, DeleteRule, vars, worker, database
<1>14. QED
  BY <1>5, <1>6, <1>7, <1>8, <1>9, <1>10, <1>11, <1>12, <1>13 DEF Next, WorkerStep, Flush

(* After the last worker has ended, nothing moves that uses the services.   *)
LEMMA StepClosedIsQuiet == TypeOK /\ BatchInv /\ ClosedIsQuiet /\ [Next]_vars => ClosedIsQuiet'
<1> SUFFICES ASSUME TypeOK, BatchInv, ClosedIsQuiet, [Next]_vars, phase' = "closed"
             PROVE  \A w \in Workers : pc'[w] = "done" /\ batch'[w] = <<>>
  BY DEF ClosedIsQuiet
<1>1. CASE Close
  BY <1>1 DEF Close, BatchInv, worker
<1>2. CASE phase = "closed"
  <2>1. \A w \in Workers : pc[w] = "done"
    BY <1>2 DEF ClosedIsQuiet
  <2>2. ASSUME NEW w \in Workers PROVE ~WorkerStep(w)
    BY <1>2, <2>1, <2>2 DEF WorkerStep, Take, Flush, PersistBodies, Commit, CommitFails,
       CommitReady, Publish, Wake, Cancelled, CancelIdle, CancelUpload, CancelCommit,
       CancelPublish, Interrupted
  <2>3. UNCHANGED <<pc, batch>>
    BY <1>2, <2>2 DEF Next, Handler, OpenConnection, ClientGone, Submit, SigTerm, StopWorkers,
       Close, DeleteRule, vars, worker
  <2>4. QED BY <1>2, <2>3 DEF ClosedIsQuiet
<1>3. CASE phase # "closed" /\ ~Close
  BY <1>3 DEF Next, Handler, OpenConnection, ClientGone, Submit, WorkerStep, Take, Flush,
     PersistBodies, Commit, CommitFails, Publish, Wake, Cancelled, CancelIdle, CancelUpload,
     CancelCommit, CancelPublish, SigTerm, StopWorkers, DeleteRule, vars
<1>4. QED BY <1>1, <1>2, <1>3

-----------------------------------------------------------------------------
(* The empty pipeline satisfies the invariant ...                          *)
LEMMA InitIInv == Init => IInv
<1> SUFFICES ASSUME Init PROVE IInv
  OBVIOUS
<1>1. TypeOK
  BY InitTypeOK
<1>2. Elems(<<>>) = {} /\ Len(<<>>) = 0
  BY DEF Elems
<1>3. BatchInv /\ SubmittedInv /\ SingleOwner
  BY <1>2 DEF Init, BatchInv, SubmittedInv, SingleOwner
<1>4. PublishInv /\ LiveAfterCommit /\ RefsInv /\ ClosedIsQuiet
  BY DEF Init, PublishInv, LiveAfterCommit, RefsInv, ClosedIsQuiet
<1>5. QED BY <1>1, <1>3, <1>4 DEF IInv

(* ... every step keeps it ...                                             *)
LEMMA StepIInv == IInv /\ [Next]_vars => IInv'
BY StepTypeOK, StepPipelineInv, StepLiveInv, StepRefsInv, StepClosedIsQuiet
   DEF IInv, PipelineInv, LiveInv

(* ... and so it holds in every state of every execution.                  *)
LEMMA SpecIInv == Spec => []IInv
BY InitIInv, StepIInv, PTL DEF Spec

(* Every variable of the pipeline keeps its type; the queue never exceeds   *)
(* record_queue_size and no batch exceeds record_batch_size.               *)
THEOREM TypeCorrect == Spec => []TypeOK
BY SpecIInv, PTL DEF IInv

(* The recorder never holds a record twice, in the queue or in two batches. *)
THEOREM NoDoubleHandling == Spec => []SingleOwner
BY SpecIInv, PTL DEF IInv

(* A flow is announced to the live view at most once, after its commit.     *)
THEOREM LiveViewCorrect == Spec => []LiveAfterCommit
BY SpecIInv, PTL DEF IInv

(* A row's body ref names an object that was stored.                       *)
THEOREM RefsCorrect == Spec => []RefsResolve
<1>1. IInv => RefsResolve
  BY DEF IInv, RefsInv, RefsResolve
<1>2. QED BY <1>1, SpecIInv, PTL

(* No worker runs after run() has closed the services it uses.             *)
THEOREM QuietAfterClose == Spec => []ClosedIsQuiet
BY SpecIInv, PTL DEF IInv

-----------------------------------------------------------------------------
(* As many elements as positions, when no element repeats.                 *)
LEMMA ElemsCardinality ==
    ASSUME NEW S, NEW s \in Seq(S), Injective(s)
    PROVE  IsFiniteSet(Elems(s)) /\ Cardinality(Elems(s)) = Len(s)
<1>1. Len(s) \in Nat /\ s \in [1..Len(s) -> Elems(s)]
  BY DEF Elems
<1>2. s \in Bijection(1..Len(s), Elems(s))
  BY <1>1 DEF Injective, Elems, Bijection, Injection, Surjection, IsInjective
<1>3. ExistsBijection(1..Len(s), Elems(s))
  BY <1>2 DEF ExistsBijection
<1>4. QED BY <1>1, <1>3, FS_CountingElements, FS_NatBijection

(* The counter grows by no more than the rows a commit adds.               *)
LEMMA StepWritten ==
    IInv /\ WrittenNeverOverstates /\ [Next]_vars => WrittenNeverOverstates'
<1> SUFFICES ASSUME IInv, WrittenNeverOverstates, [Next]_vars PROVE WrittenNeverOverstates'
  OBVIOUS
<1>1. IsFiniteSet(flows) /\ Cardinality(flows) \in Nat /\ written \in Nat
  BY FiniteAssumption, FS_Subset, FS_CardinalityType DEF IInv, TypeOK
<1>2. CASE \E w \in Workers : Commit(w)
  <2> PICK w \in Workers : Commit(w)
    BY <1>2
  <2> DEFINE B == Elems(batch[w])
  <2>1. flows' = flows \cup B /\ flows \cap B = {} /\ written' = written + Len(batch[w])
    BY DEF Commit, Insertable, InsertRows
  <2>2. IsFiniteSet(B) /\ Cardinality(B) = Len(batch[w]) /\ Len(batch[w]) \in Nat
    <3>1. batch[w] \in Seq(Records) /\ Injective(batch[w])
      BY DEF IInv, TypeOK, SingleOwner, Injective
    <3>2. QED BY <3>1, ElemsCardinality
  <2>3. Cardinality(flows') = Cardinality(flows) + Len(batch[w])
    <3>1. Cardinality(flows \cup B) = Cardinality(flows) + Cardinality(B) - Cardinality(flows \cap B)
      BY <1>1, <2>2, FS_Union
    <3>2. Cardinality(flows \cap B) = 0
      BY <2>1, FS_EmptySet
    <3>3. QED BY <1>1, <2>1, <2>2, <3>1, <3>2
  <2>4. QED BY <1>1, <2>1, <2>2, <2>3 DEF WrittenNeverOverstates
<1>3. CASE ~ \E w \in Workers : Commit(w)
  <2>1. written' = written
    BY <1>3 DEF Next, Handler, OpenConnection, ClientGone, Submit, WorkerStep, Take, Flush,
       PersistBodies, CommitFails, Publish, Wake, Cancelled, CancelIdle, CancelUpload,
       CancelCommit, CancelPublish, SigTerm, StopWorkers, Close, DeleteRule, vars
  <2>2. flows \subseteq flows'
    BY <1>3 DEF Next, Handler, OpenConnection, ClientGone, Submit, WorkerStep, Take, Flush,
       PersistBodies, CommitFails, InsertRows, Publish, Wake, Cancelled, CancelIdle,
       CancelUpload, CancelCommit, CancelPublish, SigTerm, StopWorkers, Close, DeleteRule,
       vars, database
  <2>3. IsFiniteSet(flows')
    BY FiniteAssumption, FS_Subset, StepIInv DEF IInv, TypeOK
  <2>4. Cardinality(flows) <= Cardinality(flows') /\ Cardinality(flows') \in Nat
    BY <2>2, <2>3, FS_Subset, FS_CardinalityType
  <2>5. QED BY <1>1, <2>1, <2>4 DEF WrittenNeverOverstates
<1>4. QED BY <1>2, <1>3

(* Recorder.written never counts a row that is not in the table.           *)
THEOREM WrittenCorrect == Spec => []WrittenNeverOverstates
<1>1. Init => WrittenNeverOverstates
  BY FS_EmptySet DEF Init, WrittenNeverOverstates
<1>2. QED BY <1>1, SpecIInv, StepWritten, PTL DEF Spec

-----------------------------------------------------------------------------
(* The refinement.  The state functions that Log!Spec is instantiated with. *)
Pending  == InPipeline \ flows
Refused  == {r \in Records : handler[r] = "dropped"}
GivenUp  == Accepted \ (InPipeline \cup flows)

(* What the pipeline holds is in the queue or in a batch.                   *)
LEMMA InPipelineDef ==
    \A r : r \in InPipeline <=> r \in Elems(queue) \/ \E w \in Workers : r \in Elems(batch[w])
BY DEF InPipeline, Batched

(* A step that moves nothing between queue, batches, table and handlers,    *)
(* or moves records inside the pipeline, is a stutter of the abstract log.  *)
LEMMA StutterStep ==
    ASSUME InPipeline' = InPipeline, flows' = flows,
           Accepted' = Accepted, Refused' = Refused
    PROVE  UNCHANGED Log!vars
BY DEF Log!vars, Refused

(* Emptying a batch and inserting it at most adds the batch to the table    *)
(* or gives it up.                                                         *)
LEMMA SettleStep ==
    ASSUME IInv, NEW w \in Workers, EmptyBatch(w), queue' = queue, handler' = handler,
           flows' = flows \/ flows' = flows \cup Elems(batch[w])
    PROVE  [Log!Next]_(Log!vars)
<1> DEFINE S == Elems(batch[w]) \ flows
<1>1. Accepted' = Accepted /\ Refused' = Refused
  BY DEF Accepted, Refused
<1>2. batch'[w] = <<>> /\ \A x \in Workers : x # w => batch'[x] = batch[x]
  BY DEF EmptyBatch, IInv, TypeOK
<1>3. Elems(<<>>) = {}
  BY DEF Elems
<1>4. InPipeline' = InPipeline \ Elems(batch[w])
  <2>1. \A r : r \in InPipeline' <=>
                 r \in Elems(queue) \/ \E x \in Workers : r \in Elems(batch'[x])
    BY DEF InPipeline, Batched
  <2>2. \A x \in Workers : x # w => Elems(batch[x]) \cap Elems(batch[w]) = {}
    BY DEF IInv, SingleOwner
  <2>3. Elems(queue) \cap Elems(batch[w]) = {}
    BY DEF IInv, SingleOwner
  <2>4. QED BY <1>2, <1>3, <2>1, <2>2, <2>3, InPipelineDef
<1>5. S \subseteq Pending /\ S \subseteq Accepted
  <2>1. Elems(batch[w]) \subseteq InPipeline
    BY InPipelineDef
  <2>2. Elems(batch[w]) \subseteq Accepted
    BY DEF IInv, TypeOK, SubmittedInv, Accepted, Elems
  <2>3. QED BY <2>1, <2>2 DEF Pending
<1>6. CASE flows' = flows
  <2>1. Pending' = Pending \ S /\ GivenUp' = GivenUp \cup S
    BY <1>1, <1>4, <1>5, <1>6, InPipelineDef DEF Pending, GivenUp
  <2>2. Log!GiveUp
    BY <1>1, <1>5, <1>6, <2>1 DEF Log!GiveUp, Pending, GivenUp, Refused
  <2>3. QED BY <2>2 DEF Log!Next
<1>7. CASE flows' = flows \cup Elems(batch[w])
  <2>1. flows' = flows \cup S /\ Pending' = Pending \ S /\ GivenUp' = GivenUp
    BY <1>1, <1>4, <1>5, <1>7 DEF Pending, GivenUp
  <2>2. Log!Keep
    BY <1>1, <1>5, <2>1 DEF Log!Keep, Pending, GivenUp, Refused
  <2>3. QED BY <2>2 DEF Log!Next
<1>8. QED BY <1>6, <1>7

(* Inserting a batch that stays in hand keeps its records, and no others.   *)
LEMMA KeepStep ==
    ASSUME IInv, NEW w \in Workers, UNCHANGED <<queue, batch, handler>>,
           flows' = flows \/ flows' = flows \cup Elems(batch[w])
    PROVE  [Log!Next]_(Log!vars)
<1> DEFINE S == Elems(batch[w]) \ flows
<1>1. Accepted' = Accepted /\ Refused' = Refused /\ InPipeline' = InPipeline
  BY DEF Accepted, Refused, InPipeline, Batched
<1>2. S \subseteq Pending
  BY InPipelineDef DEF Pending
<1>3. CASE flows' = flows
  BY <1>1, <1>3, StutterStep
<1>4. CASE flows' = flows \cup Elems(batch[w])
  <2>1. flows' = flows \cup S /\ Pending' = Pending \ S /\ GivenUp' = GivenUp
    BY <1>1, <1>2, <1>4 DEF Pending, GivenUp
  <2>2. Log!Keep
    BY <1>1, <1>2, <2>1 DEF Log!Keep, Pending, GivenUp, Refused
  <2>3. QED BY <2>2 DEF Log!Next
<1>5. QED BY <1>3, <1>4

(* A step of the recorder is a step of the abstract log, or a stutter.     *)
LEMMA StepRefines == IInv /\ [Next]_vars => [Log!Next]_(Log!vars)
<1> SUFFICES ASSUME IInv, [Next]_vars PROVE [Log!Next]_(Log!vars)
  OBVIOUS
<1>1. ASSUME NEW r \in Records, OpenConnection(r) \/ ClientGone(r) PROVE [Log!Next]_(Log!vars)
  <2>1. Accepted' = Accepted /\ Refused' = Refused
    BY <1>1 DEF OpenConnection, ClientGone, Accepted, Refused, IInv, TypeOK
  <2>2. UNCHANGED <<queue, batch, flows>>
    BY <1>1 DEF OpenConnection, ClientGone, pipeline, worker, database
  <2>3. InPipeline' = InPipeline
    BY <2>2 DEF InPipeline, Batched
  <2>4. QED BY <2>1, <2>2, <2>3, StutterStep
<1>2. ASSUME NEW r \in Records, Submit(r) PROVE [Log!Next]_(Log!vars)
  <2>1. /\ handler[r] \in {"open", "detached"}
        /\ UNCHANGED <<batch, flows>>
    BY <1>2 DEF Submit, worker, database
  <2>2. r \notin InPipeline /\ r \notin flows /\ r \notin Accepted /\ r \notin Refused
    BY <2>1, InPipelineDef DEF IInv, SubmittedInv, Accepted, Refused
  <2>3. CASE Enqueue(r)
    <3>1. Accepted' = Accepted \cup {r} /\ Refused' = Refused
      BY <2>1, <2>3 DEF Enqueue, Accepted, Refused, IInv, TypeOK
    <3>2. Elems(queue') = Elems(queue) \cup {r}
      BY <2>3, AppendElement DEF Enqueue, IInv, TypeOK
    <3>3. InPipeline' = InPipeline \cup {r}
      BY <2>1, <3>2 DEF InPipeline, Batched
    <3>4. Pending' = Pending \cup {r} /\ GivenUp' = GivenUp
      BY <2>1, <2>2, <3>1, <3>3 DEF Pending, GivenUp
    <3>5. r \in Log!Fresh
      BY <2>2 DEF Log!Fresh, Refused
    <3>6. Log!Accept
      BY <2>1, <3>1, <3>4, <3>5 DEF Log!Accept, Pending, GivenUp, Refused
    <3>7. QED BY <3>6 DEF Log!Next
  <2>4. CASE Drop(r)
    <3>1. Accepted' = Accepted /\ Refused' = Refused \cup {r}
      BY <2>1, <2>4 DEF Drop, Accepted, Refused, IInv, TypeOK
    <3>2. InPipeline' = InPipeline
      BY <2>1, <2>4 DEF Drop, InPipeline, Batched
    <3>3. Pending' = Pending /\ GivenUp' = GivenUp
      BY <2>1, <3>1, <3>2 DEF Pending, GivenUp
    <3>4. r \in Log!Fresh
      BY <2>2 DEF Log!Fresh, Refused
    <3>5. Log!Refuse
      BY <2>1, <3>1, <3>3, <3>4 DEF Log!Refuse, Pending, GivenUp, Refused
    <3>6. QED BY <3>5 DEF Log!Next
  <2>5. QED BY <1>2, <2>3, <2>4 DEF Submit
<1>3. ASSUME NEW w \in Workers, Take(w) PROVE [Log!Next]_(Log!vars)
  <2> DEFINE front == SubSeq(queue, 1, TakeSize)
             rest  == SubSeq(queue, TakeSize + 1, Len(queue))
  <2>1. /\ batch' = [batch EXCEPT ![w] = front] /\ queue' = rest
        /\ UNCHANGED <<handler, flows>> /\ batch[w] = <<>>
    BY <1>3 DEF Take, Goto, database, IInv, BatchInv
  <2>2. Elems(front) \cup Elems(rest) = Elems(queue)
    <3>1. TakeSize \in 1..Len(queue) /\ queue \in Seq(Records)
      BY <1>3, TakeSizeInRange DEF Take, IInv, TypeOK
    <3>2. Injective(queue)
      BY DEF IInv, SingleOwner, Injective
    <3>3. QED BY <3>1, <3>2, CutSequence
  <2> HIDE DEF front, rest
  <2>3. batch'[w] = front /\ \A x \in Workers : x # w => batch'[x] = batch[x]
    BY <2>1 DEF IInv, TypeOK
  <2>4. Elems(<<>>) = {}
    BY DEF Elems
  <2>5. \A r : r \in InPipeline' <=>
                 r \in Elems(rest) \/ \E x \in Workers : r \in Elems(batch'[x])
    BY <2>1 DEF InPipeline, Batched
  <2>6. InPipeline' = InPipeline
    BY <2>1, <2>2, <2>3, <2>4, <2>5, InPipelineDef
  <2>7. Accepted' = Accepted /\ Refused' = Refused
    BY <2>1 DEF Accepted, Refused
  <2>8. QED BY <2>1, <2>6, <2>7, StutterStep
<1>4. ASSUME NEW w \in Workers, Commit(w) PROVE [Log!Next]_(Log!vars)
  BY <1>4, KeepStep DEF Commit, InsertRows, pipeline
<1>5. ASSUME NEW w \in Workers, CommitFails(w) PROVE [Log!Next]_(Log!vars)
  <2>1. EmptyBatch(w) /\ queue' = queue /\ handler' = handler
    BY <1>5 DEF CommitFails, AbandonBatch, pipeline
  <2>2. flows' = flows \/ flows' = flows \cup Elems(batch[w])
    BY <1>5 DEF CommitFails, InsertRows, database
  <2>3. QED BY <2>1, <2>2, SettleStep
<1>6. ASSUME NEW w \in Workers, Publish(w) PROVE [Log!Next]_(Log!vars)
  <2>1. EmptyBatch(w) /\ queue' = queue /\ handler' = handler /\ flows' = flows
    BY <1>6 DEF Publish, pipeline, database
  <2>2. QED BY <2>1, SettleStep
<1>7. ASSUME NEW w \in Workers, PersistBodies(w) \/ Wake(w) \/ Cancelled(w)
      PROVE  [Log!Next]_(Log!vars)
  <2>1. UNCHANGED <<queue, batch, handler>>
    BY <1>7 DEF PersistBodies, Wake, Cancelled, CancelIdle, CancelUpload, CancelCommit,
       CancelPublish, FinalFlush, pipeline
  <2>2. flows' = flows \/ flows' = flows \cup Elems(batch[w])
    BY <1>7 DEF PersistBodies, Wake, Cancelled, CancelIdle, CancelUpload, CancelCommit,
       CancelPublish, InsertRows, database
  <2>3. QED BY <2>1, <2>2, KeepStep
<1>8. ASSUME SigTerm \/ StopWorkers \/ Close \/ (\E k \in Rules : DeleteRule(k)) \/ UNCHANGED vars
      PROVE  [Log!Next]_(Log!vars)
  <2>1. UNCHANGED <<queue, batch, flows, handler>>
    BY <1>8 DEF SigTerm, StopWorkers, Close, DeleteRule, vars, pipeline, worker, database
  <2>2. InPipeline' = InPipeline /\ Accepted' = Accepted /\ Refused' = Refused
    BY <2>1 DEF InPipeline, Batched, Accepted, Refused
  <2>3. QED BY <2>1, <2>2, StutterStep
<1>9. QED
  BY <1>1, <1>2, <1>3, <1>4, <1>5, <1>6, <1>7, <1>8 DEF Next, Handler, WorkerStep, Flush

(* The recorder implements CaptureLog: every record ends refused, kept or   *)
(* given up, for good, and rows appear a whole batch at a time.            *)
THEOREM RecorderImplementsLog == Spec => ImplementsLog
<1>1. Init => Log!Init
  <2>1. Elems(<<>>) = {}
    BY DEF Elems
  <2>2. QED BY <2>1 DEF Init, Log!Init, InPipeline, Batched, Accepted
<1>2. QED BY <1>1, SpecIInv, StepRefines, PTL DEF Spec, Log!Spec, ImplementsLog

-----------------------------------------------------------------------------
(* A worker ends by its cancellation while it has nothing in hand, or by    *)
(* the flush that the cancellation began.                                   *)
LEMMA EndsFlushed ==
    ASSUME IInv, [Next]_vars, NEW w \in Workers, pc'[w] = "done", pc[w] # "done"
    PROVE  Elems(batch[w]) \subseteq flows' \/ final[w]
<1>t. pc \in [Workers -> Labels] /\ pc' # pc
  BY DEF IInv, TypeOK
<1>1. PICK v \in Workers : WorkerStep(v)
  BY <1>t DEF Next, Handler, OpenConnection, ClientGone, Submit, SigTerm, StopWorkers, Close,
              DeleteRule, vars, worker
<1>2. v = w
  <2>1. PICK label \in Labels : pc' = [pc EXCEPT ![v] = label]
    BY <1>t, <1>1 DEF WorkerStep, Take, Flush, PersistBodies, Commit, CommitFails, AbandonBatch,
                      Publish, Wake, Cancelled, CancelIdle, CancelUpload, CancelCommit,
                      CancelPublish, FinalFlush, Goto, Labels
  <2>2. QED BY <1>t, <2>1
<1>3. CASE CommitFails(w) \/ Publish(w)
  BY <1>t, <1>3 DEF CommitFails, Publish, AbandonBatch, Goto
<1>4. CASE CancelIdle(w)
  <2>1. batch[w] = <<>>
    BY <1>4 DEF CancelIdle, IInv, BatchInv
  <2>2. QED BY <2>1 DEF Elems
<1>5. CASE ~(CommitFails(w) \/ Publish(w) \/ CancelIdle(w))
  BY <1>t, <1>1, <1>2, <1>5 DEF WorkerStep, Take, Flush, PersistBodies, Commit, Wake, Cancelled,
                    CancelUpload, CancelCommit, CancelPublish, FinalFlush, Goto
<1>6. QED BY <1>3, <1>4, <1>5

(* However the cancellation of Recorder.stop falls, and with any number of  *)
(* workers and any faults: none ends with a batch it has not tried to flush *)
(* once more.                                                              *)
THEOREM CancelCorrect == Spec => CancelFlushesBatch
<1>1. IInv /\ [Next]_vars =>
        [\A w \in Workers : pc'[w] = "done" /\ pc[w] # "done" =>
            Elems(batch[w]) \subseteq flows' \/ final[w]]_vars
  BY EndsFlushed
<1>2. QED BY <1>1, SpecIInv, PTL DEF Spec, CancelFlushesBatch
=============================================================================
