---------------------------- MODULE Authorities -----------------------------
(***************************************************************************)
(* The rows of certificate_authorities under concurrent requests           *)
(* (services/api/app/routers/ca.py).  A request is a transaction at READ   *)
(* COMMITTED: a statement sees the rows committed before it, a row that a  *)
(* transaction has updated is locked until it ends, and a deadlock or a    *)
(* lost connection aborts.  ConfigSync has the announcements.              *)
(***************************************************************************)
EXTENDS Integers, FiniteSets

CONSTANTS CaHandlers,    \* requests in flight
          CAs,           \* authorities, those not inserted yet included
          MaxCaRequests  \* bound: requests

ASSUME CAsAssumption == CAs # {}
ASSUME CaBoundAssumption == MaxCaRequests \in Nat

VARIABLES present,    \* committed rows
          active,     \* committed rows with is_active
          op,         \* per handler: "none", "insert", "activate" or "delete"
          at,         \* per handler: "idle", "read", "others" or "own"
          row,        \* per handler: the row it is about
          loaded,     \* per handler: is_active as it read it, or will insert it
          todo,       \* per handler: rows _deactivate_others has still to update
          off,        \* per handler: rows it has set inactive, locked until it ends
          alone,      \* per handler: no other request has overlapped it
          used,       \* ids taken from the sequence, never given twice
          born,       \* rows whose inserting request was overlapped by another
          caRequests  \* requests begun

table == <<present, active, born>>
caVars == <<table, used, op, at, row, loaded, todo, off, alone, caRequests>>

Open == {h \in CaHandlers : at[h] # "idle"}

CaInit == /\ present = {} /\ active = {} /\ born = {} /\ used = {}
          /\ op = [h \in CaHandlers |-> "none"]
          /\ at = [h \in CaHandlers |-> "idle"]
          /\ row = [h \in CaHandlers |-> CHOOSE r \in CAs : TRUE]
          /\ loaded = [h \in CaHandlers |-> FALSE]
          /\ todo = [h \in CaHandlers |-> {}]
          /\ off = [h \in CaHandlers |-> {}]
          /\ alone = [h \in CaHandlers |-> TRUE]
          /\ caRequests = 0

-----------------------------------------------------------------------------
(* A request begins: whoever is at work is no longer alone. *)
CaBegin(h, o, r, isActive, label) ==
    /\ at[h] = "idle" /\ caRequests < MaxCaRequests
    /\ caRequests' = caRequests + 1
    /\ op' = [op EXCEPT ![h] = o]
    /\ row' = [row EXCEPT ![h] = r]
    /\ loaded' = [loaded EXCEPT ![h] = isActive]
    /\ at' = [at EXCEPT ![h] = label]
    /\ todo' = [todo EXCEPT ![h] = {}]
    /\ off' = [off EXCEPT ![h] = {}]
    /\ alone' = [g \in CaHandlers |-> IF g = h THEN Open = {} ELSE alone[g] /\ g \notin Open]
    /\ UNCHANGED table

Goto(h, label) == at' = [at EXCEPT ![h] = label]

(* generate_ca and import_ca up to the flush; a taken name is a 409 and no  *)
(* request here.  The new row is seen by nobody before its commit.         *)
BeginInsert(h) ==
    \E r \in CAs \ used, activate \in BOOLEAN :
        /\ CaBegin(h, "insert", r, activate, IF activate THEN "read" ELSE "own")
        /\ used' = used \cup {r}

(* activate_ca and delete_ca read their row; 404 and 400 are no request.    *)
BeginActivate(h) == /\ \E r \in present : CaBegin(h, "activate", r, r \in active, "read")
                    /\ UNCHANGED used
BeginDelete(h) == /\ \E r \in present \ active : CaBegin(h, "delete", r, FALSE, "own")
                  /\ UNCHANGED used

\* Mutant of Deactivate: only the rows that look active are updated.
DeactivateActive(h) ==
    /\ at[h] = "read"
    /\ todo' = [todo EXCEPT ![h] = active \ {row[h]}]
    /\ Goto(h, "others")
    /\ UNCHANGED <<table, used, op, row, loaded, off, alone, caRequests>>

(* _deactivate_others begins: the statement sees what is committed now. *)
Deactivate(h) ==
    /\ at[h] = "read"
    /\ todo' = [todo EXCEPT ![h] = present \ {row[h]}]
    /\ Goto(h, "others")
    /\ UNCHANGED <<table, used, op, row, loaded, off, alone, caRequests>>

Locked(h, r) == \E g \in CaHandlers \ {h} : r \in off[g]

(* It updates one row after the other, waits for locked ones and skips      *)
(* those that have been deleted meanwhile.                                 *)
UpdateRow(h) ==
    /\ at[h] = "others"
    /\ \E r \in todo[h] :
          /\ ~Locked(h, r)
          /\ todo' = [todo EXCEPT ![h] = @ \ {r}]
          /\ off' = [off EXCEPT ![h] = IF r \in present THEN @ \cup {r} ELSE @]
    /\ UNCHANGED <<table, used, op, at, row, loaded, alone, caRequests>>

OthersUpdated(h) == /\ at[h] = "others" /\ todo[h] = {}
                    /\ Goto(h, "own")
                    /\ UNCHANGED <<table, used, op, row, loaded, todo, off, alone, caRequests>>

(* The unit of work writes is_active only when it changes it, so that an    *)
(* authority that was read as active is not written again.                 *)
Writes(h) == op[h] = "delete" \/ (op[h] = "activate" /\ ~loaded[h])

\* Mutant of NowActive: the others are left as they are.
NowActiveAll(h) == active \cup (IF loaded[h] \/ op[h] = "activate" THEN {row[h]} ELSE {})

(* The active rows a commit leaves. *)
NowActive(h) ==
    IF op[h] = "delete" THEN active \ {row[h]}
    ELSE (active \ off[h])
         \cup (IF loaded[h] <=> op[h] = "insert" THEN {row[h]} ELSE {})

End(h) == /\ at' = [at EXCEPT ![h] = "idle"]
          /\ off' = [off EXCEPT ![h] = {}]
          /\ UNCHANGED <<used, op, row, loaded, todo, alone, caRequests>>

\* Mutant of StillThere: the update of a deleted row is taken for done.
StillThereAssumed(h) == TRUE

(* An UPDATE of a row that is gone is a StaleDataError. *)
StillThere(h) == op[h] = "activate" /\ ~loaded[h] => row[h] \in present

(* session.commit: the unit of work flushes the row itself, which may be    *)
(* locked (wait), and the audit row.                                       *)
CaCommit(h) ==
    /\ at[h] = "own"
    /\ Writes(h) => ~Locked(h, row[h])
    /\ StillThere(h)
    /\ present' = IF op[h] = "insert" THEN present \cup {row[h]}
                  ELSE IF op[h] = "delete" THEN present \ {row[h]}
                  ELSE present
    /\ active' = NowActive(h)
    /\ born' = IF op[h] = "insert" /\ ~alone[h] THEN born \cup {row[h]} ELSE born
    /\ End(h)

(* A deadlock, a stale row or a lost connection: the exception leaves the   *)
(* session's context, which rolls back.                                    *)
CaAbort(h) == /\ at[h] # "idle"
              /\ End(h)
              /\ UNCHANGED table

CaRequest(h) == \/ BeginInsert(h) \/ BeginActivate(h) \/ BeginDelete(h)
                \/ Deactivate(h) \/ UpdateRow(h) \/ OthersUpdated(h) \/ CaCommit(h) \/ CaAbort(h)

CaNext == \E h \in CaHandlers : CaRequest(h)

CaSpec == CaInit /\ [][CaNext]_caVars

-----------------------------------------------------------------------------
(* Every variable has its type, and only rows are active. *)
CaTypeOK == /\ present \subseteq used /\ active \subseteq present /\ born \subseteq CAs
            /\ used \subseteq CAs
            /\ op \in [CaHandlers -> {"none", "insert", "activate", "delete"}]
            /\ at \in [CaHandlers -> {"idle", "read", "others", "own"}]
            /\ row \in [CaHandlers -> CAs]
            /\ loaded \in [CaHandlers -> BOOLEAN] /\ alone \in [CaHandlers -> BOOLEAN]
            /\ todo \in [CaHandlers -> SUBSET CAs] /\ off \in [CaHandlers -> SUBSET CAs]
            /\ caRequests \in 0..MaxCaRequests

(* Two authorities are active at once only when one of them was inserted by *)
(* a request that overlapped another: _deactivate_others updates every     *)
(* row there is, the inactive ones too, so that any number of concurrent   *)
(* activations of existing rows ends with one active authority at most.    *)
TwoActiveNeedsInsert == \A a, b \in active : a = b \/ a \in born \/ b \in born

(* A request that no other overlaps leaves exactly the authority it         *)
(* activates; one that activates none leaves the active ones alone.        *)
SoloKeepsOne ==
    [][\A h \in CaHandlers :
          at[h] = "own" /\ at'[h] = "idle" /\ alone[h] /\ <<present, active>>' # <<present, active>>
          => IF op[h] = "activate" \/ (op[h] = "insert" /\ loaded[h])
             THEN active' = {row[h]} ELSE active' = active]_caVars
=============================================================================
