------------------------ MODULE AdministrationProofs ------------------------
(***************************************************************************)
(* Proofs about what administrators change in the database: authorities,   *)
(* for any number of requests in flight and of rows; rules, for every body *)
(* of a request and whatever patterns and networks match; users while any  *)
(* number of replicas start; and the three of them side by side, as         *)
(* MCAdministration checks them.                                           *)
(***************************************************************************)
EXTENDS MCAdministration, TLAPS

-----------------------------------------------------------------------------
(* Authorities.tla: generate, import, activate and delete of routers/ca.py.*)

Activates(h) == op[h] = "activate" \/ (op[h] = "insert" /\ loaded[h])

(* A request knows its row; one that no other has overlapped is the only    *)
(* one, and what it read still holds.                                      *)
CaRequestInv(h) ==
    at[h] # "idle" =>
        /\ op[h] # "none" /\ row[h] \in used
        /\ op[h] = "delete" => ~loaded[h]
        /\ alone[h] => /\ \A g \in CaHandlers \ {h} : at[g] = "idle"
                       /\ op[h] # "insert" => (loaded[h] <=> row[h] \in active)

(* Only a request that activates touches other rows, and never its own.     *)
OthersInv(h) == /\ row[h] \notin todo[h] \cup off[h]
                /\ at[h] = "own" => todo[h] = {}
                /\ ~Activates(h) => at[h] \notin {"read", "others"} /\ off[h] = {}

(* Once _deactivate_others has begun, every row is its own, still to be     *)
(* updated, updated, or was inserted by a request that it overlaps.        *)
CoverInv(h) ==
    at[h] \in {"others", "own"} /\ Activates(h) =>
        \A r \in present : r = row[h] \/ r \in todo[h] \cup off[h] \/ (~alone[h] /\ r \in born)

CaHandlerInv(h) == CaRequestInv(h) /\ OthersInv(h) /\ CoverInv(h)

CaInv == CaTypeOK /\ TwoActiveNeedsInsert /\ \A h \in CaHandlers : CaHandlerInv(h)

-----------------------------------------------------------------------------
LEMMA CaInitInv == CaInit => CaInv
<1> SUFFICES ASSUME CaInit PROVE CaInv
  OBVIOUS
<1>1. (CHOOSE r \in CAs : TRUE) \in CAs
  BY CAsAssumption
<1>2. CaTypeOK
  BY <1>1, CaBoundAssumption DEF CaInit, CaTypeOK
<1>3. QED BY <1>2 DEF CaInit, CaInv, TwoActiveNeedsInsert, CaHandlerInv, CaRequestInv,
                 OthersInv, CoverInv, Activates

(* A request begins with nothing to update, and no other is alone any more. *)
LEMMA CaBeginStep ==
    ASSUME CaInv, NEW h \in CaHandlers, NEW o \in {"insert", "activate", "delete"},
           NEW r \in CAs, NEW b \in BOOLEAN, NEW label \in {"read", "own"},
           CaBegin(h, o, r, b, label), used \subseteq used', used' \subseteq CAs, r \in used',
           o = "delete" => ~b, o # "insert" => (b <=> r \in active),
           label = "own" <=> ~(o = "activate" \/ (o = "insert" /\ b))
    PROVE  CaInv'
<1>1. CaTypeOK'
  <2>1. /\ present' \subseteq used' /\ active' \subseteq present' /\ born' \subseteq CAs
        /\ caRequests' \in 0 .. MaxCaRequests
    BY CaBoundAssumption DEF CaInv, CaTypeOK, CaBegin, table
  <2>2. /\ op' \in [CaHandlers -> {"none", "insert", "activate", "delete"}]
        /\ at' \in [CaHandlers -> {"idle", "read", "others", "own"}]
        /\ row' \in [CaHandlers -> CAs]
    BY DEF CaInv, CaTypeOK, CaBegin
  <2>3. loaded' \in [CaHandlers -> BOOLEAN]
    BY DEF CaInv, CaTypeOK, CaBegin
  <2>4. alone' \in [CaHandlers -> BOOLEAN]
    <3>1. \A g \in CaHandlers : (IF g = h THEN Open = {} ELSE alone[g] /\ g \notin Open) \in BOOLEAN
      OBVIOUS
    <3>2. QED BY <3>1, Zenon DEF CaBegin
  <2>5. todo' \in [CaHandlers -> SUBSET CAs] /\ off' \in [CaHandlers -> SUBSET CAs]
    BY DEF CaInv, CaTypeOK, CaBegin
  <2>6. QED BY <2>1, <2>2, <2>3, <2>4, <2>5 DEF CaTypeOK
<1>2. TwoActiveNeedsInsert'
  BY DEF CaInv, TwoActiveNeedsInsert, CaBegin, table
<1>3. ASSUME NEW g \in CaHandlers PROVE CaHandlerInv(g)'
  <2>1. CaHandlerInv(g) /\ g \in CaHandlers /\ CaTypeOK
    BY DEF CaInv
  <2>2. CASE g = h
    <3>1. /\ at'[h] = label /\ op'[h] = o /\ row'[h] = r /\ loaded'[h] = b
          /\ todo'[h] = {} /\ off'[h] = {} /\ alone'[h] = (Open = {}) /\ active' = active
      BY DEF CaBegin, CaInv, CaTypeOK, table
    <3>2. alone'[h] => \A f \in CaHandlers \ {h} : at'[f] = "idle"
      BY <2>1, <3>1 DEF CaBegin, Open, CaTypeOK
    <3>3. QED BY <2>2, <3>1, <3>2 DEF CaHandlerInv, CaRequestInv, OthersInv, CoverInv, Activates
  <2>3. CASE g # h
    <3>1. /\ at'[g] = at[g] /\ op'[g] = op[g] /\ row'[g] = row[g] /\ loaded'[g] = loaded[g]
          /\ todo'[g] = todo[g] /\ off'[g] = off[g] /\ active' = active
          /\ present' = present /\ born' = born
      BY <2>1, <2>3 DEF CaBegin, CaTypeOK, table
    <3>2. alone'[g] => alone[g] /\ at[g] = "idle"
      BY <2>1, <2>3 DEF CaBegin, CaTypeOK, Open
    <3>3. ~alone[g] => ~alone'[g]
      BY <3>2
    <3>4. CaRequestInv(g)'
      BY <2>1, <3>1, <3>2 DEF CaHandlerInv, CaRequestInv
    <3>5. OthersInv(g)' /\ CoverInv(g)'
      BY <2>1, <3>1, <3>3 DEF CaHandlerInv, OthersInv, CoverInv, Activates
    <3>6. QED BY <3>4, <3>5 DEF CaHandlerInv
  <2>4. QED BY <2>2, <2>3
<1>4. QED BY <1>1, <1>2, <1>3 DEF CaInv

(* The steps of _deactivate_others, which commit nothing.                   *)
LEMMA OthersStep ==
    ASSUME CaInv, NEW h \in CaHandlers, Deactivate(h) \/ UpdateRow(h) \/ OthersUpdated(h)
    PROVE  CaInv'
<1>1. /\ UNCHANGED <<present, active, born, used, op, row, loaded, alone, caRequests>>
      /\ \A g \in CaHandlers \ {h} : at'[g] = at[g] /\ todo'[g] = todo[g] /\ off'[g] = off[g]
      /\ at[h] # "idle" /\ at'[h] # "idle"
  BY DEF CaInv, CaTypeOK, Deactivate, UpdateRow, OthersUpdated, table, Goto
<1>2. CaTypeOK'
  <2>1. CASE Deactivate(h)
    BY <2>1 DEF CaInv, CaTypeOK, Deactivate, Goto, table
  <2>2. CASE UpdateRow(h)
    BY <2>2 DEF CaInv, CaTypeOK, UpdateRow, table
  <2>3. CASE OthersUpdated(h)
    BY <2>3 DEF CaInv, CaTypeOK, OthersUpdated, Goto, table
  <2>4. QED BY <2>1, <2>2, <2>3
<1>3. TwoActiveNeedsInsert'
  BY <1>1 DEF CaInv, TwoActiveNeedsInsert
<1>4. ASSUME NEW g \in CaHandlers, g # h PROVE CaHandlerInv(g)'
  <2>1. CaRequestInv(g)'
    BY <1>1, <1>4 DEF CaInv, CaHandlerInv, CaRequestInv
  <2>2. OthersInv(g)' /\ CoverInv(g)'
    BY <1>1, <1>4 DEF CaInv, CaHandlerInv, OthersInv, CoverInv, Activates
  <2>3. QED BY <2>1, <2>2 DEF CaHandlerInv
<1>5. CaRequestInv(h)'
  BY <1>1 DEF CaInv, CaHandlerInv, CaRequestInv
<1>6. CaHandlerInv(h) /\ CaTypeOK
  BY DEF CaInv
<1>7. OthersInv(h)' /\ CoverInv(h)'
  <2>1. CASE Deactivate(h)
    <3>1. /\ at[h] = "read" /\ at'[h] = "others" /\ todo'[h] = present \ {row[h]}
          /\ off' = off
      BY <2>1, <1>6 DEF Deactivate, Goto, CaTypeOK
    <3>2. QED BY <1>1, <1>6, <3>1 DEF CaHandlerInv, OthersInv, CoverInv, Activates
  <2>2. CASE UpdateRow(h)
    <3>1. PICK r \in todo[h] :
            /\ at[h] = "others" /\ at' = at /\ todo'[h] = todo[h] \ {r}
            /\ off'[h] = IF r \in present THEN off[h] \cup {r} ELSE off[h]
      BY <2>2, <1>6 DEF UpdateRow, CaTypeOK
    <3>2. QED BY <1>1, <1>6, <3>1 DEF CaHandlerInv, OthersInv, CoverInv, Activates
  <2>3. CASE OthersUpdated(h)
    <3>1. at[h] = "others" /\ at'[h] = "own" /\ todo[h] = {} /\ todo' = todo /\ off' = off
      BY <2>3, <1>6 DEF OthersUpdated, Goto, CaTypeOK
    <3>2. QED BY <1>1, <1>6, <3>1 DEF CaHandlerInv, OthersInv, CoverInv, Activates
  <2>4. QED BY <2>1, <2>2, <2>3
<1>8. QED BY <1>2, <1>3, <1>4, <1>5, <1>7 DEF CaInv, CaHandlerInv

(* The rows that a request leaves active, where it has reached its commit.  *)
LEMMA CommitActive ==
    ASSUME CaInv, NEW h \in CaHandlers, CaCommit(h)
    PROVE  /\ Activates(h) => active' \subseteq {row[h]} \cup (IF alone[h] THEN {} ELSE born)
           /\ Activates(h) \/ active' \subseteq active
           /\ active' \subseteq active \cup {row[h]}
           /\ active' \subseteq present'
<1>1. /\ at[h] = "own" /\ StillThere(h) /\ active' = NowActive(h) /\ CaHandlerInv(h) /\ CaTypeOK
      /\ present' = IF op[h] = "insert" THEN present \cup {row[h]}
                    ELSE IF op[h] = "delete" THEN present \ {row[h]}
                    ELSE present
  BY DEF CaCommit, CaInv
<1>2. active \subseteq present /\ todo[h] = {} /\ op[h] \in {"insert", "activate", "delete"}
  BY <1>1 DEF CaHandlerInv, CaRequestInv, OthersInv, CaTypeOK
<1>3. Activates(h) => active \ off[h] \subseteq {row[h]} \cup (IF alone[h] THEN {} ELSE born)
  BY <1>1, <1>2 DEF CaHandlerInv, CoverInv
<1>4. CASE op[h] = "delete"
  BY <1>1, <1>2, <1>4 DEF NowActive, Activates
<1>5. CASE op[h] = "insert"
  BY <1>1, <1>2, <1>3, <1>5 DEF NowActive, Activates
<1>6. CASE op[h] = "activate"
  <2>1. present' = present /\ active' = (active \ off[h]) \cup (IF loaded[h] THEN {} ELSE {row[h]})
    BY <1>1, <1>6 DEF NowActive
  <2>2. ~loaded[h] => row[h] \in present
    BY <1>1, <1>6 DEF StillThere
  <2>3. QED BY <1>2, <1>3, <1>6, <2>1, <2>2 DEF Activates
<1>7. QED BY <1>2, <1>4, <1>5, <1>6

LEMMA CaEndStep ==
    ASSUME CaInv, NEW h \in CaHandlers, CaCommit(h) \/ CaAbort(h)
    PROVE  CaInv'
<1>1. /\ UNCHANGED <<used, op, row, loaded, todo, alone, caRequests>>
      /\ at' = [at EXCEPT ![h] = "idle"] /\ off' = [off EXCEPT ![h] = {}]
      /\ at[h] # "idle"
  BY DEF CaCommit, CaAbort, End, CaInv
<1>2. CASE CaAbort(h)
  <2>1. present' = present /\ active' = active /\ born' = born
    BY <1>2 DEF CaAbort, table
  <2>2. CaTypeOK' /\ TwoActiveNeedsInsert'
    BY <1>1, <2>1 DEF CaInv, CaTypeOK, TwoActiveNeedsInsert
  <2>3. ASSUME NEW g \in CaHandlers PROVE CaHandlerInv(g)'
    <3>1. at'[g] = IF g = h THEN "idle" ELSE at[g]
      BY <1>1 DEF CaInv, CaTypeOK
    <3>2. off'[g] = IF g = h THEN {} ELSE off[g]
      BY <1>1 DEF CaInv, CaTypeOK
    <3>3. CaRequestInv(g)'
      BY <1>1, <2>1, <3>1 DEF CaInv, CaTypeOK, CaHandlerInv, CaRequestInv
    <3>4. OthersInv(g)' /\ CoverInv(g)'
      BY <1>1, <2>1, <3>1, <3>2 DEF CaInv, CaHandlerInv, OthersInv, CoverInv, Activates
    <3>5. QED BY <3>3, <3>4 DEF CaHandlerInv
  <2>4. QED BY <2>2, <2>3 DEF CaInv
<1>3. CASE CaCommit(h)
  <2>1. /\ present' \subseteq present \cup (IF op[h] = "insert" THEN {row[h]} ELSE {})
        /\ born' = IF op[h] = "insert" /\ ~alone[h] THEN born \cup {row[h]} ELSE born
        /\ CaHandlerInv(h) /\ at[h] = "own"
    BY <1>3 DEF CaCommit, CaInv
  <2>2. /\ Activates(h) => active' \subseteq {row[h]} \cup (IF alone[h] THEN {} ELSE born)
        /\ Activates(h) \/ active' \subseteq active
        /\ active' \subseteq present'
    BY <1>3, CommitActive
  <2>3. CaTypeOK'
    <3>1. row[h] \in used /\ CaTypeOK
      BY <2>1 DEF CaInv, CaHandlerInv, CaRequestInv
    <3>2. QED BY <1>1, <2>1, <2>2, <3>1 DEF CaTypeOK
  <2>4. TwoActiveNeedsInsert'
    <3>1. \A a, b \in active : a = b \/ a \in born \/ b \in born
      BY DEF CaInv, TwoActiveNeedsInsert
    <3>2. QED BY <2>1, <2>2, <3>1 DEF TwoActiveNeedsInsert
  <2>5. ASSUME NEW g \in CaHandlers PROVE CaHandlerInv(g)'
    <3>1. at'[g] = IF g = h THEN "idle" ELSE at[g]
      BY <1>1 DEF CaInv, CaTypeOK
    <3>2. off'[g] = IF g = h THEN {} ELSE off[g]
      BY <1>1 DEF CaInv, CaTypeOK
    <3>3. CaHandlerInv(g) /\ CaTypeOK
      BY DEF CaInv
    <3>4. g # h /\ at[g] # "idle" => ~alone[g] /\ ~alone[h]
      BY <1>1, <2>1, <3>3 DEF CaHandlerInv, CaRequestInv
    <3>5. CaRequestInv(g)'
      BY <1>1, <3>1, <3>3, <3>4 DEF CaHandlerInv, CaRequestInv
    <3>6. OthersInv(g)'
      BY <1>1, <3>1, <3>2, <3>3 DEF CaHandlerInv, OthersInv, Activates
    <3>7. CoverInv(g)'
      BY <1>1, <2>1, <3>1, <3>2, <3>3, <3>4 DEF CaHandlerInv, CoverInv, Activates
    <3>8. QED BY <3>5, <3>6, <3>7 DEF CaHandlerInv
  <2>6. QED BY <2>3, <2>4, <2>5 DEF CaInv
<1>4. QED BY <1>2, <1>3

LEMMA CaStepInv == CaInv /\ [CaNext]_caVars => CaInv'
<1> SUFFICES ASSUME CaInv, [CaNext]_caVars PROVE CaInv'
  OBVIOUS
<1>1. ASSUME NEW h \in CaHandlers, CaRequest(h) PROVE CaInv'
  <2>1. CASE BeginInsert(h)
    <3>1. PICK r \in CAs \ used, b \in BOOLEAN :
            CaBegin(h, "insert", r, b, IF b THEN "read" ELSE "own") /\ used' = used \cup {r}
      BY <2>1 DEF BeginInsert
    <3>2. used \subseteq CAs
      BY DEF CaInv, CaTypeOK
    <3>3. QED BY <3>1, <3>2, CaBeginStep
  <2>2. CASE BeginActivate(h)
    <3>1. PICK r \in present : CaBegin(h, "activate", r, r \in active, "read") /\ used' = used
      BY <2>2 DEF BeginActivate
    <3>2. used \subseteq CAs /\ r \in used
      BY <3>1 DEF CaInv, CaTypeOK
    <3> DEFINE b == r \in active
    <3>3. b \in BOOLEAN /\ (b <=> r \in active) /\ CaBegin(h, "activate", r, b, "read")
      BY <3>1
    <3> HIDE DEF b
    <3>4. QED BY <3>1, <3>2, <3>3, CaBeginStep
  <2>3. CASE BeginDelete(h)
    <3>1. PICK r \in present \ active : CaBegin(h, "delete", r, FALSE, "own") /\ used' = used
      BY <2>3 DEF BeginDelete
    <3>2. used \subseteq CAs /\ r \in used
      BY <3>1 DEF CaInv, CaTypeOK
    <3>3. QED BY <3>1, <3>2, CaBeginStep
  <2>4. CASE Deactivate(h) \/ UpdateRow(h) \/ OthersUpdated(h)
    BY <2>4, OthersStep
  <2>5. CASE CaCommit(h) \/ CaAbort(h)
    BY <2>5, CaEndStep
  <2>6. QED BY <1>1, <2>1, <2>2, <2>3, <2>4, <2>5 DEF CaRequest
<1>2. CASE UNCHANGED caVars
  <2>1. /\ present' = present /\ active' = active /\ born' = born /\ used' = used /\ op' = op
        /\ at' = at /\ row' = row /\ loaded' = loaded /\ todo' = todo /\ off' = off
        /\ alone' = alone /\ caRequests' = caRequests
    BY <1>2 DEF caVars, table
  <2>2. QED BY <2>1 DEF CaInv, CaTypeOK, TwoActiveNeedsInsert, CaHandlerInv, CaRequestInv,
                       OthersInv, CoverInv, Activates
<1>3. QED BY <1>1, <1>2 DEF CaNext

LEMMA CaInvariance == CaSpec => []CaInv
<1>1. CaInit => CaInv
  BY CaInitInv
<1>2. CaInv /\ [CaNext]_caVars => CaInv'
  BY CaStepInv
<1>3. QED BY <1>1, <1>2, PTL DEF CaSpec

-----------------------------------------------------------------------------
(* Only rows are active, an id is given once, and every variable has its    *)
(* type, for any number of requests (the tables of routers/ca.py).         *)
THEOREM CaTypeCorrect == CaSpec => []CaTypeOK
<1>1. CaInv => CaTypeOK
  BY DEF CaInv
<1>2. QED BY <1>1, CaInvariance, PTL

(* However many requests run at once, two authorities are active only when  *)
(* one of them was inserted by an overlapped generate or import.           *)
THEOREM ActiveCorrect == CaSpec => []TwoActiveNeedsInsert
<1>1. CaInv => TwoActiveNeedsInsert
  BY DEF CaInv
<1>2. QED BY <1>1, CaInvariance, PTL

(* A request that runs alone leaves exactly the authority it activates, and *)
(* one that activates none leaves the active ones alone.                   *)
THEOREM SoloCorrect == CaSpec => SoloKeepsOne
<1> DEFINE Solo(h) == at[h] = "own" /\ at'[h] = "idle" /\ alone[h]
                      /\ <<present, active>>' # <<present, active>>
           Kept(h) == IF Activates(h) THEN active' = {row[h]} ELSE active' = active
<1>1. ASSUME CaInv, [CaNext]_caVars, NEW h \in CaHandlers, Solo(h) PROVE Kept(h)
  <2>1. at'[h] # at[h] /\ <<present, active>>' # <<present, active>>
    BY <1>1
  <2>2. PICK g \in CaHandlers : CaRequest(g)
    BY <1>1, <2>1 DEF CaNext, caVars, table
  <2>3. CaCommit(g)
    BY <2>1, <2>2 DEF CaRequest, BeginInsert, BeginActivate, BeginDelete, CaBegin, Deactivate,
                      UpdateRow, OthersUpdated, CaAbort, table
  <2>4. g = h
    BY <1>1, <2>1, <2>3 DEF CaCommit, End, CaInv, CaTypeOK
  <2>5. CaCommit(h) /\ CaHandlerInv(h) /\ active' = NowActive(h)
    BY <1>1, <2>3, <2>4 DEF CaInv, CaCommit
  <2>6. /\ op[h] \in {"insert", "activate", "delete"} /\ row[h] \notin off[h]
        /\ op[h] # "insert" => (loaded[h] <=> row[h] \in active)
        /\ op[h] = "delete" => ~loaded[h]
        /\ ~Activates(h) => off[h] = {}
    BY <1>1, <2>5 DEF CaInv, CaTypeOK, CaHandlerInv, CaRequestInv, OthersInv
  <2>7. Activates(h) => active' \subseteq {row[h]}
    BY <1>1, <2>5, CommitActive
  <2>8. CASE op[h] = "delete"
    BY <2>5, <2>6, <2>8 DEF NowActive, Activates
  <2>9. CASE op[h] = "insert"
    BY <2>5, <2>6, <2>7, <2>9 DEF NowActive, Activates
  <2>10. CASE op[h] = "activate"
    BY <2>5, <2>6, <2>7, <2>10 DEF NowActive, Activates
  <2>11. QED BY <2>6, <2>8, <2>9, <2>10
<1>2. CaInv /\ [CaNext]_caVars =>
        [\A h \in CaHandlers :
            at[h] = "own" /\ at'[h] = "idle" /\ alone[h]
            /\ <<present, active>>' # <<present, active>>
            => IF op[h] = "activate" \/ (op[h] = "insert" /\ loaded[h])
               THEN active' = {row[h]} ELSE active' = active]_caVars
  BY <1>1 DEF Activates
<1>3. QED BY <1>2, CaInvariance, PTL DEF CaSpec, SoloKeepsOne

-----------------------------------------------------------------------------
(* Policies.tla: the table of rules, the dry run and the engine.          *)

(* A rule that is there, or under way, has passed a validator.              *)
RuleInv(i) == ValidCidr(rules[i].cidr)
EditInv(h) ==
    /\ edit[h].kind = "create" => /\ ValidCidr(edit[h].rule.cidr) /\ DOMAIN edit[h].rule = Columns
                                  /\ edit[h].id \in given
    /\ edit[h].kind = "update" /\ "cidr" \in DOMAIN edit[h].change =>
          ValidCidr(edit[h].change.cidr)

PolicyInv == /\ RuleTypeOK
             /\ \A i \in DOMAIN rules : RuleInv(i)
             /\ \A h \in RuleHandlers : EditInv(h)

-----------------------------------------------------------------------------
LEMMA PolicyInitInv == RuleInit => PolicyInv
<1> SUFFICES ASSUME RuleInit PROVE PolicyInv
  OBVIOUS
<1>1. DOMAIN rules = {} /\ DOMAIN edit = RuleHandlers /\ given = {} /\ ruleRequests = 0
  BY DEF RuleInit, NoRules
<1>2. \A h \in RuleHandlers : edit[h].kind = "none"
  BY DEF RuleInit, NoOp
<1>3. 0 \in 0 .. MaxRuleRequests
  BY RuleBoundAssumption
<1>4. QED BY <1>1, <1>2, <1>3 DEF PolicyInv, RuleTypeOK, EditInv

(* A request begins: its record is the only change but for a new id.        *)
LEMMA BeginEditStep ==
    ASSUME PolicyInv, NEW h \in RuleHandlers, NEW request, BeginEdit(h, request), rules' = rules,
           given \subseteq given', given' \subseteq Ids,
           request.kind \in {"create", "update", "delete"},
           request.kind = "create" => /\ ValidCidr(request.rule.cidr)
                                      /\ DOMAIN request.rule = Columns
                                      /\ request.id \in given',
           (request.kind = "update" /\ "cidr" \in DOMAIN request.change) =>
                                         ValidCidr(request.change.cidr)
    PROVE  PolicyInv'
<1>1. /\ edit' = [edit EXCEPT ![h] = request] /\ DOMAIN edit = RuleHandlers
      /\ ruleRequests' = ruleRequests + 1 /\ ruleRequests < MaxRuleRequests
  BY DEF BeginEdit, PolicyInv, RuleTypeOK
<1>2. /\ DOMAIN edit' = RuleHandlers
      /\ \A g \in RuleHandlers : edit'[g] = IF g = h THEN request ELSE edit[g]
  BY <1>1
<1>3. ruleRequests' \in 0 .. MaxRuleRequests
  BY <1>1, RuleBoundAssumption DEF PolicyInv, RuleTypeOK
<1>4. RuleTypeOK'
  BY <1>2, <1>3 DEF PolicyInv, RuleTypeOK
<1>5. ASSUME NEW g \in RuleHandlers PROVE EditInv(g)'
  <2>1. CASE g = h
    <3>1. edit'[g] = request
      BY <1>2, <2>1
    <3>2. QED BY <3>1 DEF EditInv, ValidCidr
  <2>2. CASE g # h
    <3>1. edit'[g] = edit[g] /\ EditInv(g)
      BY <1>2, <2>2 DEF PolicyInv
    <3>2. QED BY <3>1 DEF EditInv, ValidCidr
  <2>3. QED BY <2>1, <2>2
<1>6. \A i \in DOMAIN rules' : RuleInv(i)'
  BY DEF PolicyInv, RuleInv, ValidCidr
<1>7. QED BY <1>4, <1>5, <1>6 DEF PolicyInv

(* A request ends with rules that have passed a validator.                  *)
LEMMA EndEditStep ==
    ASSUME PolicyInv, NEW h \in RuleHandlers, EndEdit(h), DOMAIN rules' \subseteq given,
           \A i \in DOMAIN rules' : DOMAIN rules'[i] = Columns /\ ValidCidr(rules'[i].cidr)
    PROVE  PolicyInv'
<1>1. edit' = [edit EXCEPT ![h] = NoOp] /\ DOMAIN edit = RuleHandlers /\ given' = given
      /\ ruleRequests' = ruleRequests
  BY DEF EndEdit, PolicyInv, RuleTypeOK
<1>2. /\ DOMAIN edit' = RuleHandlers
      /\ \A g \in RuleHandlers : edit'[g] = IF g = h THEN NoOp ELSE edit[g]
  BY <1>1
<1>3. NoOp.kind = "none"
  BY DEF NoOp
<1>4. RuleTypeOK'
  BY <1>1, <1>2, <1>3 DEF PolicyInv, RuleTypeOK
<1>5. ASSUME NEW g \in RuleHandlers PROVE EditInv(g)'
  <2>1. CASE g = h
    BY <1>2, <1>3, <2>1 DEF EditInv
  <2>2. CASE g # h
    <3>1. edit'[g] = edit[g] /\ EditInv(g)
      BY <1>2, <2>2 DEF PolicyInv
    <3>2. QED BY <1>1, <3>1 DEF EditInv, ValidCidr
  <2>3. QED BY <2>1, <2>2
<1>6. \A i \in DOMAIN rules' : RuleInv(i)'
  BY DEF RuleInv, ValidCidr
<1>7. QED BY <1>4, <1>5, <1>6 DEF PolicyInv

LEMMA PolicyStepInv == PolicyInv /\ [RuleNext]_ruleVars => PolicyInv'
<1> SUFFICES ASSUME PolicyInv, [RuleNext]_ruleVars PROVE PolicyInv'
  OBVIOUS
<1>t. /\ DOMAIN rules \subseteq given /\ given \subseteq Ids /\ DOMAIN edit = RuleHandlers
      /\ \A i \in DOMAIN rules : DOMAIN rules[i] = Columns /\ ValidCidr(rules[i].cidr)
  BY DEF PolicyInv, RuleTypeOK, RuleInv
<1>1. ASSUME NEW h \in RuleHandlers, Edit(h) PROVE PolicyInv'
  <2>1. CASE AskCreate(h)
    <3>1. PICK p \in Payloads, i \in Ids \ given :
            /\ ValidCidr(p.cidr) /\ given' = given \cup {i} /\ rules' = rules
            /\ BeginEdit(h, [kind |-> "create", id |-> i, rule |-> p])
      BY <2>1 DEF AskCreate
    <3> DEFINE request == [kind |-> "create", id |-> i, rule |-> p]
    <3>2. request.kind = "create" /\ request.rule = p /\ request.id = i /\ DOMAIN p = Columns
      BY PayloadsAssumption
    <3>3. BeginEdit(h, request)
      BY <3>1
    <3> HIDE DEF request
    <3>4. QED BY <1>t, <3>1, <3>2, <3>3, BeginEditStep
  <2>2. CASE AskUpdate(h)
    <3>1. PICK i \in DOMAIN rules, c \in Changes :
            /\ "cidr" \in DOMAIN c => ValidCidr(c.cidr)
            /\ BeginEdit(h, [kind |-> "update", id |-> i, change |-> c, seen |-> rules[i]])
            /\ rules' = rules /\ given' = given
      BY <2>2 DEF AskUpdate
    <3> DEFINE request == [kind |-> "update", id |-> i, change |-> c, seen |-> rules[i]]
    <3>2. request.kind = "update" /\ request.change = c
      OBVIOUS
    <3>3. BeginEdit(h, request)
      BY <3>1
    <3> HIDE DEF request
    <3>4. QED BY <1>t, <3>1, <3>2, <3>3, BeginEditStep
  <2>3. CASE AskDelete(h)
    <3>1. PICK i \in DOMAIN rules :
            /\ BeginEdit(h, [kind |-> "delete", id |-> i])
            /\ rules' = rules /\ given' = given
      BY <2>3 DEF AskDelete
    <3> DEFINE request == [kind |-> "delete", id |-> i]
    <3>2. request.kind = "delete" /\ BeginEdit(h, request)
      BY <3>1
    <3> HIDE DEF request
    <3>3. QED BY <1>t, <3>1, <3>2, BeginEditStep
  <2>4. CASE ApplyCreate(h)
    <3>1. /\ edit[h].kind = "create" /\ EndEdit(h)
          /\ rules' = [i \in DOMAIN rules \cup {edit[h].id} |->
                          IF i = edit[h].id THEN edit[h].rule ELSE rules[i]]
      BY <2>4 DEF ApplyCreate
    <3>2. EditInv(h)
      BY DEF PolicyInv
    <3>3. ValidCidr(edit[h].rule.cidr) /\ DOMAIN edit[h].rule = Columns /\ edit[h].id \in given
      BY <3>1, <3>2 DEF EditInv
    <3>4. /\ DOMAIN rules' = DOMAIN rules \cup {edit[h].id}
          /\ \A i \in DOMAIN rules' : rules'[i] = IF i = edit[h].id THEN edit[h].rule ELSE rules[i]
      BY <3>1
    <3>5. QED BY <1>t, <3>1, <3>3, <3>4, EndEditStep
  <2>5. CASE ApplyUpdate(h)
    <3>1. /\ edit[h].kind = "update" /\ edit[h].id \in DOMAIN rules /\ EndEdit(h)
          /\ rules' = [rules EXCEPT ![edit[h].id] = Write(@, edit[h].seen, edit[h].change)]
      BY <2>5 DEF ApplyUpdate
    <3>2. EditInv(h)
      BY DEF PolicyInv
    <3> DEFINE j == edit[h].id
               written == Write(rules[j], edit[h].seen, edit[h].change)
    <3>3. DOMAIN written = Columns
      BY DEF Write
    <3>4. written["cidr"] = IF /\ "cidr" \in DOMAIN edit[h].change
                               /\ edit[h].change["cidr"] # edit[h].seen["cidr"]
                            THEN edit[h].change["cidr"] ELSE rules[j]["cidr"]
      BY DEF Write, Columns
    <3>5. ValidCidr(written.cidr)
      BY <1>t, <3>1, <3>2, <3>4 DEF EditInv
    <3>6. /\ DOMAIN rules' = DOMAIN rules
          /\ \A i \in DOMAIN rules : rules'[i] = IF i = j THEN written ELSE rules[i]
      BY <3>1
    <3> HIDE DEF written, j
    <3>7. QED BY <1>t, <3>1, <3>3, <3>5, <3>6, EndEditStep
  <2>6. CASE ApplyDelete(h)
    <3>1. EndEdit(h) /\ rules' = [i \in DOMAIN rules \ {edit[h].id} |-> rules[i]]
      BY <2>6 DEF ApplyDelete
    <3>2. DOMAIN rules' \subseteq DOMAIN rules /\ \A i \in DOMAIN rules' : rules'[i] = rules[i]
      BY <3>1
    <3>3. QED BY <1>t, <3>1, <3>2, EndEditStep
  <2>7. CASE AbortEdit(h)
    BY <1>t, <2>7, EndEditStep DEF AbortEdit
  <2>8. QED BY <1>1, <2>1, <2>2, <2>3, <2>4, <2>5, <2>6, <2>7 DEF Edit
<1>2. CASE UNCHANGED ruleVars
  BY <1>2 DEF ruleVars, PolicyInv, RuleTypeOK, RuleInv, EditInv, ValidCidr
<1>3. QED BY <1>1, <1>2 DEF RuleNext

LEMMA PolicyInvariance == RuleSpec => []PolicyInv
<1>1. RuleInit => PolicyInv
  BY PolicyInitInv
<1>2. PolicyInv /\ [RuleNext]_ruleVars => PolicyInv'
  BY PolicyStepInv
<1>3. QED BY <1>1, <1>2, PTL DEF RuleSpec

(* On a network that has been validated the engine and the dry run agree.   *)
LEMMA ValidMatchesAlike ==
    ASSUME NEW rule, NEW q, ValidCidr(rule.cidr)
    PROVE  Matches(rule, q) <=> DryMatches(rule, q)
<1>1. CASE rule.cidr = "any"
  BY <1>1, NullAssumption DEF Matches, DryMatches, Network
<1>2. CASE rule.cidr # "any"
  BY <1>2 DEF ValidCidr, Matches, DryMatches, Network
<1>3. QED BY <1>1, <1>2

-----------------------------------------------------------------------------
(* Ids are of rows that exist, rows have every column, and every variable   *)
(* has its type (the table of routers/policies.py).                        *)
THEOREM RuleTypeCorrect == RuleSpec => []RuleTypeOK
<1>1. PolicyInv => RuleTypeOK
  BY DEF PolicyInv
<1>2. QED BY <1>1, PolicyInvariance, PTL

(* For every table that concurrent creates, updates and deletes can leave,  *)
(* and every connection, the dry run of the API (test_policy) and the      *)
(* engine of the proxy (PolicyEngine.evaluate) find the same rule or none;  *)
(* they decide the same if there is one, and without one under the default *)
(* settings.                                                               *)
THEOREM DryRunCorrect == RuleSpec => []DryRunAgrees
<1>1. ASSUME PolicyInv PROVE DryRunAgrees
  <2> SUFFICES ASSUME NEW q \in Queries
               PROVE  /\ DryRun(q).rule = Evaluate(q).rule
                      /\ DryRun(q).rule # 0 \/ ShippedDefault => DryRun(q) = Evaluate(q)
    BY DEF DryRunAgrees
  <2> DEFINE hits == {i \in Enabled : Matches(rules[i], q)}
             dryHits == {i \in Enabled : DryMatches(rules[i], q)}
  <2>1. \A i \in Enabled : ValidCidr(rules[i].cidr)
    BY <1>1 DEF PolicyInv, RuleInv, Enabled
  <2>2. \A i \in Enabled : Matches(rules[i], q) <=> DryMatches(rules[i], q)
    BY <2>1, ValidMatchesAlike
  <2>3. hits = dryHits
    BY <2>2
  <2>4. /\ Evaluate(q) = IF hits = {} THEN Verdict(0, DefaultAction, DefaultCapture)
                         ELSE FirstVerdict(hits)
        /\ DryRun(q) = IF dryHits = {} THEN Verdict(0, "intercept", FALSE)
                       ELSE FirstVerdict(dryHits)
    BY DEF Evaluate, DryRun
  <2> HIDE DEF hits, dryHits
  <2>5. CASE hits = {}
    <3>1. Evaluate(q) = Verdict(0, DefaultAction, DefaultCapture)
      BY <2>4, <2>5
    <3>2. DryRun(q) = Verdict(0, "intercept", FALSE)
      BY <2>3, <2>4, <2>5
    <3>3. DryRun(q).rule = 0 /\ Evaluate(q).rule = 0
      BY <3>1, <3>2 DEF Verdict
    <3>4. ShippedDefault => DryRun(q) = Evaluate(q)
      BY <3>1, <3>2 DEF ShippedDefault
    <3>5. QED BY <3>3, <3>4
  <2>6. CASE hits # {}
    BY <2>3, <2>4, <2>6
  <2>7. QED BY <2>5, <2>6
<1>2. QED BY <1>1, PolicyInvariance, PTL

-----------------------------------------------------------------------------
(* Accounts.tla and Bootstrap.tla: users, and replicas that start.        *)

(* An admin remains without t. *)
Spared(t) == Admins \ {t} # {}

(* The row still is what was read, but for the age of its hash. *)
Same(a, b) == a.id = b.id /\ a.role = b.role /\ a.isActive = b.isActive /\ a.password = b.password

(* What a request may rely on as long as what it decides on is left alone.  *)
Demoting == {"demote", "disable", "delete"}
UserRequestInv(h) ==
    /\ req[h].step = "check" => req[h].verb \in {"demote", "disable"}
    /\ req[h].step # "idle" /\ req[h].verb \in Demoting /\ req[h].quiet => Spared(req[h].target)
    /\ req[h].step # "idle" /\ req[h].verb = "login" =>
          req[h].step = "write" /\ 0 < req[h].seen.id /\ req[h].seen.id < nextId
    /\ /\ req[h].step # "idle" /\ req[h].verb = "login" /\ req[h].quiet
       /\ users[req[h].target].id = req[h].seen.id
       => users[req[h].target].password = req[h].seen.password

(* A replica that serves has found or made the defaults, unless they have   *)
(* been deleted; one that is about to add them found no rule, and any      *)
(* other at the same place has seen it.                                    *)
SeedInv ==
    /\ SeedDefaults => \A r \in Replicas : boot[r] = "serving" => defaults > 0 \/ emptied
    /\ SeedDefaults /\ ruled => defaults > 0 \/ emptied
    /\ defaults > 0 => ruled
    /\ \A r \in Replicas : boot[r] = "addRules" /\ defaults > 0 => hurried
    /\ \A r, q \in Replicas : boot[r] = "addRules" /\ boot[q] = "addRules" /\ r # q => hurried
    /\ defaults > 1 => hurried

BootInv == BootTypeOK /\ SeedInv /\ \A h \in Handlers : UserRequestInv(h)

-----------------------------------------------------------------------------
LEMMA Defaults == SomePassword \in Passwords /\ NoUser \in User /\ Idle \in Requests
<1>1. SomePassword \in Passwords
  BY PasswordsAssumption DEF SomePassword
<1>2. NoUser \in User
  BY <1>1 DEF NoUser, User
<1>3. QED BY <1>1, <1>2, RootAssumption DEF Idle, Requests, SelfVerbs

LEMMA BootInitInv == BootInit => BootInv
<1> SUFFICES ASSUME BootInit PROVE BootInv
  OBVIOUS
<1>1. \A u \in Emails : users[u] = NoUser
  BY DEF BootInit, Init
<1>2. TypeOK
  <2>1. users \in [Emails -> User] /\ req \in [Handlers -> Requests]
    BY Defaults DEF BootInit, Init
  <2>2. \A u \in Emails : users[u].id < nextId
    BY <1>1 DEF BootInit, Init, NoUser
  <2>3. QED BY <2>1, <2>2, BoundAssumption DEF BootInit, Init, TypeOK
<1>3. \A h \in Handlers : req[h].step = "idle"
  BY DEF BootInit, Init, Idle
<1>4. \A h \in Handlers : UserRequestInv(h)
  BY <1>3 DEF UserRequestInv
<1>5. /\ ruled = FALSE /\ defaults = 0 /\ emptied = FALSE /\ hurried = FALSE /\ starts = 0
      /\ boot = [r \in Replicas |-> "down"]
  BY DEF BootInit
<1>6. BootTypeOK
  <2>1. boot \in [Replicas -> {"down", "countUsers", "addAdmin", "countRules", "addRules",
                               "serving"}]
    BY <1>5
  <2>2. defaults \in Nat /\ starts \in 0 .. MaxStarts
    BY <1>5, StartsAssumption
  <2>3. ruled \in BOOLEAN /\ emptied \in BOOLEAN /\ hurried \in BOOLEAN
    BY <1>5
  <2>4. QED BY <1>2, <2>1, <2>2, <2>3 DEF BootTypeOK
<1>7. SeedInv
  BY <1>5 DEF SeedInv
<1>8. QED BY <1>4, <1>6, <1>7 DEF BootInv

-----------------------------------------------------------------------------
(* Steps of a request that leave the users alone.                           *)
LEMMA QuietStep ==
    ASSUME BootInv, NEW h \in Handlers, NEW r \in Requests, req' = [req EXCEPT ![h] = r],
           UNCHANGED <<users, nextId>>, requests' \in 0 .. MaxRequests,
           UNCHANGED seeding, UserRequestInv(h)'
    PROVE  BootInv'
<1>1. \A g \in Handlers : req'[g] = IF g = h THEN r ELSE req[g]
  BY DEF BootInv, BootTypeOK, TypeOK
<1>2. TypeOK' /\ BootTypeOK' /\ SeedInv'
  BY DEF BootInv, BootTypeOK, TypeOK, SeedInv, seeding, policies
<1>3. ASSUME NEW g \in Handlers, g # h PROVE UserRequestInv(g)'
  <2>1. req'[g] = req[g] /\ users' = users /\ UserRequestInv(g)
    BY <1>1, <1>3 DEF BootInv
  <2>2. QED BY <2>1 DEF UserRequestInv, Spared, Admins, IsAdmin, Exists
<1>4. QED BY <1>2, <1>3 DEF BootInv

LEMMA UserBeginStep ==
    ASSUME BootInv, NEW h \in Handlers, NEW verb \in AdminVerbs \cup SelfVerbs, NEW t \in Emails,
           NEW p \in Passwords, NEW step \in {"load", "write"}, Begin(h, verb, t, p, step),
           UNCHANGED seeding,
           verb \in Demoting => Spared(t),
           verb = "login" => step = "write" /\ Exists(t)
    PROVE  BootInv'
<1> DEFINE r == [step |-> step, verb |-> verb, target |-> t, fresh |-> p, quiet |-> TRUE,
                 seen |-> IF step = "write" /\ verb # "create" THEN users[t] ELSE NoUser]
<1>1. r \in Requests
  <2>1. users[t] \in User /\ NoUser \in User
    BY Defaults DEF BootInv, BootTypeOK, TypeOK
  <2>2. QED BY <2>1 DEF Requests
<1>2. /\ req' = [req EXCEPT ![h] = r] /\ users' = users /\ nextId' = nextId
      /\ requests' \in 0 .. MaxRequests
  BY BoundAssumption DEF Begin, BootInv, BootTypeOK, TypeOK
<1>3. r.step = step /\ r.verb = verb /\ r.target = t
      /\ (step = "write" /\ verb # "create" => r.seen = users[t])
  OBVIOUS
<1> HIDE DEF r
<1>4. req'[h] = r
  BY <1>2 DEF BootInv, BootTypeOK, TypeOK
<1>5. Spared(t)' <=> Spared(t)
  BY <1>2 DEF Spared, Admins, IsAdmin, Exists
<1>6. verb = "login" => 0 < users[t].id /\ users[t].id < nextId
  BY DEF Exists, BootInv, BootTypeOK, TypeOK, User
<1>7. UserRequestInv(h)'
  BY <1>2, <1>3, <1>4, <1>5, <1>6 DEF UserRequestInv
<1>8. QED BY <1>1, <1>2, <1>7, QuietStep

LEMMA LoadStep ==
    ASSUME BootInv, NEW h \in Handlers, UNCHANGED seeding, Load(h) \/ CheckLastAdmin(h) \/ Abort(h)
    PROVE  BootInv'
<1>1. users' = users /\ nextId' = nextId /\ requests' = requests
  BY DEF Load, CheckLastAdmin, Abort
<1>2. /\ requests' \in 0 .. MaxRequests /\ req[h] \in Requests /\ req \in [Handlers -> Requests]
      /\ users \in [Emails -> User] /\ UserRequestInv(h) /\ req[h].target \in Emails
  BY <1>1 DEF BootInv, BootTypeOK, TypeOK, Requests
<1>3. CASE Finish(h)
  <2>1. req' = [req EXCEPT ![h] = Idle]
    BY <1>3 DEF Finish
  <2>2. req'[h].step = "idle"
    BY <1>2, <2>1 DEF Idle
  <2>3. UserRequestInv(h)'
    BY <2>2 DEF UserRequestInv
  <2>4. QED BY <1>1, <1>2, <2>1, <2>3, Defaults, QuietStep
<1>4. CASE Load(h) /\ ~Finish(h)
  <2> DEFINE found == users[req[h].target]
             r == [req[h] EXCEPT !.seen = found,
                                 !.step = IF RemovesAdmin(req[h], found) THEN "check" ELSE "write"]
  <2>1. req' = [req EXCEPT ![h] = r] /\ found.id # 0 /\ req[h].step = "load"
    BY <1>2, <1>4 DEF Load
  <2>2. r \in Requests
    BY <1>2 DEF Requests
  <2>3. /\ r.verb = req[h].verb /\ r.target = req[h].target /\ r.quiet = req[h].quiet
        /\ r.seen = found /\ r.step = IF RemovesAdmin(req[h], found) THEN "check" ELSE "write"
    BY <1>2 DEF Requests
  <2>4. req'[h] = r
    BY <1>2, <2>1
  <2> HIDE DEF r
  <2>5. UserRequestInv(h)'
    BY <1>1, <1>2, <2>1, <2>3, <2>4
       DEF UserRequestInv, RemovesAdmin, Exists, Spared, Admins, IsAdmin
  <2>6. QED BY <1>1, <1>2, <2>1, <2>2, <2>5, QuietStep
<1>5. CASE CheckLastAdmin(h) /\ ~Finish(h)
  <2> DEFINE r == [req[h] EXCEPT !.step = "write", !.quiet = TRUE]
  <2>1. req' = [req EXCEPT ![h] = r] /\ Remaining(req[h].target) # {} /\ req[h].step = "check"
    BY <1>2, <1>5 DEF CheckLastAdmin
  <2>2. r \in Requests
    BY <1>2 DEF Requests
  <2>3. /\ r.verb = req[h].verb /\ r.target = req[h].target /\ r.seen = req[h].seen
        /\ r.step = "write"
    BY <1>2 DEF Requests
  <2>4. req'[h] = r
    BY <1>2, <2>1
  <2> HIDE DEF r
  <2>5. UserRequestInv(h)'
    BY <1>1, <1>2, <2>1, <2>3, <2>4
       DEF UserRequestInv, Spared, Remaining, Admins, IsAdmin, Exists
  <2>6. QED BY <1>1, <1>2, <2>1, <2>2, <2>5, QuietStep
<1>6. QED BY <1>3, <1>4, <1>5 DEF Abort

(* A commit that another request stays quiet through keeps what that        *)
(* request relies on.                                                      *)
LEMMA CommitStep ==
    ASSUME BootInv, NEW h \in Handlers, Commit(h), UNCHANGED seeding,
           users' \in [Emails -> User], nextId' \in Nat \ {0}, nextId' >= nextId,
           \A u \in Emails : users'[u].id < nextId',
           \A u \in Emails : users'[u].id \in {0, users[u].id, nextId}
    PROVE  BootInv'
<1>1. req \in [Handlers -> Requests] /\ users \in [Emails -> User] /\ nextId \in Nat
  BY DEF BootInv, BootTypeOK, TypeOK
<1>2. ASSUME NEW g \in Handlers
      PROVE  /\ req'[g] \in Requests
             /\ req'[g] = Idle
                \/ (req'[g] = [req[g] EXCEPT !.quiet = @ /\ LeavesBe(req[g])]
                    /\ req[g] \in Requests)
  <2>1. \/ req'[g] = Idle
        \/ req'[g] = [req[g] EXCEPT !.quiet = @ /\ LeavesBe(req[g])]
    BY DEF Commit
  <2>2. (req[g].quiet /\ LeavesBe(req[g])) \in BOOLEAN
    BY DEF LeavesBe
  <2>3. req[g] \in Requests =>
           [req[g] EXCEPT !.quiet = @ /\ LeavesBe(req[g])] \in Requests
    BY <2>2 DEF Requests
  <2>4. QED BY <1>1, <2>1, <2>3, Defaults
<1>3. req' \in [Handlers -> Requests]
  <2>1. req' = [g \in Handlers |-> req'[g]]
    BY DEF Commit
  <2>2. QED BY <1>2, <2>1
<1>4. BootTypeOK' /\ SeedInv'
  BY <1>3 DEF BootInv, BootTypeOK, TypeOK, SeedInv, seeding, policies, Commit
<1>5. ASSUME NEW g \in Handlers PROVE UserRequestInv(g)'
  <2>1. CASE req'[g] = Idle
    BY <2>1 DEF Idle, UserRequestInv
  <2>2. CASE /\ req'[g] = [req[g] EXCEPT !.quiet = @ /\ LeavesBe(req[g])]
             /\ req[g] \in Requests
    <3>1. /\ req'[g].step = req[g].step /\ req'[g].verb = req[g].verb
          /\ req'[g].seen = req[g].seen /\ req'[g].target = req[g].target
          /\ req'[g].quiet => req[g].quiet /\ LeavesBe(req[g])
      BY <2>2 DEF Requests
    <3>2. UserRequestInv(g) /\ req[g].target \in Emails /\ req[g].seen.id \in Nat
      BY <2>2 DEF BootInv, Requests, User
    <3>3. Admins \subseteq Admins' /\ Spared(req[g].target) => Spared(req[g].target)'
      <4>1. SUFFICES ASSUME Admins \subseteq Admins', Admins \ {req[g].target} # {}
                     PROVE  Admins' \ {req'[g].target} # {}
        BY <3>1 DEF Spared
      <4>2. QED BY <3>1, <4>1
    <3>4. CASE req[g].verb = "login"
      <4>1. req'[g].quiet =>
              req[g].quiet /\ users'[req[g].target].password = users[req[g].target].password
        BY <3>1, <3>4 DEF LeavesBe
      <4>2. users'[req[g].target].id \in {0, users[req[g].target].id, nextId}
        BY <3>2
      <4>3. QED BY <1>1, <3>1, <3>2, <3>4, <4>1, <4>2 DEF UserRequestInv, Demoting
    <3>5. CASE req[g].verb # "login"
      <4>1. req'[g].quiet => req[g].quiet /\ Admins \subseteq Admins'
        BY <3>1, <3>5 DEF LeavesBe
      <4>2. QED BY <3>1, <3>2, <3>3, <3>5, <4>1 DEF UserRequestInv
    <3>6. QED BY <3>4, <3>5
  <2>3. QED BY <1>2, <2>1, <2>2
<1>6. QED BY <1>4, <1>5 DEF BootInv

LEMMA WrittenIsUser ==
    ASSUME NEW r \in Requests, NEW u \in User PROVE Written(r, u) \in User /\ Written(r, u).id = u.id
<1>1. NewRole(r) \in {"viewer", "admin"} /\ NewActive(r) \in BOOLEAN /\ NewPassword(r) \in Passwords
  BY DEF NewRole, NewActive, NewPassword, Requests, User
<1>2. QED BY <1>1 DEF Written, User

LEMMA CommitsStep ==
    ASSUME BootInv, NEW h \in Handlers, UNCHANGED seeding,
           CommitCreate(h) \/ CommitUpdate(h) \/ CommitDelete(h)
    PROVE  BootInv'
<1>t. /\ users \in [Emails -> User] /\ nextId \in Nat \ {0} /\ req[h] \in Requests
      /\ \A u \in Emails : users[u].id < nextId /\ users[u].id \in Nat
      /\ req[h].target \in Emails /\ req[h].fresh \in Passwords
  BY DEF BootInv, BootTypeOK, TypeOK, Requests, User
<1>1. CASE CommitCreate(h)
  <2>1. PICK role \in {"viewer", "admin"} :
          users' = [users EXCEPT ![req[h].target] = Account(nextId, role, req[h].fresh)]
    BY <1>1 DEF CommitCreate
  <2>2. /\ Account(nextId, role, req[h].fresh) \in User
        /\ Account(nextId, role, req[h].fresh).id = nextId
    BY <1>t DEF Account, User
  <2>3. nextId' = nextId + 1 /\ Commit(h)
    BY <1>1 DEF CommitCreate
  <2>4. /\ users' \in [Emails -> User]
        /\ \A u \in Emails : users'[u].id < nextId' /\ users'[u].id \in {0, users[u].id, nextId}
    BY <1>t, <2>1, <2>2, <2>3
  <2>5. QED BY <1>t, <2>3, <2>4, CommitStep
<1>2. CASE CommitUpdate(h)
  <2> DEFINE w == Written(req[h], users[req[h].target])
  <2>1. users' = [users EXCEPT ![req[h].target] = w] /\ nextId' = nextId /\ Commit(h)
    BY <1>2 DEF CommitUpdate
  <2>2. w \in User /\ w.id = users[req[h].target].id
    BY <1>t, WrittenIsUser
  <2> HIDE DEF w
  <2>3. /\ users' \in [Emails -> User]
        /\ \A u \in Emails : users'[u].id < nextId' /\ users'[u].id \in {0, users[u].id, nextId}
    BY <1>t, <2>1, <2>2
  <2>4. QED BY <1>t, <2>1, <2>3, CommitStep
<1>3. CASE CommitDelete(h)
  <2>1. /\ users' = [users EXCEPT ![req[h].target] = IF @.id = req[h].seen.id THEN NoUser ELSE @]
        /\ nextId' = nextId /\ Commit(h)
    BY <1>3 DEF CommitDelete
  <2>2. NoUser \in User /\ NoUser.id = 0
    BY Defaults DEF NoUser
  <2>3. /\ users' \in [Emails -> User]
        /\ \A u \in Emails : users'[u].id < nextId' /\ users'[u].id \in {0, users[u].id, nextId}
    BY <1>t, <2>1, <2>2
  <2>4. QED BY <1>t, <2>1, <2>3, CommitStep
<1>4. QED BY <1>1, <1>2, <1>3

-----------------------------------------------------------------------------
(* What is not a commit of a request keeps admins, and rows but for the age *)
(* of their hash.                                                          *)
LEMMA RowsKept ==
    ASSUME BootInv, req' = req, requests' = requests, users' \in [Emails -> User],
           nextId' \in Nat \ {0}, nextId' >= nextId, \A u \in Emails : users'[u].id < nextId',
           \A u \in Emails : Same(users[u], users'[u])
                             \/ (~Exists(u) /\ users'[u].id \in {0, nextId})
    PROVE  TypeOK' /\ \A h \in Handlers : UserRequestInv(h)'
<1>1. TypeOK'
  BY DEF BootInv, BootTypeOK, TypeOK
<1>2. Admins \subseteq Admins'
  BY DEF Admins, IsAdmin, Exists, Same
<1>3. ASSUME NEW h \in Handlers PROVE UserRequestInv(h)'
  <2>1. /\ UserRequestInv(h) /\ req'[h] = req[h] /\ req[h].target \in Emails
        /\ nextId \in Nat /\ req[h].seen.id \in Nat
    BY DEF BootInv, BootTypeOK, TypeOK, Requests, User
  <2>2. Spared(req[h].target) => Spared(req[h].target)'
    <3>1. SUFFICES ASSUME Admins \ {req[h].target} # {}
                   PROVE  Admins' \ {req'[h].target} # {}
      BY <2>1 DEF Spared
    <3>2. QED BY <1>2, <2>1, <3>1
  <2>3. ASSUME 0 < req[h].seen.id, req[h].seen.id < nextId,
               users'[req[h].target].id = req[h].seen.id
        PROVE  Same(users[req[h].target], users'[req[h].target])
    BY <2>1, <2>3
  <2>4. QED BY <2>1, <2>2, <2>3 DEF UserRequestInv, Same
<1>4. QED BY <1>1, <1>3

LEMMA OutdateStep == ASSUME BootInv, Outdate, UNCHANGED seeding PROVE BootInv'
<1>t. users \in [Emails -> User] /\ nextId \in Nat \ {0} /\ \A u \in Emails : users[u].id < nextId
  BY DEF BootInv, BootTypeOK, TypeOK
<1>1. users' = [u \in Emails |-> IF Exists(u) THEN [users[u] EXCEPT !.outdated = TRUE] ELSE users[u]]
  BY DEF Outdate
<1>2. ASSUME NEW u \in Emails
      PROVE  users'[u] \in User /\ Same(users[u], users'[u])
  <2>1. users[u] \in User
    BY <1>t
  <2>2. users'[u] = users[u] \/ users'[u] = [users[u] EXCEPT !.outdated = TRUE]
    BY <1>1
  <2>3. QED BY <2>1, <2>2 DEF User, Same
<1>3. users' \in [Emails -> User] /\ \A u \in Emails : users'[u].id < nextId
  <2>1. users' = [u \in Emails |-> users'[u]]
    BY <1>1
  <2>2. QED BY <1>t, <1>2, <2>1 DEF Same
<1>5. TypeOK' /\ \A h \in Handlers : UserRequestInv(h)'
  BY <1>t, <1>2, <1>3, RowsKept DEF Outdate
<1>6. BootTypeOK' /\ SeedInv'
  BY <1>5 DEF BootInv, BootTypeOK, SeedInv, seeding, policies
<1>7. QED BY <1>5, <1>6 DEF BootInv

(* A replica that starts, and rules that are changed by hand.               *)
LEMMA StartStep ==
    ASSUME BootInv, NEW r \in Replicas,
           \/ Start(r) \/ CountUsers(r) \/ AddAdmin(r) \/ CountRules(r) \/ AddRules(r) \/ Ends(r)
           \/ Serves /\ RulesByHand
    PROVE  BootInv'
<1>t. /\ users \in [Emails -> User] /\ nextId \in Nat \ {0} /\ Root \in Emails
      /\ \A u \in Emails : users[u].id < nextId /\ users[u].id \in Nat
      /\ boot \in [Replicas -> {"down", "countUsers", "addAdmin", "countRules", "addRules",
                                "serving"}]
      /\ defaults \in Nat /\ hurried \in BOOLEAN /\ starts \in 0 .. MaxStarts
      /\ ruled \in BOOLEAN /\ emptied \in BOOLEAN
  BY RootAssumption DEF BootInv, BootTypeOK, TypeOK, User
<1>1. TypeOK' /\ \A h \in Handlers : UserRequestInv(h)'
  <2>1. CASE AddAdmin(r) /\ ~Exists(Root)
    <3>1. /\ users' = [users EXCEPT ![Root] = Account(nextId, "admin", SomePassword)]
          /\ nextId' = nextId + 1 /\ req' = req /\ requests' = requests
      BY <2>1 DEF AddAdmin
    <3>2. /\ Account(nextId, "admin", SomePassword) \in User
          /\ Account(nextId, "admin", SomePassword).id = nextId
      BY <1>t, Defaults DEF Account, User
    <3>3. users' \in [Emails -> User] /\ \A u \in Emails : users'[u].id < nextId'
      BY <1>t, <3>1, <3>2
    <3>4. \A u \in Emails : Same(users[u], users'[u])
                             \/ (~Exists(u) /\ users'[u].id \in {0, nextId})
      BY <1>t, <2>1, <3>1, <3>2 DEF Same
    <3>5. QED BY <1>t, <3>1, <3>3, <3>4, RowsKept
  <2>2. CASE ~(AddAdmin(r) /\ ~Exists(Root))
    <3>1. users' = users /\ nextId' = nextId /\ req' = req /\ requests' = requests
      BY <2>2 DEF Start, CountUsers, AddAdmin, CountRules, AddRules, Ends, RulesByHand, vars
    <3>2. QED BY <1>t, <3>1, RowsKept DEF Same
  <2>3. QED BY <2>1, <2>2
<1>2. BootTypeOK' /\ SeedInv'
  <2>0. SeedInv
    BY DEF BootInv
  <2>1. CASE Start(r)
    BY <1>t, <1>1, <2>0, <2>1, StartsAssumption DEF BootTypeOK, SeedInv, Start, Reach, policies
  <2>2. CASE CountUsers(r)
    BY <1>t, <1>1, <2>0, <2>2 DEF BootTypeOK, SeedInv, CountUsers, Reach, policies
  <2>3. CASE AddAdmin(r)
    BY <1>t, <1>1, <2>0, <2>3 DEF BootTypeOK, SeedInv, AddAdmin, Reach, policies
  <2>4. CASE CountRules(r)
    BY <1>t, <1>1, <2>0, <2>4 DEF BootTypeOK, SeedInv, CountRules, Reach, policies
  <2>5. CASE AddRules(r)
    BY <1>t, <1>1, <2>0, <2>5 DEF BootTypeOK, SeedInv, AddRules, Reach, policies
  <2>6. CASE Ends(r)
    BY <1>t, <1>1, <2>0, <2>6 DEF BootTypeOK, SeedInv, Ends, Reach, policies
  <2>7. CASE Serves /\ RulesByHand
    <3>1. boot' = boot /\ hurried' = hurried /\ starts' = starts
      BY <2>7 DEF RulesByHand
    <3>2. CASE ~ruled /\ ruled' = TRUE /\ UNCHANGED <<defaults, emptied>>
      <4>1. defaults' \in Nat /\ ruled' \in BOOLEAN /\ emptied' \in BOOLEAN
        BY <1>t, <3>2
      <4>2. BootTypeOK'
        BY <1>t, <1>1, <3>1, <4>1 DEF BootTypeOK
      <4>3. SeedInv'
        BY <1>t, <2>0, <2>7, <3>1, <3>2 DEF SeedInv, Serves
      <4>4. QED BY <4>2, <4>3
    <3>3. CASE ruled /\ ruled' = FALSE /\ defaults' = 0 /\ emptied' = TRUE
      <4>1. defaults' \in Nat /\ ruled' \in BOOLEAN /\ emptied' \in BOOLEAN
        BY <3>3
      <4>2. BootTypeOK'
        BY <1>t, <1>1, <3>1, <4>1 DEF BootTypeOK
      <4>3. SeedInv'
        BY <1>t, <2>0, <3>1, <3>3 DEF SeedInv
      <4>4. QED BY <4>2, <4>3
    <3>4. QED BY <2>7, <3>2, <3>3, Zenon DEF RulesByHand
  <2>8. QED BY <2>1, <2>2, <2>3, <2>4, <2>5, <2>6, <2>7
<1>3. QED BY <1>1, <1>2 DEF BootInv

-----------------------------------------------------------------------------
LEMMA RequestStep ==
    ASSUME BootInv, NEW h \in Handlers, Request(h), UNCHANGED seeding PROVE BootInv'
<1>1. CASE AskAdmin(h)
  <2>1. PICK a \in Emails, t \in Emails, verb \in AdminVerbs, p \in Passwords :
          /\ IsAdmin(a) /\ (a = t => verb \notin {"demote", "disable", "delete"})
          /\ Begin(h, verb, t, p, IF verb = "create" \/ a = t THEN "write" ELSE "load")
    BY <1>1 DEF AskAdmin
  <2>2. a \in Admins /\ Exists(a)
    BY <2>1 DEF Admins, IsAdmin
  <2>3. (verb \in Demoting => Spared(t)) /\ verb # "login"
    BY <2>1, <2>2 DEF Spared, Demoting, AdminVerbs
  <2>4. QED BY <2>1, <2>3, UserBeginStep
<1>2. CASE AskSelf(h)
  <2>1. PICK a \in Emails, verb \in SelfVerbs, p \in Passwords :
          Exists(a) /\ Begin(h, verb, a, p, "write")
    BY <1>2 DEF AskSelf
  <2>2. verb \notin Demoting
    BY DEF SelfVerbs, Demoting
  <2>3. QED BY <2>1, <2>2, UserBeginStep
<1>3. CASE Load(h) \/ CheckLastAdmin(h) \/ Abort(h)
  BY <1>3, LoadStep
<1>4. CASE CommitCreate(h) \/ CommitUpdate(h) \/ CommitDelete(h)
  BY <1>4, CommitsStep
<1>5. QED BY <1>1, <1>2, <1>3, <1>4 DEF Request

LEMMA BootStepInv == BootInv /\ [BootNext]_<<vars, seeding>> => BootInv'
<1> SUFFICES ASSUME BootInv, [BootNext]_<<vars, seeding>> PROVE BootInv'
  OBVIOUS
<1>1. CASE \E r \in Replicas : Start(r) \/ CountUsers(r) \/ AddAdmin(r) \/ CountRules(r)
                               \/ AddRules(r) \/ Ends(r)
  BY <1>1, StartStep
<1>h. CASE Serves /\ RulesByHand
  BY <1>h, StartStep DEF Serves
<1>2. CASE Next /\ UNCHANGED seeding
  BY <1>2, RequestStep, OutdateStep DEF Next
<1>3. CASE UNCHANGED <<vars, seeding>>
  <2>1. /\ users' = users /\ nextId' = nextId /\ req' = req /\ requests' = requests
        /\ boot' = boot /\ ruled' = ruled /\ defaults' = defaults /\ emptied' = emptied
        /\ hurried' = hurried /\ starts' = starts
    BY <1>3 DEF vars, seeding, policies
  <2>2. TypeOK' /\ \A h \in Handlers : UserRequestInv(h)'
    <3>1. \A u \in Emails : Same(users[u], users'[u])
      BY <2>1 DEF Same
    <3>2. TypeOK
      BY DEF BootInv, BootTypeOK
    <3>3. QED BY <2>1, <3>1, <3>2, RowsKept DEF TypeOK
  <2>3. QED BY <2>1, <2>2 DEF BootInv, BootTypeOK, SeedInv
<1>4. QED BY <1>1, <1>h, <1>2, <1>3 DEF BootNext

LEMMA BootInvariance == BootSpec => []BootInv
<1>1. BootInit => BootInv
  BY BootInitInv
<1>2. BootInv /\ [BootNext]_<<vars, seeding>> => BootInv'
  BY BootStepInv
<1>3. QED BY <1>1, <1>2, PTL DEF BootSpec

(* A request that commits while what it decided on is as it was keeps an    *)
(* admin, and a login every password.                                      *)
LEMMA QuietCommit ==
    ASSUME BootInv, NEW h \in Handlers, req[h].step = "write", req[h].quiet,
           CommitCreate(h) \/ CommitUpdate(h) \/ CommitDelete(h) \/ Abort(h)
    PROVE  /\ Admins # {} => Admins' # {}
           /\ req[h].verb = "login" => \A u \in Emails : users'[u].password = users[u].password
<1> DEFINE t == req[h].target
<1>t. /\ users \in [Emails -> User] /\ req[h] \in Requests /\ t \in Emails /\ UserRequestInv(h)
      /\ users[t] \in User /\ req[h].seen \in User
  BY DEF BootInv, BootTypeOK, TypeOK, Requests
<1>1. ASSUME Spared(t), \A u \in Emails \ {t} : users'[u] = users[u] PROVE Admins' # {}
  BY <1>1 DEF Spared, Admins, IsAdmin, Exists
<1>2. CASE Abort(h)
  BY <1>2 DEF Abort, Admins, IsAdmin, Exists
<1>3. CASE CommitCreate(h)
  <2>1. req[h].verb = "create" /\ ~Exists(t) /\ \A u \in Emails \ {t} : users'[u] = users[u]
    BY <1>t, <1>3 DEF CommitCreate
  <2>2. Admins \subseteq Admins'
    BY <2>1 DEF Admins, IsAdmin, Exists
  <2>3. QED BY <2>1, <2>2
<1>4. CASE CommitDelete(h)
  <2>1. req[h].verb = "delete" /\ \A u \in Emails \ {t} : users'[u] = users[u]
    BY <1>t, <1>4 DEF CommitDelete
  <2>2. Spared(t)
    BY <1>t, <2>1 DEF UserRequestInv, Demoting
  <2>3. QED BY <1>1, <2>1, <2>2
<1>5. CASE CommitUpdate(h)
  <2> DEFINE w == Written(req[h], users[t])
  <2>1. /\ req[h].verb \notin {"create", "delete"} /\ \A u \in Emails \ {t} : users'[u] = users[u]
        /\ users'[t] = w /\ users[t].id = req[h].seen.id
    BY <1>t, <1>5 DEF CommitUpdate
  <2>2. CASE req[h].verb \in Demoting
    <3>1. Spared(t) /\ req[h].verb # "login"
      BY <1>t, <2>2 DEF UserRequestInv, Demoting
    <3>2. QED BY <1>1, <2>1, <3>1
  <2>3. CASE req[h].verb \notin Demoting
    <3>1. req[h].verb = "login" => users[t].password = req[h].seen.password
      BY <1>t, <2>1 DEF UserRequestInv
    <3>2. /\ w.id = users[t].id
          /\ w.role = IF NewRole(req[h]) # req[h].seen.role THEN NewRole(req[h]) ELSE users[t].role
          /\ w.isActive = IF NewActive(req[h]) # req[h].seen.isActive THEN NewActive(req[h])
                          ELSE users[t].isActive
          /\ w.password = IF Rehashes(req[h]) THEN NewPassword(req[h]) ELSE users[t].password
      BY DEF Written
    <3> HIDE DEF w
    <3>3. users[t].role = "admin" /\ users[t].isActive => w.role = "admin" /\ w.isActive
      BY <1>t, <2>3, <3>2 DEF NewRole, NewActive, Demoting, User
    <3>4. Admins \subseteq Admins'
      BY <2>1, <3>2, <3>3 DEF Admins, IsAdmin, Exists
    <3>5. req[h].verb = "login" => w.password = users[t].password
      BY <3>1, <3>2 DEF NewPassword
    <3>6. QED BY <2>1, <3>4, <3>5
  <2>4. QED BY <2>2, <2>3
<1>6. QED BY <1>2, <1>3, <1>4, <1>5

-----------------------------------------------------------------------------
(* Rows have ids the sequence has given, and every variable of requests and *)
(* replicas has its type (users.py, auth.py, seed.py).                     *)
THEOREM BootTypeCorrect == BootSpec => []BootTypeOK
<1>1. BootInv => BootTypeOK
  BY DEF BootInv
<1>2. QED BY <1>1, BootInvariance, PTL

(* For any number of replicas, wherever they end and start again, and       *)
(* whatever is done to the rules by hand: with the setting on, one that     *)
(* serves has the default rules unless all rules were deleted; and the     *)
(* defaults are doubled only when two replicas were seeding at once.       *)
THEOREM SeedCorrect == BootSpec => []SeededOnce
<1>1. BootInv => SeededOnce
  BY DEF BootInv, SeedInv, SeededOnce, Serves
<1>2. QED BY <1>1, BootInvariance, PTL

(* For any number of requests that overlap: the last admin's access is lost *)
(* only to a request since whose count another took an admin's access, and *)
(* a password to a login only if it was changed after its verification.    *)
THEOREM AccessCorrect == BootSpec => OnlyRivalsTakeAccess
<1>1. ASSUME BootInv, [BootNext]_<<vars, seeding>>, NEW h \in Handlers,
             req[h].step = "write", req'[h].step = "idle", req[h].quiet
      PROVE  /\ Admins # {} => Admins' # {}
             /\ req[h].verb = "login" =>
                   \A u \in Emails : users'[u].password = users[u].password
  <2>1. req' # req /\ req \in [Handlers -> Requests]
    BY <1>1 DEF BootInv, BootTypeOK, TypeOK
  <2>2. PICK g \in Handlers : Request(g)
    BY <1>1, <2>1 DEF BootNext, Next, vars, Start, CountUsers, AddAdmin, CountRules, AddRules,
                      Ends, RulesByHand, Outdate
  <2>3. g = h
    <3>1. SUFFICES ASSUME g # h PROVE req'[h].step = "write"
      BY <1>1
    <3>2. CASE Commit(g)
      <4>1. req'[h] = [req[h] EXCEPT !.quiet = @ /\ LeavesBe(req[h])]
        BY <1>1, <3>1, <3>2 DEF Commit
      <4>2. QED BY <1>1, <2>1, <4>1 DEF Requests
    <3>3. CASE ~Commit(g)
      <4>1. \E r : req' = [req EXCEPT ![g] = r]
        BY <2>1, <2>2, <3>3 DEF Request, AskAdmin, AskSelf, Begin, Load, CheckLastAdmin, Abort,
                            Finish, CommitCreate, CommitUpdate, CommitDelete
      <4>2. QED BY <1>1, <2>1, <3>1, <4>1
    <3>4. QED BY <3>2, <3>3
  <2>4. CommitCreate(h) \/ CommitUpdate(h) \/ CommitDelete(h) \/ Abort(h)
    BY <1>1, <2>2, <2>3 DEF Request, AskAdmin, AskSelf, Begin, Load, CheckLastAdmin
  <2>5. QED BY <1>1, <2>4, QuietCommit
<1>2. BootInv /\ [BootNext]_<<vars, seeding>> =>
        [\A h \in Handlers :
            req[h].step = "write" /\ req'[h].step = "idle" /\ req[h].quiet =>
                /\ Admins # {} => Admins' # {}
                /\ req[h].verb = "login" =>
                      \A u \in Emails : users'[u].password = users[u].password]_vars
  BY <1>1
<1>3. QED BY <1>2, BootInvariance, PTL DEF BootSpec, OnlyRivalsTakeAccess


-----------------------------------------------------------------------------
(* The parts side by side: each goes on as if the others were not there, so *)
(* whatever is proved of one holds of the instance that is checked.        *)
LEMMA PartsAreIndependent == MCSpec => BootSpec /\ CaSpec /\ RuleSpec
<1>1. MCInit => BootInit /\ CaInit /\ RuleInit
  BY DEF MCInit
<1>2. [MCNext]_<<bootVars, caVars, ruleVars, focus>> =>
        /\ [BootNext]_<<vars, seeding>>
        /\ [CaNext]_caVars
        /\ [RuleNext]_ruleVars
  <2>1. MCNext => /\ BootNext \/ UNCHANGED bootVars
                  /\ CaNext \/ UNCHANGED caVars
                  /\ RuleNext \/ UNCHANGED ruleVars
    BY DEF MCNext
  <2>2. QED BY <2>1 DEF bootVars
<1>3. QED BY <1>1, <1>2, PTL DEF MCSpec, BootSpec, CaSpec, RuleSpec

(* Whichever of the tables is worked on, and by whatever requests, every    *)
(* row of the three is of its type: ids come from their sequence, only rows *)
(* are active, rules have every column.                                    *)
THEOREM TypesCorrect == MCSpec => []Types
<1>1. BootTypeOK /\ CaTypeOK /\ RuleTypeOK <=> Types
  BY DEF Types
<1>2. QED BY <1>1, PartsAreIndependent, BootTypeCorrect, CaTypeCorrect, RuleTypeCorrect, PTL
=============================================================================
