------------------------------ MODULE Policies ------------------------------
(***************************************************************************)
(* The rows of policy_rules under concurrent requests                      *)
(* (services/api/app/routers/policies.py) and the two programs that read   *)
(* them: PolicyEngine of the proxy (policy.py) and the dry run of the API  *)
(* (test_policy).  How the engine's snapshot comes to follow the table is  *)
(* in ConfigSync.                                                          *)
(***************************************************************************)
EXTENDS Integers, FiniteSets

CONSTANTS RuleHandlers,  \* requests in flight
          Ids,         \* ids of the sequence, as numbers
          Payloads,    \* bodies of create requests: rules, with every column
          Changes,     \* bodies of update requests: functions on some columns
          Queries,     \* connections: host, port and client address
          Glob,        \* per host pattern: the hosts it matches
          Net,         \* per valid client_cidr: its addresses
          DefaultAction,    \* default_action of the proxy's settings
          DefaultCapture,   \* default_capture_bodies of the proxy's settings
          MaxRuleRequests   \* bound: requests

Columns == {"priority", "enabled", "pattern", "cidr", "port", "action", "capture"}

(* The columns of a rule: "any" is NULL (or the empty string) for cidr and  *)
(* port; capture is capture_bodies.  redact goes its way, and is TRUE in    *)
(* both defaults.                                                          *)
ASSUME PayloadsAssumption == \A p \in Payloads : DOMAIN p = Columns
ASSUME NullAssumption == "any" \notin DOMAIN Net
ASSUME RuleBoundAssumption == MaxRuleRequests \in Nat

VARIABLES rules,        \* committed rows: a function on the ids that exist
          given,        \* ids the sequence has given
          edit,         \* per handler: the request it is serving
          ruleRequests  \* requests begun

ruleVars == <<rules, given, edit, ruleRequests>>

NoOp == [kind |-> "none"]
NoRules == [i \in {} |-> NoOp]

RuleInit == /\ rules = NoRules /\ given = {} /\ ruleRequests = 0
            /\ edit = [h \in RuleHandlers |-> NoOp]

-----------------------------------------------------------------------------
\* Mutant of ValidCidr: any text is taken.
AnyCidr(cidr) == TRUE

(* ipaddress.ip_network accepts it; the empty value is no condition. *)
ValidCidr(cidr) == cidr = "any" \/ cidr \in DOMAIN Net

BeginEdit(h, request) == /\ edit[h] = NoOp /\ ruleRequests < MaxRuleRequests
                         /\ ruleRequests' = ruleRequests + 1
                         /\ edit' = [edit EXCEPT ![h] = request]

(* PolicyRuleCreate validates the body; a refusal is no request. *)
AskCreate(h) ==
    \E p \in Payloads, i \in Ids \ given :
        /\ ValidCidr(p.cidr)
        /\ \A j \in given : j < i
        /\ BeginEdit(h, [kind |-> "create", id |-> i, rule |-> p])
        /\ given' = given \cup {i}
        /\ UNCHANGED rules

(* update_policy reads its row and validates the network of the body. *)
AskUpdate(h) ==
    \E i \in DOMAIN rules, c \in Changes :
        /\ "cidr" \in DOMAIN c => ValidCidr(c.cidr)
        /\ BeginEdit(h, [kind |-> "update", id |-> i, change |-> c, seen |-> rules[i]])
        /\ UNCHANGED <<rules, given>>

AskDelete(h) ==
    \E i \in DOMAIN rules :
        /\ BeginEdit(h, [kind |-> "delete", id |-> i])
        /\ UNCHANGED <<rules, given>>

EndEdit(h) == edit' = [edit EXCEPT ![h] = NoOp] /\ UNCHANGED <<given, ruleRequests>>

ApplyCreate(h) ==
    /\ edit[h].kind = "create"
    /\ rules' = [i \in DOMAIN rules \cup {edit[h].id} |->
                    IF i = edit[h].id THEN edit[h].rule ELSE rules[i]]
    /\ EndEdit(h)

(* The unit of work writes the columns that differ from the row it read;    *)
(* without such a column there is no UPDATE, and a row that is gone makes  *)
(* one fail (AbortEdit).                                                       *)
Write(row, seen, change) ==
    [c \in Columns |-> IF c \in DOMAIN change /\ change[c] # seen[c] THEN change[c] ELSE row[c]]

ApplyUpdate(h) ==
    /\ edit[h].kind = "update" /\ edit[h].id \in DOMAIN rules
    /\ rules' = [rules EXCEPT ![edit[h].id] = Write(@, edit[h].seen, edit[h].change)]
    /\ EndEdit(h)

ApplyDelete(h) ==
    /\ edit[h].kind = "delete"
    /\ rules' = [i \in DOMAIN rules \ {edit[h].id} |-> rules[i]]
    /\ EndEdit(h)

(* An error of the database, or the row is gone: rolled back. *)
AbortEdit(h) == edit[h] # NoOp /\ EndEdit(h) /\ UNCHANGED rules

Edit(h) == \/ AskCreate(h) \/ AskUpdate(h) \/ AskDelete(h)
           \/ ApplyCreate(h) \/ ApplyUpdate(h) \/ ApplyDelete(h) \/ AbortEdit(h)

RuleNext == \E h \in RuleHandlers : Edit(h)

RuleSpec == RuleInit /\ [][RuleNext]_ruleVars

-----------------------------------------------------------------------------
(* The order of both queries: by priority, then by id. *)
Enabled == {i \in DOMAIN rules : rules[i].enabled}
Before(i, j) == \/ rules[i].priority < rules[j].priority
                \/ rules[i].priority = rules[j].priority /\ i < j
FirstOf(S) == CHOOSE i \in S : \A j \in S \ {i} : Before(i, j)

PortMatches(rule, q) == rule.port = "any" \/ rule.port = q.port
HostMatches(rule, q) == q.host \in Glob[rule.pattern]

(* PolicyEngine.refresh compiles a network; one that is not valid is no     *)
(* condition, logged.                                                      *)
Network(rule) == IF rule.cidr \in DOMAIN Net THEN {Net[rule.cidr]} ELSE {}

(* CompiledRule.matches *)
Matches(rule, q) == /\ PortMatches(rule, q) /\ HostMatches(rule, q)
                    /\ \A net \in Network(rule) : q.client \in net

Verdict(i, action, capture) == [rule |-> i, action |-> action, capture |-> capture]
FirstVerdict(hits) == LET i == FirstOf(hits) IN Verdict(i, rules[i].action, rules[i].capture)

(* PolicyEngine.evaluate: the rule (0 without one) and its decision, or the *)
(* default that the engine built from its settings.                        *)
Evaluate(q) ==
    LET hits == {i \in Enabled : Matches(rules[i], q)}
    IN  IF hits = {} THEN Verdict(0, DefaultAction, DefaultCapture) ELSE FirstVerdict(hits)

(* test_policy; a network that is not valid excludes its rule, and the      *)
(* default is written into the code.                                       *)
DryMatches(rule, q) ==
    /\ PortMatches(rule, q) /\ HostMatches(rule, q)
    /\ rule.cidr = "any" \/ (rule.cidr \in DOMAIN Net /\ q.client \in Net[rule.cidr])

DryRun(q) ==
    LET hits == {i \in Enabled : DryMatches(rules[i], q)}
    IN  IF hits = {} THEN Verdict(0, "intercept", FALSE) ELSE FirstVerdict(hits)

-----------------------------------------------------------------------------
(* Every variable has its type. *)
RuleTypeOK == /\ DOMAIN rules \subseteq given /\ given \subseteq Ids
              /\ \A i \in DOMAIN rules : DOMAIN rules[i] = Columns
              /\ DOMAIN edit = RuleHandlers
              /\ \A h \in RuleHandlers : edit[h].kind \in {"none", "create", "update", "delete"}
              /\ ruleRequests \in 0..MaxRuleRequests

(* For every connection the dry run and the engine name the same rule, or    *)
(* both none, and when they name one they take its decision, whatever        *)
(* requests were committed in whatever order - although they treat a         *)
(* network that does not parse in opposite ways.  Without a rule they agree  *)
(* if the proxy keeps the default settings.                                 *)
ShippedDefault == DefaultAction = "intercept" /\ DefaultCapture = FALSE
DryRunAgrees == \A q \in Queries :
                   /\ DryRun(q).rule = Evaluate(q).rule
                   /\ DryRun(q).rule # 0 \/ ShippedDefault => DryRun(q) = Evaluate(q)

-----------------------------------------------------------------------------
(* routers/policies.py: the dry run "Mirrors PolicyEngine.evaluate exactly". *)
DryRunMirrors == \A q \in Queries : DryRun(q) = Evaluate(q)
=============================================================================
