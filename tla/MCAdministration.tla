-------------------------- MODULE MCAdministration --------------------------
(* Finite instances, for one run of TLC, of what administrators change in   *)
(* the database: users while replicas start, authorities and rules.  They   *)
(* share no variable, so that a step of one cannot touch what the           *)
(* properties of another speak of: TLC explores one at a time, the one in   *)
(* "focus", and the sum of their states instead of the product.  Starts are *)
(* explored twice: beside requests about users while nobody deletes the    *)
(* rules, and beside operators who do while no such request is made.       *)
EXTENDS Bootstrap, Authorities, Policies, TLC

VARIABLE focus

bootVars == <<vars, seeding>>

MCInit == focus \in {"users", "starts", "authorities", "rules"} /\ BootInit /\ CaInit /\ RuleInit

MCNext == \/ /\ focus \in {"users", "starts"} /\ BootNext
             /\ IF focus = "users" THEN ~emptied' ELSE requests' = 0
             /\ UNCHANGED <<caVars, ruleVars, focus>>
          \/ focus = "authorities" /\ CaNext /\ UNCHANGED <<bootVars, ruleVars, focus>>
          \/ focus = "rules" /\ RuleNext /\ UNCHANGED <<bootVars, caVars, focus>>

MCSpec == MCInit /\ [][MCNext]_<<bootVars, caVars, ruleVars, focus>>

(* Every variable has its type. *)
Types == BootTypeOK /\ CaTypeOK /\ RuleTypeOK

Rule(priority, pattern, cidr, port, action, capture) ==
    [priority |-> priority, enabled |-> TRUE, pattern |-> pattern, cidr |-> cidr,
     port |-> port, action |-> action, capture |-> capture]

\* A narrow rule, a broad one of lower priority, and one the API refuses.
SomePayloads == {Rule(1, "one", "office", "any", "bypass", FALSE),
                 Rule(2, "all", "any", "443", "intercept", TRUE),
                 Rule(1, "all", "bad", "any", "block", FALSE)}
SomeChanges == {[priority |-> 2], [enabled |-> FALSE], [cidr |-> "any", pattern |-> "all"],
                [cidr |-> "bad"], [port |-> "any", enabled |-> TRUE]}
SomeQueries == [host: {"a", "b"}, port: {"443", "80"}, client: {"in", "out"}]
SomeGlob == [one |-> {"a"}, all |-> {"a", "b"}]
SomeNet == [office |-> {"in"}]

(* Requests and replicas are interchangeable: no property is about liveness. *)
Symmetry == Permutations(Handlers) \cup Permutations(Replicas)
=============================================================================
