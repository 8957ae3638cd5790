----------------------------- MODULE Bootstrap ------------------------------
(***************************************************************************)
(* API replicas starting on a database that may be empty                   *)
(* (services/api/app/main.py, seed.py) beside the requests that replicas   *)
(* which already serve take (Accounts).  Each seed counts in one statement *)
(* and inserts in a later one; a second bootstrap admin violates the       *)
(* unique address, a second set of default rules violates nothing.         *)
(***************************************************************************)
EXTENDS Accounts

CONSTANTS Replicas,      \* API replicas
          SeedDefaults,  \* seed_default_policies of the settings
          MaxStarts      \* bound: starts of a process

ASSUME SeedAssumption == SeedDefaults \in BOOLEAN
ASSUME StartsAssumption == MaxStarts \in Nat

VARIABLES boot,      \* per replica: where its lifespan is
          ruled,     \* policy_rules has a row
          defaults,  \* sets of DEFAULT_RULES added since it last had none
          emptied,   \* someone has deleted the last row
          hurried,   \* two replicas were between count and insert at once
          starts     \* processes started

policies == <<ruled, defaults, emptied>>
seeding == <<boot, policies, hurried, starts>>

BootInit == /\ Init
            /\ boot = [r \in Replicas |-> "down"]
            /\ ruled = FALSE /\ defaults = 0 /\ emptied = FALSE
            /\ hurried = FALSE /\ starts = 0

Reach(r, label) == boot' = [boot EXCEPT ![r] = label]

(* The schema is there; a container that ended is started again. *)
Start(r) == /\ boot[r] = "down" /\ starts < MaxStarts
            /\ Reach(r, "countUsers")
            /\ starts' = starts + 1
            /\ UNCHANGED <<vars, policies, hurried>>

(* ensure_admin *)
CountUsers(r) ==
    /\ boot[r] = "countUsers"
    /\ Reach(r, IF \E u \in Emails : Exists(u) THEN "countRules" ELSE "addAdmin")
    /\ UNCHANGED <<vars, policies, hurried, starts>>

AddAdmin(r) ==
    /\ boot[r] = "addAdmin"
    /\ IF Exists(Root)
       THEN Reach(r, "down") /\ UNCHANGED <<users, nextId>>
       ELSE /\ Reach(r, "countRules")
            /\ users' = [users EXCEPT ![Root] = Account(nextId, "admin", SomePassword)]
            /\ nextId' = nextId + 1
    /\ UNCHANGED <<req, requests, policies, hurried, starts>>

\* Mutant of CountRules: the defaults are added whatever is there.
CountRulesAlways(r) ==
    /\ boot[r] = "countRules"
    /\ Reach(r, "addRules")
    /\ hurried' = (hurried \/ \E q \in Replicas \ {r} : boot[q] = "addRules")
    /\ UNCHANGED <<vars, policies, starts>>

(* ensure_default_policies, called if the settings say so *)
CountRules(r) ==
    /\ boot[r] = "countRules"
    /\ IF ruled \/ ~SeedDefaults
       THEN Reach(r, "serving") /\ UNCHANGED hurried
       ELSE /\ Reach(r, "addRules")
            /\ hurried' = (hurried \/ \E q \in Replicas \ {r} : boot[q] = "addRules")
    /\ UNCHANGED <<vars, policies, starts>>

AddRules(r) == /\ boot[r] = "addRules"
               /\ ruled' = TRUE /\ defaults' = defaults + 1
               /\ Reach(r, "serving")
               /\ UNCHANGED <<vars, emptied, hurried, starts>>

(* The database fails during the start, or the process ends. *)
Ends(r) == /\ boot[r] # "down"
           /\ Reach(r, "down")
           /\ UNCHANGED <<vars, policies, hurried, starts>>

Serves == \E r \in Replicas : boot[r] = "serving"

(* An operator adds the first rule or deletes the last one: Policies has    *)
(* what other requests do to the table.                                    *)
RulesByHand == /\ \/ ~ruled /\ ruled' = TRUE /\ UNCHANGED <<defaults, emptied>>
                  \/ ruled /\ ruled' = FALSE /\ defaults' = 0 /\ emptied' = TRUE
               /\ UNCHANGED <<vars, boot, hurried, starts>>

BootNext == \/ \E r \in Replicas : Start(r) \/ CountUsers(r) \/ AddAdmin(r) \/ CountRules(r)
                                   \/ AddRules(r) \/ Ends(r)
            \/ Serves /\ Next /\ UNCHANGED seeding
            \/ Serves /\ RulesByHand

BootSpec == BootInit /\ [][BootNext]_<<vars, seeding>>

-----------------------------------------------------------------------------
(* Every variable of the start-up has its type. *)
BootTypeOK == /\ TypeOK
              /\ boot \in [Replicas -> {"down", "countUsers", "addAdmin", "countRules",
                                        "addRules", "serving"}]
              /\ ruled \in BOOLEAN /\ emptied \in BOOLEAN /\ hurried \in BOOLEAN
              /\ defaults \in Nat /\ starts \in 0..MaxStarts

(* However replicas start, end in the middle of their start and start       *)
(* again, and whatever operators do to the rules meanwhile: with the        *)
(* setting on, a replica serves without the default rules only after        *)
(* someone has deleted all rules, and a table has the defaults twice only  *)
(* if two replicas were seeding at the same time.                          *)
SeededOnce == /\ SeedDefaults /\ Serves => defaults > 0 \/ emptied
              /\ defaults > 1 => hurried
=============================================================================
