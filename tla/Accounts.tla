------------------------------ MODULE Accounts ------------------------------
(***************************************************************************)
(* The rows of users under concurrent requests: the administration of      *)
(* services/api/app/routers/users.py, login and password change of         *)
(* routers/auth.py, and the authorisation of deps.py that precedes each.   *)
(* A request reads its account and its target once, checks, and commits;   *)
(* the unit of work writes only the columns that differ from what it read. *)
(***************************************************************************)
EXTENDS Integers, FiniteSets

CONSTANTS Handlers,    \* requests in flight
          Emails,      \* addresses, the unique key of users
          Root,        \* bootstrap_admin_email
          Passwords,
          MaxRequests  \* bound: requests

ASSUME RootAssumption == Root \in Emails
ASSUME PasswordsAssumption == Passwords # {}
ASSUME BoundAssumption == MaxRequests \in Nat

VARIABLES users,    \* per address: its row
          nextId,   \* the sequence of users.id
          req,      \* per handler: the request it is serving
          requests  \* requests begun

vars == <<users, nextId, req, requests>>

(* The row of an address, with id 0 when there is none; password_hash is a  *)
(* password and whether its hashing parameters are outdated.               *)
User == [id: Nat, role: {"viewer", "admin"}, isActive: BOOLEAN, password: Passwords,
         outdated: BOOLEAN]
SomePassword == CHOOSE p \in Passwords : TRUE
NoUser == [id |-> 0, role |-> "viewer", isActive |-> FALSE, password |-> SomePassword,
           outdated |-> FALSE]
Account(id, role, password) ==
    [id |-> id, role |-> role, isActive |-> TRUE, password |-> password, outdated |-> FALSE]

AdminVerbs == {"create", "promote", "demote", "enable", "disable", "reset", "delete"}
SelfVerbs  == {"login", "change"}

(* What a request asks, of whom, the new password it carries, the row of    *)
(* its target as it was read, and (history) whether what its decision      *)
(* rests on has stayed as it was read.                                     *)
Requests == [step: {"idle", "load", "check", "write"}, verb: AdminVerbs \cup SelfVerbs,
             target: Emails, fresh: Passwords, seen: User, quiet: BOOLEAN]
Idle == [step |-> "idle", verb |-> "login", target |-> Root, fresh |-> SomePassword,
         seen |-> NoUser, quiet |-> TRUE]

Exists(u) == users[u].id # 0
IsAdmin(u) == Exists(u) /\ users[u].isActive /\ users[u].role = "admin"
Admins == {u \in Emails : IsAdmin(u)}

Init == /\ users = [u \in Emails |-> NoUser]
        /\ nextId = 1
        /\ req = [h \in Handlers |-> Idle]
        /\ requests = 0

-----------------------------------------------------------------------------
Begin(h, verb, target, fresh, step) ==
    /\ req[h].step = "idle" /\ requests < MaxRequests
    /\ requests' = requests + 1
    /\ req' = [req EXCEPT ![h] = [step |-> step, verb |-> verb, target |-> target,
                                  fresh |-> fresh, quiet |-> TRUE,
                                  seen |-> IF step = "write" /\ verb # "create"
                                           THEN users[target] ELSE NoUser]]
    /\ UNCHANGED <<users, nextId>>

(* get_current_user and require_role read the row of the caller: what the   *)
(* token says of the role is not used.  The session holds that row, and    *)
(* does not read it again when the caller asks about itself.               *)
AskAdmin(h) ==
    \E a \in Emails, t \in Emails, verb \in AdminVerbs, p \in Passwords :
        /\ IsAdmin(a)
        /\ a = t => verb \notin {"demote", "disable", "delete"}
        /\ verb \notin {"create", "reset"} => p = SomePassword
        /\ Begin(h, verb, t, p, IF verb = "create" \/ a = t THEN "write" ELSE "load")

(* login and change_password verify the password against the row they read; *)
(* a refusal changes nothing, and a login brings no new password.          *)
AskSelf(h) ==
    \E a \in Emails, verb \in SelfVerbs, p \in Passwords :
        /\ Exists(a) /\ users[a].isActive
        /\ verb = "login" => p = SomePassword
        /\ Begin(h, verb, a, p, "write")

Finish(h) == req' = [req EXCEPT ![h] = Idle]

(* An update that takes an admin's access, as the code sees it. *)
RemovesAdmin(r, row) == r.verb \in {"demote", "disable"} /\ row.role = "admin"

(* session.get of the target: 404, the last-admin check, or the write. *)
Load(h) ==
    /\ req[h].step = "load"
    /\ LET row == users[req[h].target]
       IN  IF row.id = 0 THEN Finish(h)
           ELSE req' = [req EXCEPT ![h].seen = row,
                            ![h].step = IF RemovesAdmin(req[h], row) THEN "check" ELSE "write"]
    /\ UNCHANGED <<users, nextId, requests>>

\* Mutant of Remaining: the target itself is counted as remaining.
RemainingWithTarget(t) == Admins

(* The active admins that update_user counts. *)
Remaining(t) == Admins \ {t}

CheckLastAdmin(h) ==
    /\ req[h].step = "check"
    /\ IF Remaining(req[h].target) = {} THEN Finish(h)
       ELSE req' = [req EXCEPT ![h].step = "write", ![h].quiet = TRUE]
    /\ UNCHANGED <<users, nextId, requests>>

-----------------------------------------------------------------------------
(* The values a request gives to the columns of its target's row. *)
NewRole(r)     == IF r.verb = "promote" THEN "admin"
                  ELSE IF r.verb = "demote" THEN "viewer" ELSE r.seen.role
NewActive(r)   == IF r.verb = "enable" THEN TRUE
                  ELSE IF r.verb = "disable" THEN FALSE ELSE r.seen.isActive
Rehashes(r)    == r.verb \in {"reset", "change"} \/ (r.verb = "login" /\ r.seen.outdated)
NewPassword(r) == IF r.verb = "login" THEN r.seen.password ELSE r.fresh

(* What it writes: a column with the value that was read is left alone; a   *)
(* new hash differs from any other.                                        *)
Written(r, u) ==
    [id       |-> u.id,
     role     |-> IF NewRole(r) # r.seen.role THEN NewRole(r) ELSE u.role,
     isActive |-> IF NewActive(r) # r.seen.isActive THEN NewActive(r) ELSE u.isActive,
     password |-> IF Rehashes(r) THEN NewPassword(r) ELSE u.password,
     outdated |-> u.outdated /\ ~Rehashes(r)]

(* A step leaves alone what a request decides on: for a login the password  *)
(* it has verified, else that those who were admins still are.             *)
LeavesBe(r) == IF r.verb = "login"
               THEN users'[r.target].password = users[r.target].password
               ELSE Admins \subseteq Admins'

(* A commit ends its request and comes between the steps of the others. *)
Commit(h) == /\ req' = [g \in Handlers |-> IF g = h \/ req[g].step = "idle" THEN Idle
                                           ELSE [req[g] EXCEPT !.quiet = @ /\ LeavesBe(req[g])]]
             /\ UNCHANGED requests

(* A duplicate address is an IntegrityError, rolled back and answered 409. *)
CommitCreate(h) ==
    /\ req[h].step = "write" /\ req[h].verb = "create"
    /\ ~Exists(req[h].target)
    /\ \E role \in {"viewer", "admin"} :
          users' = [users EXCEPT ![req[h].target] = Account(nextId, role, req[h].fresh)]
    /\ nextId' = nextId + 1
    /\ Commit(h)

(* An update of a row that has been deleted is a StaleDataError. *)
CommitUpdate(h) ==
    /\ req[h].step = "write" /\ req[h].verb \notin {"create", "delete"}
    /\ Exists(req[h].target) /\ users[req[h].target].id = req[h].seen.id
    /\ users' = [users EXCEPT ![req[h].target] = Written(req[h], @)]
    /\ UNCHANGED nextId
    /\ Commit(h)

(* delete_user counts no admins: the caller remains. *)
CommitDelete(h) ==
    /\ req[h].step = "write" /\ req[h].verb = "delete"
    /\ users' = [users EXCEPT ![req[h].target] = IF @.id = req[h].seen.id THEN NoUser ELSE @]
    /\ UNCHANGED nextId
    /\ Commit(h)

(* Any error of the database: the session rolls back. *)
Abort(h) == /\ req[h].step # "idle" /\ Finish(h)
            /\ UNCHANGED <<users, nextId, requests>>

(* An upgrade of the hashing parameters makes stored hashes outdated. *)
Outdate == /\ \E u \in Emails : Exists(u) /\ ~users[u].outdated
           /\ users' = [u \in Emails |-> IF Exists(u) THEN [users[u] EXCEPT !.outdated = TRUE]
                                         ELSE users[u]]
           /\ UNCHANGED <<nextId, req, requests>>

Request(h) == \/ AskAdmin(h) \/ AskSelf(h) \/ Load(h) \/ CheckLastAdmin(h)
              \/ CommitCreate(h) \/ CommitUpdate(h) \/ CommitDelete(h) \/ Abort(h)

Next == (\E h \in Handlers : Request(h)) \/ Outdate

Spec == Init /\ [][Next]_vars

-----------------------------------------------------------------------------
(* Every variable has its type, and an id is one the sequence has given. *)
TypeOK == /\ users \in [Emails -> User] /\ nextId \in Nat \ {0}
          /\ \A u \in Emails : users[u].id < nextId
          /\ req \in [Handlers -> Requests]
          /\ requests \in 0..MaxRequests

(* Of any number of requests that overlap, one takes the last admin's       *)
(* access only when another has taken that of an admin since it counted    *)
(* those that remain (a delete: since it was authorised); a login changes  *)
(* a password only when another request has changed that password since it *)
(* was verified.  Whatever else commits meanwhile does no harm.            *)
OnlyRivalsTakeAccess ==
    [][\A h \in Handlers :
          req[h].step = "write" /\ req'[h].step = "idle" /\ req[h].quiet =>
              /\ Admins # {} => Admins' # {}
              /\ req[h].verb = "login" => \A u \in Emails : users'[u].password = users[u].password]_vars
=============================================================================
