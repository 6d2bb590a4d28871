---------------------------- MODULE UserAccounts ----------------------------
(***************************************************************************)
(* The local accounts of AtlasVM and the requests that change them: create, *)
(* change of role, disable or enable, delete (main.py), authorised by       *)
(* core/auth.py and seeded by core/database.py.  Each query and each commit *)
(* is a step: SQLAlchemy reads without a transaction on SQLite, and the     *)
(* account object keeps what was loaded until the commit.                   *)
(***************************************************************************)
EXTENDS FiniteSets, Naturals

CONSTANTS
    Users,     \* usernames
    EnvUser,   \* ATLASVM_USERNAME, an administrator unless its account says no
    Threads,   \* request threads
    NoUser

Roles == {"viewer", "operator", "admin"}

ConstantsAssumption ==
    /\ IsFiniteSet(Users)
    /\ EnvUser \in Users
    /\ NoUser \notin Users

VARIABLES
    role,    \* the role in the user's row; "none" if there is no row
    active,  \* users whose row is enabled
    th       \* what each request has read and is about to write

vars == <<role, active, th>>

Ops  == {"create", "role", "toggle", "delete"}
Idle == [pc |-> "idle", op |-> "create", actor |-> NoUser, user |-> NoUser,
         role |-> "none", active |-> FALSE, to |-> "none"]

(* Rows and requests have the values of their columns and parameters.       *)
TypeOK ==
    /\ role \in [Users -> Roles \cup {"none"}]
    /\ active \subseteq Users
    /\ \A u \in active : role[u] # "none"
    /\ th \in [Threads -> [pc : {"idle", "load", "count", "commit"}, op : Ops,
                           actor : Users \cup {NoUser}, user : Users \cup {NoUser},
                           role : Roles \cup {"none"}, active : BOOLEAN,
                           to : Roles \cup {"none"}]]

(* The first start has seeded the table.                                    *)
Init ==
    /\ role = [u \in Users |-> IF u = EnvUser THEN "admin" ELSE "none"]
    /\ active = {EnvUser}
    /\ th = [t \in Threads |-> Idle]

(* The query for the count of active administrators.                        *)
ActiveAdmins == {u \in active : role[u] = "admin"}

(* get_user_role                                                            *)
MayAdminister(u) == IF u \in active THEN role[u] = "admin" ELSE u = EnvUser

Goto(t, r) == th' = [th EXCEPT ![t] = r]
Return(t)  == Goto(t, Idle)

-----------------------------------------------------------------------------
(* require_admin, in a session of its own, before the handler runs.         *)
Authorize(t, actor, user, op, to) ==
    /\ th[t].pc = "idle"
    /\ MayAdminister(actor)
    /\ op \in {"create", "role"} <=> to # "none"
    /\ op \in {"toggle", "delete"} => user # actor
    /\ Goto(t, [Idle EXCEPT !.pc = "load", !.op = op, !.actor = actor,
                            !.user = user, !.to = to])
    /\ UNCHANGED <<role, active>>

(* The query for the account: create wants none, the others want one.       *)
Load(t) ==
    LET r == th[t] IN
    /\ r.pc = "load"
    /\ IF (r.op = "create") = (role[r.user] = "none")
         THEN Goto(t, [r EXCEPT !.pc = IF r.op = "create" THEN "commit" ELSE "count",
                                !.role = role[r.user], !.active = r.user \in active])
         ELSE Return(t)
    /\ UNCHANGED <<role, active>>

(* Does the request take an active administrator away, by what it loaded?   *)
Removes(r) == r.role = "admin" /\ r.active /\ (r.op = "role" => r.to # "admin")

(* A mutant of Count: the last administrator is not the last yet.           *)
CountLax(t) ==
    LET r == th[t] IN
    /\ r.pc = "count"
    /\ IF Removes(r) /\ Cardinality(ActiveAdmins) < 1
         THEN Return(t)
         ELSE Goto(t, [r EXCEPT !.pc = "commit"])
    /\ UNCHANGED <<role, active>>

(* The count of active administrators, and the refusal that goes with it.   *)
Count(t) ==
    LET r == th[t] IN
    /\ r.pc = "count"
    /\ IF Removes(r) /\ Cardinality(ActiveAdmins) <= 1
         THEN Return(t)
         ELSE Goto(t, [r EXCEPT !.pc = "commit"])
    /\ UNCHANGED <<role, active>>

-----------------------------------------------------------------------------
(* What the commits write.  The unique index decides between two creations, *)
(* an update of a row that is gone fails, and a value equal to the loaded   *)
(* one is not written.                                                      *)
Insert(r) ==
    /\ r.op = "create" /\ role[r.user] = "none"
    /\ role' = [role EXCEPT ![r.user] = r.to]
    /\ active' = active \cup {r.user}

ChangeRole(r) ==
    /\ r.op = "role" /\ role[r.user] # "none" /\ r.to # r.role
    /\ role' = [role EXCEPT ![r.user] = r.to]
    /\ UNCHANGED active

Toggle(r) ==
    /\ r.op = "toggle" /\ role[r.user] # "none"
    /\ active' = IF r.active THEN active \ {r.user} ELSE active \cup {r.user}
    /\ UNCHANGED role

(* A mutant of Delete: the user is gone, but still counts as enabled.       *)
DeleteRole(r) ==
    /\ r.op = "delete"
    /\ role' = [role EXCEPT ![r.user] = "none"]
    /\ UNCHANGED active

Delete(r) ==
    /\ r.op = "delete"
    /\ role' = [role EXCEPT ![r.user] = "none"]
    /\ active' = active \ {r.user}

(* The commit takes effect, or fails or finds nothing to write.             *)
Commit(t) ==
    LET r == th[t] IN
    /\ r.pc = "commit"
    /\ \/ Insert(r) \/ ChangeRole(r) \/ Toggle(r) \/ Delete(r)
       \/ UNCHANGED <<role, active>>
    /\ Return(t)

(* The process starts again: seed_default_admin fills an empty table.       *)
Restart ==
    /\ th' = [t \in Threads |-> Idle]
    /\ IF \A u \in Users : role[u] = "none"
         THEN /\ role' = [role EXCEPT ![EnvUser] = "admin"]
              /\ active' = {EnvUser}
         ELSE UNCHANGED <<role, active>>

Request(t) ==
    \E actor, user \in Users, op \in Ops, to \in Roles \cup {"none"} :
       Authorize(t, actor, user, op, to)

Next ==
    \/ \E t \in Threads : Request(t) \/ Load(t) \/ Count(t) \/ Commit(t)
    \/ Restart

Spec == Init /\ [][Next]_vars

-----------------------------------------------------------------------------
(* A request about to commit has left an administrator other than the one   *)
(* it takes away.  True while requests come one at a time.                  *)
Checked ==
    \A t \in Threads : LET r == th[t] IN
       /\ r.pc \in {"count", "commit"} /\ r.op # "create" =>
             r.role = role[r.user] /\ r.active = (r.user \in active)
       /\ r.pc = "commit" /\ r.op # "create" /\ Removes(r) =>
             ActiveAdmins \ {r.user} # {}

(* docs/PHASE_FOUR_DESIGN.md:12, "Guardrails preventing removal of the last *)
(* active administrator": there always is one.                              *)
AdminRemains == ActiveAdmins # {}

=============================================================================
