------------------------- MODULE UserAccountsProofs -------------------------
(***************************************************************************)
(* Proofs about the account requests.  Types hold for any number of request *)
(* threads; that an administrator remains holds when requests come one at a *)
(* time, and MCUserAccountsRace shows that two suffice to break it.         *)
(***************************************************************************)
EXTENDS UserAccounts, FiniteSetTheorems, TLAPS

RequestType == [pc : {"idle", "load", "count", "commit"}, op : Ops,
                actor : Users \cup {NoUser}, user : Users \cup {NoUser},
                role : Roles \cup {"none"}, active : BOOLEAN,
                to : Roles \cup {"none"}]

(* A request that is under way names an account, and a creation or a change *)
(* of role names a role.                                                    *)
Named ==
    \A t \in Threads : th[t].pc # "idle" =>
       /\ th[t].user \in Users
       /\ th[t].op \in {"create", "role"} => th[t].to \in Roles

LEMMA TypeInit ==
    ASSUME ConstantsAssumption
    PROVE  Init => TypeOK /\ Named
BY DEF ConstantsAssumption, Init, TypeOK, Named, Idle, Ops, Roles

(* What a handler does to its own record, and what the others keep.         *)
LEMMA GotoType ==
    ASSUME TypeOK, Named, NEW t \in Threads, NEW r \in RequestType, Goto(t, r),
           r.pc # "idle" => /\ r.user \in Users
                            /\ r.op \in {"create", "role"} => r.to \in Roles
    PROVE  th' \in [Threads -> RequestType] /\ Named'
<1>1. th \in [Threads -> RequestType]
  BY DEF TypeOK, RequestType
<1>2. th' = [th EXCEPT ![t] = r]
  BY DEF Goto
<1> QED
  BY <1>1, <1>2 DEF Named

LEMMA IdleType == Idle \in RequestType /\ Idle.pc = "idle"
BY DEF Idle, RequestType, Ops, Roles

LEMMA TypeStep ==
    ASSUME ConstantsAssumption, TypeOK, Named, [Next]_vars
    PROVE  TypeOK' /\ Named'
<1>t. th \in [Threads -> RequestType] /\ role \in [Users -> Roles \cup {"none"}]
      /\ active \subseteq Users /\ \A u \in active : role[u] # "none"
  BY DEF TypeOK, RequestType
<1>q. ASSUME th' \in [Threads -> RequestType],
             role' \in [Users -> Roles \cup {"none"}], active' \subseteq Users,
             \A u \in active' : role'[u] # "none"
      PROVE  TypeOK'
  BY <1>q DEF TypeOK, RequestType
<1>1. ASSUME NEW t \in Threads, Request(t) PROVE TypeOK' /\ Named'
  <2> PICK actor \in Users, user \in Users, op \in Ops, to \in Roles \cup {"none"} :
         Authorize(t, actor, user, op, to)
    BY <1>1 DEF Request
  <2> DEFINE r == [Idle EXCEPT !.pc = "load", !.op = op, !.actor = actor,
                               !.user = user, !.to = to]
  <2>1. /\ r \in RequestType /\ r.user \in Users
        /\ r.op \in {"create", "role"} => r.to \in Roles
    BY DEF Authorize, Idle, RequestType, Ops, Roles
  <2>2. Goto(t, r) /\ UNCHANGED <<role, active>>
    BY DEF Authorize
  <2> HIDE DEF r
  <2> QED
    BY <2>1, <2>2, <1>t, <1>q, GotoType
<1>2. ASSUME NEW t \in Threads, Load(t) PROVE TypeOK' /\ Named'
  <2> DEFINE r == th[t]
             s == [r EXCEPT !.pc = IF r.op = "create" THEN "commit" ELSE "count",
                            !.role = role[r.user], !.active = r.user \in active]
  <2>1. r \in RequestType /\ r.user \in Users
        /\ (r.op \in {"create", "role"} => r.to \in Roles)
    BY <1>2, <1>t DEF Load, Named
  <2>2. /\ s \in RequestType /\ s.user \in Users
        /\ s.op \in {"create", "role"} => s.to \in Roles
    <3>1. role[r.user] \in Roles \cup {"none"}
      BY <2>1, <1>t
    <3>2. s.user = r.user /\ s.op = r.op /\ s.to = r.to
      BY <2>1 DEF RequestType
    <3>3. CASE r.user \in active
      <4>1. s = [r EXCEPT !.pc = IF r.op = "create" THEN "commit" ELSE "count",
                          !.role = role[r.user], !.active = TRUE]
        BY <3>3
      <4> QED
        BY <2>1, <3>1, <3>2, <4>1 DEF RequestType
    <3>4. CASE r.user \notin active
      <4>1. s = [r EXCEPT !.pc = IF r.op = "create" THEN "commit" ELSE "count",
                          !.role = role[r.user], !.active = FALSE]
        <5>1. (r.user \in active) = FALSE
          BY <3>4
        <5> QED
          BY <5>1, Zenon
      <4> QED
        BY <2>1, <3>1, <3>2, <4>1 DEF RequestType
    <3> QED
      BY <3>3, <3>4
  <2>3. (Goto(t, s) \/ Goto(t, Idle)) /\ UNCHANGED <<role, active>>
    BY <1>2 DEF Load, Return
  <2> HIDE DEF s
  <2> QED
    BY <2>2, <2>3, <1>t, <1>q, GotoType, IdleType
<1>3. ASSUME NEW t \in Threads, Count(t) PROVE TypeOK' /\ Named'
  <2> DEFINE r == th[t]
             s == [r EXCEPT !.pc = "commit"]
  <2>1. /\ s \in RequestType /\ s.user \in Users
        /\ s.op \in {"create", "role"} => s.to \in Roles
    BY <1>3, <1>t DEF Count, Named, RequestType
  <2>2. (Goto(t, s) \/ Goto(t, Idle)) /\ UNCHANGED <<role, active>>
    BY <1>3 DEF Count, Return
  <2> HIDE DEF s
  <2> QED
    BY <2>1, <2>2, <1>t, <1>q, GotoType, IdleType
<1>4. ASSUME NEW t \in Threads, Commit(t) PROVE TypeOK' /\ Named'
  <2> DEFINE r == th[t]
  <2>1. r.user \in Users /\ (r.op \in {"create", "role"} => r.to \in Roles)
    BY <1>4 DEF Commit, Named
  <2>2. Goto(t, Idle)
    BY <1>4 DEF Commit, Return
  <2>3. th' \in [Threads -> RequestType] /\ Named'
    BY <2>2, GotoType, IdleType
  <2>4. \/ Insert(r) \/ ChangeRole(r) \/ Toggle(r) \/ Delete(r)
        \/ UNCHANGED <<role, active>>
    BY <1>4 DEF Commit
  <2>5. /\ role' \in [Users -> Roles \cup {"none"}] /\ active' \subseteq Users
        /\ \A u \in active' : role'[u] # "none"
    BY <2>1, <2>4, <1>t DEF Insert, ChangeRole, Toggle, Delete, Roles
  <2> QED
    BY <2>3, <2>5, <1>q
<1>5. CASE Restart
  <2>1. th' \in [Threads -> RequestType] /\ Named'
    BY <1>5, IdleType DEF Restart, Named
  <2>2. /\ role' \in [Users -> Roles \cup {"none"}] /\ active' \subseteq Users
        /\ \A u \in active' : role'[u] # "none"
    BY <1>5, <1>t DEF ConstantsAssumption, Restart, Roles
  <2> QED
    BY <2>1, <2>2, <1>q
<1>6. CASE UNCHANGED vars
  BY <1>6 DEF vars, TypeOK, Named
<1> QED
  BY <1>1, <1>2, <1>3, <1>4, <1>5, <1>6 DEF Next

(* Rows and requests keep the values of their columns and parameters,       *)
(* however many requests run.                                               *)
THEOREM TypeCorrect ==
    ASSUME ConstantsAssumption
    PROVE  Spec => []TypeOK
<1>1. Init => TypeOK /\ Named
  BY TypeInit
<1>2. TypeOK /\ Named /\ [Next]_vars => TypeOK' /\ Named'
  BY TypeStep
<1> QED
  BY <1>1, <1>2, PTL DEF Spec

-----------------------------------------------------------------------------
(* The count of the guard, as what it says about the other administrators.  *)
LEMMA AnotherOne ==
    ASSUME NEW S, IsFiniteSet(S), ~(Cardinality(S) <= 1), NEW u
    PROVE  S \ {u} # {}
<1> SUFFICES ASSUME S \ {u} = {} PROVE FALSE
  OBVIOUS
<1>1. S = {} \/ S = {u}
  OBVIOUS
<1>2. Cardinality({}) = 0 /\ Cardinality({u}) = 1
  BY FS_EmptySet, FS_Singleton
<1> QED
  BY <1>1, <1>2

(* Checked, of one request.                                                 *)
CheckedRequest(r) ==
    /\ r.pc \in {"count", "commit"} /\ r.op # "create" =>
          r.role = role[r.user] /\ r.active = (r.user \in active)
    /\ r.pc = "commit" /\ r.op # "create" /\ Removes(r) =>
          \E u \in active : role[u] = "admin" /\ u # r.user

LEMMA CheckedOne ==
    ASSUME NEW t \in Threads, Threads = {t}
    PROVE  /\ Checked <=> CheckedRequest(th[t])
           /\ AdminRemains <=> \E u \in active : role[u] = "admin"
<1>1. \A x : ActiveAdmins \ {x} # {} <=> \E u \in active : role[u] = "admin" /\ u # x
  BY DEF ActiveAdmins
<1> QED
  BY <1>1 DEF Checked, CheckedRequest, AdminRemains, ActiveAdmins

LEMMA CountStep ==
    ASSUME ConstantsAssumption, TypeOK, Checked, AdminRemains,
           NEW t \in Threads, Threads = {t}, Count(t)
    PROVE  Checked' /\ AdminRemains'
<1> DEFINE r == th[t]
           s == [r EXCEPT !.pc = "commit"]
<1>0. r \in RequestType /\ CheckedRequest(r)
  BY CheckedOne DEF TypeOK, RequestType
<1>1. UNCHANGED <<role, active>> /\ AdminRemains'
  BY DEF Count, AdminRemains, ActiveAdmins
<1>2. CASE th'[t] = Idle
  BY <1>1, <1>2 DEF Checked, Idle
<1>3. CASE th'[t] = s /\ ~(Removes(r) /\ Cardinality(ActiveAdmins) <= 1)
  <2>1. IsFiniteSet(ActiveAdmins)
    BY FS_Subset DEF ConstantsAssumption, ActiveAdmins, TypeOK
  <2>2. Removes(r) => ActiveAdmins \ {r.user} # {}
    BY <2>1, <1>3, AnotherOne
  <2>3. Removes(r) => \E u \in active : role[u] = "admin" /\ u # r.user
    BY <2>2 DEF ActiveAdmins
  <2>4. /\ r.pc = "count" /\ th'[t] = s
        /\ s.pc = "commit" /\ s.op = r.op /\ s.user = r.user
        /\ s.role = r.role /\ s.active = r.active /\ s.to = r.to
    BY <1>0, <1>3 DEF Count, RequestType
  <2>5. CheckedRequest(s)
    BY <1>0, <2>3, <2>4 DEF CheckedRequest, Removes
  <2>6. CheckedRequest(th[t])'
    BY <1>1, <2>4, <2>5 DEF CheckedRequest, Removes
  <2> QED
    BY <1>1, <2>6, CheckedOne, PTL
<1>4. \/ th'[t] = Idle
      \/ th'[t] = s /\ ~(Removes(r) /\ Cardinality(ActiveAdmins) <= 1)
  <2>1. \A q : Goto(t, q) => th'[t] = q
    BY DEF Goto, TypeOK
  <2>2. \/ Goto(t, Idle)
        \/ Goto(t, s) /\ ~(Removes(r) /\ Cardinality(ActiveAdmins) <= 1)
    BY DEF Count, Return
  <2> QED
    BY <2>1, <2>2
<1> QED
  BY <1>2, <1>3, <1>4

LEMMA CommitStep ==
    ASSUME TypeOK, Named, Checked, AdminRemains, NEW t \in Threads, Threads = {t},
           Commit(t)
    PROVE  Checked' /\ AdminRemains'
<1> DEFINE r == th[t]
<1>1. Checked'
  BY DEF Commit, Return, Goto, Checked, TypeOK, Idle
<1>2. r.pc = "commit" /\ r.user \in Users /\ (r.op = "create" => r.to \in Roles)
  BY DEF Commit, Named
<1>3. CheckedRequest(r) /\ \E u \in active : role[u] = "admin"
  BY CheckedOne
<1>4. role \in [Users -> Roles \cup {"none"}] /\ active \subseteq Users
  BY DEF TypeOK
<1>5. \E u \in active' : role'[u] = "admin"
  <2>1. CASE Insert(r)
    BY <1>2, <1>3, <1>4, <2>1 DEF Insert
  <2>2. CASE ChangeRole(r)
    BY <1>2, <1>3, <1>4, <2>2 DEF ChangeRole, CheckedRequest, Removes
  <2>3. CASE Toggle(r)
    BY <1>2, <1>3, <1>4, <2>3 DEF Toggle, CheckedRequest, Removes
  <2>4. CASE Delete(r)
    BY <1>2, <1>3, <1>4, <2>4 DEF Delete, CheckedRequest, Removes
  <2>5. CASE UNCHANGED <<role, active>>
    BY <1>3, <2>5
  <2> QED
    BY <2>1, <2>2, <2>3, <2>4, <2>5 DEF Commit
<1>6. AdminRemains'
  BY <1>5 DEF AdminRemains, ActiveAdmins
<1> QED
  BY <1>1, <1>6

LEMMA LoadStep ==
    ASSUME TypeOK, AdminRemains, NEW t \in Threads, Threads = {t}, Load(t)
    PROVE  Checked' /\ AdminRemains'
<1> DEFINE r == th[t]
           s == [r EXCEPT !.pc = IF r.op = "create" THEN "commit" ELSE "count",
                          !.role = role[r.user], !.active = r.user \in active]
<1>1. UNCHANGED <<role, active>> /\ AdminRemains'
  BY DEF Load, AdminRemains, ActiveAdmins
<1>2. r \in RequestType /\ (th'[t] = s \/ th'[t] = Idle)
  BY DEF Load, Return, Goto, TypeOK, RequestType
<1>3. CASE th'[t] = s
  <2>1. /\ s.op = r.op /\ s.user = r.user
        /\ s.role = role[r.user] /\ s.active = (r.user \in active)
        /\ s.pc = "commit" => s.op = "create"
    BY <1>2 DEF RequestType
  <2>2. CheckedRequest(th[t])'
    BY <1>1, <1>3, <2>1 DEF CheckedRequest
  <2> QED
    BY <1>1, <2>2, CheckedOne, PTL
<1>4. CASE th'[t] = Idle
  BY <1>1, <1>4 DEF Checked, Idle
<1> QED
  BY <1>2, <1>3, <1>4

LEMMA AdminStep ==
    ASSUME ConstantsAssumption, TypeOK, Named, Checked, AdminRemains,
           NEW t \in Threads, Threads = {t}, [Next]_vars
    PROVE  Checked' /\ AdminRemains'
<1>1. CASE Request(t)
  BY <1>1 DEF Request, Authorize, Goto, Idle, Checked, AdminRemains, ActiveAdmins,
              TypeOK
<1>2. CASE Load(t)
  BY <1>2, LoadStep
<1>3. CASE Count(t)
  BY <1>3, CountStep
<1>4. CASE Commit(t)
  BY <1>4, CommitStep
<1>5. CASE Restart
  <2>1. ~ \A u \in Users : role[u] = "none"
    BY DEF AdminRemains, ActiveAdmins, TypeOK
  <2> QED
    BY <1>5, <2>1 DEF Restart, Idle, Checked, AdminRemains, ActiveAdmins, TypeOK
<1>6. CASE UNCHANGED vars
  BY <1>6 DEF vars, Checked, AdminRemains, ActiveAdmins, Removes
<1> QED
  BY <1>1, <1>2, <1>3, <1>4, <1>5, <1>6 DEF Next

(* With one request at a time, whatever the sequence of creations, changes  *)
(* of role, disablings, deletions and restarts, an active administrator     *)
(* remains.                                                                 *)
THEOREM AdminRemainsSequentially ==
    ASSUME ConstantsAssumption, NEW t \in Threads, Threads = {t}
    PROVE  Spec => []AdminRemains
<1>1. Init => TypeOK /\ Named /\ Checked /\ AdminRemains
  BY TypeInit
     DEF ConstantsAssumption, Init, Checked, AdminRemains, ActiveAdmins, Idle
<1>2. TypeOK /\ Named /\ Checked /\ AdminRemains /\ [Next]_vars
         => TypeOK' /\ Named' /\ Checked' /\ AdminRemains'
  BY TypeStep, AdminStep
<1> QED
  BY <1>1, <1>2, PTL DEF Spec

=============================================================================
