-------------------------- MODULE VmStorageProofs --------------------------
(***************************************************************************)
(* The invariants of VmStorage, for every number of VMs, threads, volumes   *)
(* and bus positions.                                                       *)
(***************************************************************************)
EXTENDS VmStorage, FiniteSetTheorems, TLAPS

(* A subset of a bus has at most as many members as the bus has positions.  *)
LEMMA PositionsBound ==
    ASSUME NEW n \in Nat, NEW S \in SUBSET (1..n)
    PROVE  /\ Cardinality(S) \in 0..n
           /\ S # {} => Cardinality(S) \in 1..n
<1>1. IsFiniteSet(1..n) /\ Cardinality(1..n) = n
  BY FS_Interval
<1>2. IsFiniteSet(S) /\ Cardinality(S) <= n
  BY <1>1, FS_Subset
<1>3. Cardinality(S) \in Nat
  BY <1>2, FS_CardinalityType
<1>4. S # {} => Cardinality(S) # 0
  BY <1>2, FS_EmptySet
<1> QED
  BY <1>2, <1>3, <1>4

(* add_disk's first candidate is in range.                                  *)
LEMMA DiskCountType ==
    ASSUME NEW d \in Disks
    PROVE  DiskCount(d) \in 0..MaxTarget
  BY ConstantsAssumption, PositionsBound DEF DiskCount, Targets

(* clone_vm's numbering gives each disk a volume that can exist.            *)
LEMMA RankType ==
    ASSUME NEW d \in Disks, NEW k \in Targets, d[k] # NoVol
    PROVE  Rank(d, k) \in 1..MaxIndex
<1>1. {j \in 1..k : d[j] # NoVol} # {}
  BY DEF Targets
<1>2. Rank(d, k) \in 1..k
  BY <1>1, PositionsBound DEF Rank, Targets
<1> QED
  BY <1>2, ConstantsAssumption DEF Targets

(* A bus position is a value of a thread's cursor.                          *)
LEMMA PositionRange ==
    /\ 1 \in Targets /\ 1 \in 1..MaxIndex
    /\ \A k \in Targets : k \in 1..(MaxIndex + 1) /\ k + 1 \in 1..(MaxIndex + 1)
    /\ \A k \in Targets : k # MaxTarget => k + 1 \in Targets
  BY ConstantsAssumption DEF Targets

LEMMA IdleType == Idle \in Locals
  BY ConstantsAssumption DEF Idle, Locals, PCs, Disks, Empty

-----------------------------------------------------------------------------
(* What the calls to libvirt do to the types of the domain variables.       *)
LEMMA DomainTypes ==
    ASSUME TypeOK, NEW n \in Names
    PROVE  /\ XMLDesc(n) \in Disks
           /\ \A d \in Disks, u \in Uuids : DefineXML(n, d, u) => DomTypeOK'
           /\ StartDomain(n) => DomTypeOK'
           /\ StopDomain(n) => DomTypeOK'
           /\ UndefineDomain(n) => DomTypeOK'
<1>1. XMLDesc(n) \in Disks
  BY DEF TypeOK, DomTypeOK, XMLDesc
<1>2. ASSUME NEW d \in Disks, NEW u \in Uuids, DefineXML(n, d, u) PROVE DomTypeOK'
  BY <1>2 DEF TypeOK, DomTypeOK, DefineXML
<1>3. Empty \in Disks
  BY DEF Empty, Disks
<1>4. StartDomain(n) => DomTypeOK'
  BY DEF TypeOK, DomTypeOK, StartDomain
<1>5. StopDomain(n) => DomTypeOK'
  BY <1>3 DEF TypeOK, DomTypeOK, StopDomain
<1>6. UndefineDomain(n) => DomTypeOK'
  BY <1>3 DEF TypeOK, DomTypeOK, UndefineDomain
<1> QED
  BY <1>1, <1>2, <1>4, <1>5, <1>6

(* A thread's record stays one: the handler returns or makes its next call. *)
LEMMA GotoType ==
    ASSUME TypeOK, NEW t \in Threads, NEW r \in Locals, Goto(t, r)
    PROVE  th' \in [Threads -> Locals]
  BY DEF TypeOK, Goto

LEMMA ReturnType ==
    ASSUME TypeOK, NEW t \in Threads, Return(t)
    PROVE  th' \in [Threads -> Locals]
  BY IdleType, GotoType DEF Return

(* A busy thread works on a VM, and its next call keeps the record typed.   *)
LEMMA CallType ==
    ASSUME NEW r \in Locals, r.pc # "idle",
           NEW pc \in PCs \ {"del_read", "del_undefine", "del_disks"}, NEW u \in Uuids \cup {NoUuid},
           NEW x \in Disks, NEW k \in 1..(MaxIndex + 1), NEW v \in Vols \cup {NoVol}
    PROVE  /\ r.vm \in Names
           /\ [r EXCEPT !.pc = pc] \in Locals
           /\ [r EXCEPT !.pc = pc, !.uuid = u] \in Locals
           /\ [r EXCEPT !.pc = pc, !.xml = x] \in Locals
           /\ [r EXCEPT !.pc = pc, !.vol = v] \in Locals
           /\ [r EXCEPT !.pc = pc, !.k = k] \in Locals
           /\ r.pc = "clone_copy" => [r EXCEPT !.k = k] \in Locals
  BY DEF Locals

LEMMA DiskUpdate ==
    ASSUME NEW d \in Disks, NEW k, NEW v \in Vols \cup {NoVol}
    PROVE  [d EXCEPT ![k] = v] \in Disks
  BY DEF Disks

LEMMA Unchanged ==
    ASSUME TypeOK, UNCHANGED domVars
    PROVE  DomTypeOK'
  BY DEF TypeOK, DomTypeOK, domVars

-----------------------------------------------------------------------------
(* Every step of a handler, and of the world around it, keeps the types.    *)
LEMMA TypeStep ==
    ASSUME TypeOK, [Next]_vars
    PROVE  TypeOK'
<1> USE ConstantsAssumption
<1>1. ASSUME NEW t \in Threads, Step(t) PROVE TypeOK'
  <2> DEFINE r == th[t]
  <2> r \in Locals
    BY DEF TypeOK
  <2>1. ASSUME NEW n \in Names, CreateCheck(t, n) PROVE TypeOK'
    <3>1. PICK start \in BOOLEAN : Goto(t, [Idle EXCEPT !.pc = "create_vol", !.vm = n, !.flag = start])
      BY <2>1 DEF CreateCheck
    <3>2. [Idle EXCEPT !.pc = "create_vol", !.vm = n, !.flag = start] \in Locals
      BY IdleType DEF Locals, Idle, PCs
    <3> QED
      BY <2>1, <3>1, <3>2, GotoType DEF CreateCheck, TypeOK, DomTypeOK, domVars
  <2>2. ASSUME NEW n \in Names, AddCheck(t, n) PROVE TypeOK'
    <3> DEFINE q == [Idle EXCEPT !.pc = "add_vol", !.vm = n, !.uuid = uuid[n],
                                 !.k = DiskCount(XMLDesc(n)) + 1]
    <3>1. DiskCount(XMLDesc(n)) + 1 \in 1..(MaxIndex + 1)
      BY DomainTypes, DiskCountType
    <3>2. q \in Locals
      BY <3>1, IdleType DEF Locals, Idle, PCs, TypeOK, DomTypeOK
    <3> QED
      BY <2>2, <3>2, GotoType DEF AddCheck, TypeOK, DomTypeOK, domVars
  <2>3. ASSUME NEW n \in Names, DeleteDestroy(t, n) PROVE TypeOK'
    <3>1. PICK pc \in {"del_read", "del_undefine"} :
             Goto(t, [Idle EXCEPT !.pc = pc, !.vm = n, !.uuid = uuid[n]])
      BY <2>3 DEF DeleteDestroy
    <3>2. [Idle EXCEPT !.pc = pc, !.vm = n, !.uuid = uuid[n]] \in Locals
      BY PositionRange, IdleType DEF Locals, Idle, PCs, TypeOK, DomTypeOK
    <3>3. DomTypeOK'
      BY <2>3, DomainTypes DEF DeleteDestroy, TypeOK, DomTypeOK, domVars
    <3> QED
      BY <2>3, <3>1, <3>2, <3>3, GotoType DEF DeleteDestroy, TypeOK
  <2>4. ASSUME NEW n \in Names, StartVm(t, n) PROVE TypeOK'
    BY <2>4, DomainTypes DEF StartVm, TypeOK
  <2>5. ASSUME NEW n \in Names, NEW src \in Names, CloneCheck(t, src, n) PROVE TypeOK'
    <3> DEFINE q == [Idle EXCEPT !.pc = "clone_copy", !.vm = n, !.xml = XMLDesc(src)]
    <3>1. XMLDesc(src) \in Disks
      BY DomainTypes
    <3>2. q \in Locals
      BY <3>1, IdleType DEF Locals, Idle, PCs
    <3> QED
      BY <2>5, <3>2, GotoType DEF CloneCheck, TypeOK, DomTypeOK, domVars
  <2>6. ASSUME NEW n \in Names, NEW k \in Targets, RemoveFind(t, n, k) PROVE TypeOK'
    <3>1. PICK delete \in BOOLEAN :
             Goto(t, [Idle EXCEPT !.pc = "rm_mode", !.vm = n, !.k = k,
                                  !.vol = XMLDesc(n)[k], !.flag = delete])
      BY <2>6 DEF RemoveFind
    <3>2. XMLDesc(n)[k] \in Vols \cup {NoVol}
      BY DomainTypes DEF Disks
    <3>3. [Idle EXCEPT !.pc = "rm_mode", !.vm = n, !.k = k,
                       !.vol = XMLDesc(n)[k], !.flag = delete] \in Locals
      BY <3>2, PositionRange, IdleType DEF Locals, Idle, PCs
    <3> QED
      BY <2>6, <3>1, <3>3, GotoType DEF RemoveFind, TypeOK, DomTypeOK, domVars
  <2>7. CASE CreateVolume(t)
    <3> DEFINE v == <<r.vm, 1>>
               q == [r EXCEPT !.pc = "create_define", !.xml[1] = v]
    <3>1. v \in Vols
      BY <2>7, PositionRange DEF CreateVolume, At, Locals, Vols
    <3>2. q \in Locals
      BY <2>7, <3>1, DiskUpdate DEF CreateVolume, At, Locals, PCs
    <3>3. th' \in [Threads -> Locals]
      BY <2>7, <3>2, GotoType, ReturnType DEF CreateVolume
    <3> QED
      BY <2>7, <3>1, <3>3, Unchanged DEF CreateVolume, TypeOK
  <2>8. CASE CreateDefine(t)
    <3>1. r.vm \in Names /\ r.xml \in Disks /\ r.pc # "idle"
      BY <2>8 DEF CreateDefine, At, Locals
    <3>2. CASE UNCHANGED domVars /\ Return(t)
      BY <2>8, <3>2, Unchanged, ReturnType DEF CreateDefine, TypeOK
    <3>3. ASSUME NEW u \in Uuids, DefineXML(r.vm, r.xml, u),
                 Return(t) \/ Goto(t, [r EXCEPT !.pc = "create_start", !.uuid = u])
          PROVE  TypeOK'
      <4>1. [r EXCEPT !.pc = "create_start", !.uuid = u] \in Locals
        BY <3>1, CallType DEF PCs, Locals
      <4>2. th' \in [Threads -> Locals]
        BY <3>3, <4>1, GotoType, ReturnType
      <4> QED
        BY <2>8, <3>1, <3>3, <4>2, DomainTypes DEF CreateDefine, TypeOK
    <3> QED
      BY <2>8, <3>2, <3>3 DEF CreateDefine
  <2>9. CASE CreateStart(t)
    <3>1. r.vm \in Names
      BY <2>9 DEF CreateStart, At, Locals
    <3>2. DomTypeOK'
      BY <2>9, <3>1, DomainTypes, Unchanged DEF CreateStart
    <3> QED
      BY <2>9, <3>2, ReturnType DEF CreateStart, TypeOK
  <2>10. CASE CloneCopy(t)
    <3> DEFINE k == r.k
               v == <<r.vm, Rank(r.xml, k)>>
    <3>1. /\ r.pc = "clone_copy" /\ k \in Targets
          /\ r.vm \in Names /\ r.xml \in Disks
      BY <2>10 DEF CloneCopy, At, Locals
    <3>2. r.xml[k] # NoVol => v \in Vols
      BY <3>1, RankType DEF Vols
    <3>3. k + 1 \in 1..(MaxIndex + 1)
      BY <3>1 DEF Targets
    <3>4. [r EXCEPT !.k = k + 1] \in Locals
      BY <3>1, <3>3 DEF Locals
    <3>5. r.xml[k] # NoVol => Rewritten(r, k, v) \in Locals
      BY <3>1, <3>2, <3>3, DiskUpdate DEF Locals, Rewritten
    <3>6. th' \in [Threads -> Locals]
      BY <2>10, <3>4, <3>5, GotoType, ReturnType DEF CloneCopy
    <3>7. vols' \subseteq Vols
      BY <2>10, <3>2 DEF CloneCopy, TypeOK
    <3> QED
      BY <2>10, <3>6, <3>7, Unchanged DEF CloneCopy, TypeOK
  <2>11. CASE CloneDefine(t)
    <3>1. r.vm \in Names /\ r.xml \in Disks
      BY <2>11 DEF CloneDefine, At, Locals
    <3>2. DomTypeOK'
      BY <2>11, <3>1, DomainTypes, Unchanged DEF CloneDefine
    <3> QED
      BY <2>11, <3>2, ReturnType DEF CloneDefine, TypeOK
  <2>12. CASE AddVolume(t)
    <3> DEFINE v == <<r.vm, r.k>>
    <3>1. r.pc = "add_vol" /\ r.vm \in Names /\ r.k \in 1..(MaxIndex + 1)
      BY <2>12 DEF AddVolume, At, Locals
    <3>2. r.k <= MaxIndex => v \in Vols
      BY <3>1 DEF Vols
    <3>3. r.k <= MaxIndex => [r EXCEPT !.pc = "add_target", !.vol = v] \in Locals
      BY <3>1, <3>2 DEF Locals, PCs
    <3>4. r.k <= MaxIndex => [r EXCEPT !.k = @ + 1] \in Locals
      BY <3>1 DEF Locals
    <3>5. th' \in [Threads -> Locals]
      BY <2>12, <3>3, <3>4, GotoType, ReturnType DEF AddVolume
    <3>6. vols' \subseteq Vols
      BY <2>12, <3>2 DEF AddVolume, TypeOK
    <3> QED
      BY <2>12, <3>5, <3>6, Unchanged DEF AddVolume, TypeOK
  <2>13. CASE AddTarget(t)
    <3>1. \A k \in Targets : [r EXCEPT !.pc = "add_attach", !.k = k] \in Locals
      BY <2>13, PositionRange DEF AddTarget, At, Locals, PCs
    <3>2. th' \in [Threads -> Locals]
      BY <2>13, <3>1, GotoType, ReturnType DEF AddTarget
    <3> QED
      BY <2>13, <3>2, Unchanged DEF AddTarget, TypeOK
  <2>14. CASE AddAttach(t)
    <3>1. r.vm \in Names /\ r.vol \in Vols \cup {NoVol} /\ r.pc = "add_attach"
      BY <2>14 DEF AddAttach, At, Locals
    <3>2. [r EXCEPT !.pc = "add_failed"] \in Locals
      BY <3>1 DEF Locals, PCs
    <3>3. th' \in [Threads -> Locals]
      BY <2>14, <3>2, GotoType, ReturnType DEF AddAttach
    <3>4. [cfg[r.vm] EXCEPT ![r.k] = r.vol] \in Disks
      BY <3>1, DiskUpdate DEF TypeOK, DomTypeOK
    <3>5. DomTypeOK'
      BY <2>14, <3>1, <3>4, Unchanged DEF AddAttach, TypeOK, DomTypeOK
    <3> QED
      BY <2>14, <3>3, <3>5 DEF AddAttach, TypeOK
  <2>15. CASE AddRollback(t)
    BY <2>15, Unchanged, ReturnType DEF AddRollback, TypeOK
  <2>16. CASE RemoveMode(t)
    <3>1. \A pc \in {"rm_detach_live", "rm_detach_config"} : [r EXCEPT !.pc = pc] \in Locals
      BY <2>16 DEF RemoveMode, At, Locals, PCs
    <3>2. th' \in [Threads -> Locals]
      BY <2>16, <3>1, GotoType DEF RemoveMode
    <3> QED
      BY <2>16, <3>2, Unchanged DEF RemoveMode, TypeOK
  <2>17. CASE RemoveDetach(t)
    <3>1. r.vm \in Names /\ r.pc # "idle"
      BY <2>17 DEF RemoveDetach, Locals
    <3>2. [r EXCEPT !.pc = "rm_delete"] \in Locals
      BY <3>1 DEF Locals, PCs
    <3>3. th' \in [Threads -> Locals]
      BY <2>17, <3>2, GotoType, ReturnType DEF RemoveDetach, ThenDelete
    <3>4. /\ [cfg[r.vm] EXCEPT ![r.k] = NoVol] \in Disks
          /\ [live[r.vm] EXCEPT ![r.k] = NoVol] \in Disks
      BY <3>1, DiskUpdate DEF TypeOK, DomTypeOK
    <3>5. DomTypeOK'
      BY <2>17, <3>1, <3>4, Unchanged DEF RemoveDetach, TypeOK, DomTypeOK
    <3> QED
      BY <2>17, <3>3, <3>5 DEF RemoveDetach, TypeOK
  <2>18. CASE RemoveDelete(t)
    BY <2>18, Unchanged, ReturnType DEF RemoveDelete, TypeOK
  <2>19. CASE DeleteRead(t)
    <3>1. r.vm \in Names /\ r.pc = "del_read"
      BY <2>19 DEF DeleteRead, At, Locals
    <3>2. [r EXCEPT !.pc = "del_undefine", !.xml = XMLDesc(r.vm)] \in Locals
      BY <3>1, DomainTypes DEF Locals, PCs
    <3>3. th' \in [Threads -> Locals]
      BY <2>19, <3>2, GotoType, ReturnType DEF DeleteRead
    <3> QED
      BY <2>19, <3>3, Unchanged DEF DeleteRead, TypeOK
  <2>20. CASE DeleteUndefine(t)
    <3>1. r.vm \in Names /\ r.pc = "del_undefine"
      BY <2>20 DEF DeleteUndefine, At, Locals
    <3>2. PICK q \in Locals : Goto(t, q)
      <4>1. CASE Return(t)
        BY <4>1, IdleType DEF Return
      <4>2. CASE Goto(t, [r EXCEPT !.pc = "del_disks"])
        BY <4>2, <3>1 DEF Locals, PCs
      <4> QED
        BY <2>20, <4>1, <4>2 DEF DeleteUndefine
    <3>3. DomTypeOK'
      BY <2>20, <3>1, DomainTypes, Unchanged DEF DeleteUndefine
    <3> QED
      BY <2>20, <3>2, <3>3, GotoType DEF DeleteUndefine, TypeOK
  <2>21. CASE DeleteDisks(t)
    <3>1. r.pc = "del_disks" /\ r.k \in Targets
      BY <2>21 DEF DeleteDisks, At, Locals
    <3>2. r.k # MaxTarget => [r EXCEPT !.k = @ + 1] \in Locals
      BY <3>1 DEF Locals, Targets
    <3>3. th' \in [Threads -> Locals]
      BY <2>21, <3>2, GotoType, ReturnType DEF DeleteDisks
    <3>4. vols' \subseteq Vols
      BY <2>21 DEF DeleteDisks, TypeOK
    <3> QED
      BY <2>21, <3>3, <3>4, Unchanged DEF DeleteDisks, TypeOK
  <2> QED
    BY <1>1, <2>1, <2>2, <2>3, <2>4, <2>5, <2>6, <2>7, <2>8, <2>9, <2>10, <2>11, <2>12, <2>13, <2>14, <2>15, <2>16, <2>17, <2>18, <2>19, <2>20, <2>21 DEF Step
<1>2. ASSUME NEW n \in Names, PowerOff(n) PROVE TypeOK'
  BY <1>2, DomainTypes DEF PowerOff, TypeOK
<1>3. CASE Crash
  BY <1>3, IdleType DEF Crash, TypeOK, DomTypeOK, domVars
<1>4. CASE UNCHANGED vars
  BY <1>4 DEF vars, TypeOK, DomTypeOK
<1> QED
  BY <1>1, <1>2, <1>3, <1>4 DEF Next

(* VmStorage!TypeOK is an invariant.                                        *)
THEOREM TypeCorrect == Spec => []TypeOK
<1>1. Init => TypeOK
  BY IdleType DEF Init, TypeOK, DomTypeOK, Empty, Disks
<1>2. TypeOK /\ [Next]_vars => TypeOK'
  BY TypeStep
<1> QED
  BY <1>1, <1>2, PTL DEF Spec

-----------------------------------------------------------------------------
(* What the calls to libvirt do to the ownership of disks.                  *)
LEMMA EmptyOwned == \A n : Owned(n, Empty)
  BY DEF Owned, Empty

LEMMA DomainOwnership ==
    ASSUME TypeOK, DomOwned, NEW n \in Names
    PROVE  /\ Owned(n, XMLDesc(n))
           /\ \A d \in Disks, u \in Uuids :
                 DefineXML(n, d, u) /\ Owned(n, d) => DomOwned'
           /\ StartDomain(n) => DomOwned'
           /\ StopDomain(n) => DomOwned'
           /\ UndefineDomain(n) => DomOwned'
<1>1. Owned(n, XMLDesc(n))
  BY DEF DomOwned, XMLDesc
<1>2. ASSUME NEW d \in Disks, NEW u \in Uuids, DefineXML(n, d, u), Owned(n, d)
      PROVE  DomOwned'
  BY <1>2 DEF TypeOK, DomTypeOK, DomOwned, DefineXML
<1>3. StartDomain(n) => DomOwned'
  BY DEF TypeOK, DomTypeOK, DomOwned, StartDomain
<1>4. StopDomain(n) => DomOwned'
  BY EmptyOwned DEF TypeOK, DomTypeOK, DomOwned, StopDomain
<1>5. UndefineDomain(n) => DomOwned'
  BY EmptyOwned DEF TypeOK, DomTypeOK, DomOwned, UndefineDomain
<1> QED
  BY <1>1, <1>2, <1>3, <1>4, <1>5

LEMMA SameOwnership ==
    ASSUME DomOwned, UNCHANGED domVars
    PROVE  DomOwned'
  BY DEF DomOwned, domVars

LEMMA IdleHolding == Holding(Idle)
  BY EmptyOwned DEF Holding, Idle

(* A step of one thread leaves what the others hold alone.                  *)
LEMMA GotoHolding ==
    ASSUME TypeOK, Ownership, NEW t \in Threads, NEW r, Goto(t, r), Holding(r)
    PROVE  \A s \in Threads : Holding(th'[s])
  BY DEF TypeOK, Ownership, Goto

LEMMA ReturnHolding ==
    ASSUME TypeOK, Ownership, NEW t \in Threads, Return(t)
    PROVE  \A s \in Threads : Holding(th'[s])
  BY IdleHolding, GotoHolding DEF Return

(* Attaching a volume of the VM, or detaching one, at one position.         *)
LEMMA UpdateOwned ==
    ASSUME NEW n, NEW d \in Disks, Owned(n, d), NEW k,
           NEW v \in Vols \cup {NoVol}, v # NoVol => v[1] = n
    PROVE  Owned(n, [d EXCEPT ![k] = v])
  BY DEF Owned, Disks

-----------------------------------------------------------------------------
(* Every step keeps every volume with its VM.                               *)
LEMMA OwnershipStep ==
    ASSUME TypeOK, Ownership, [Next]_vars
    PROVE  Ownership'
<1> USE ConstantsAssumption
<1> DomOwned
  BY DEF Ownership
<1>1. ASSUME NEW t \in Threads, Step(t) PROVE Ownership'
  <2> DEFINE r == th[t]
  <2> /\ r \in Locals
      /\ Holding(r)
    BY DEF TypeOK, Ownership
  <2>1. ASSUME NEW n \in Names, CreateCheck(t, n) PROVE Ownership'
    <3>1. \A s \in BOOLEAN : Holding([Idle EXCEPT !.pc = "create_vol", !.vm = n, !.flag = s])
      BY EmptyOwned DEF Holding, Idle
    <3> QED
      BY <2>1, <3>1, GotoHolding, SameOwnership DEF CreateCheck, Ownership
  <2>2. ASSUME NEW n \in Names, AddCheck(t, n) PROVE Ownership'
    <3>1. Holding([Idle EXCEPT !.pc = "add_vol", !.vm = n, !.uuid = uuid[n],
                               !.k = DiskCount(XMLDesc(n)) + 1])
      BY EmptyOwned DEF Holding, Idle
    <3> QED
      BY <2>2, <3>1, GotoHolding, SameOwnership DEF AddCheck, Ownership
  <2>3. ASSUME NEW n \in Names, DeleteDestroy(t, n) PROVE Ownership'
    <3>1. \A pc \in {"del_read", "del_undefine"} :
             Holding([Idle EXCEPT !.pc = pc, !.vm = n, !.uuid = uuid[n]])
      BY EmptyOwned DEF Holding, Idle
    <3>2. DomOwned'
      BY <2>3, DomainOwnership, SameOwnership DEF DeleteDestroy
    <3> QED
      BY <2>3, <3>1, <3>2, GotoHolding DEF DeleteDestroy, Ownership
  <2>4. ASSUME NEW n \in Names, StartVm(t, n) PROVE Ownership'
    BY <2>4, DomainOwnership DEF StartVm, Ownership
  <2>5. ASSUME NEW n \in Names, NEW src \in Names, CloneCheck(t, src, n) PROVE Ownership'
    <3>1. Holding([Idle EXCEPT !.pc = "clone_copy", !.vm = n, !.xml = XMLDesc(src)])
      BY DEF Holding, Idle, Targets
    <3> QED
      BY <2>5, <3>1, GotoHolding, SameOwnership DEF CloneCheck, Ownership
  <2>6. ASSUME NEW n \in Names, NEW k \in Targets, RemoveFind(t, n, k) PROVE Ownership'
    <3>1. XMLDesc(n)[k] # NoVol => XMLDesc(n)[k][1] = n
      BY DomainOwnership DEF Owned
    <3>2. \A d \in BOOLEAN : Holding([Idle EXCEPT !.pc = "rm_mode", !.vm = n, !.k = k,
                                         !.vol = XMLDesc(n)[k], !.flag = d])
      BY <3>1, EmptyOwned DEF Holding, Idle
    <3> QED
      BY <2>6, <3>2, GotoHolding, SameOwnership DEF RemoveFind, Ownership
  <2>7. CASE CreateVolume(t)
    <3> DEFINE v == <<r.vm, 1>>
               q == [r EXCEPT !.pc = "create_define", !.xml[1] = v]
    <3>1. r.pc = "create_vol" /\ v \in Vols /\ r.xml \in Disks
      BY <2>7, PositionRange DEF CreateVolume, At, Locals, Vols
    <3>2. Owned(r.vm, [r.xml EXCEPT ![1] = v])
      BY <3>1, UpdateOwned DEF Holding
    <3>3. Holding(q)
      BY <3>1, <3>2 DEF Holding, Locals
    <3> QED
      BY <2>7, <3>3, GotoHolding, ReturnHolding, SameOwnership DEF CreateVolume, Ownership
  <2>8. CASE CreateDefine(t)
    <3>1. r.pc = "create_define" /\ r.vm \in Names /\ r.xml \in Disks
      BY <2>8 DEF CreateDefine, At, Locals
    <3>2. Owned(r.vm, r.xml)
      BY <3>1 DEF Holding
    <3>3. DomOwned'
      BY <2>8, <3>1, <3>2, DomainOwnership, SameOwnership DEF CreateDefine
    <3>4. \A u \in Uuids : Holding([r EXCEPT !.pc = "create_start", !.uuid = u])
      BY <3>1 DEF Holding, Locals
    <3>5. \A s \in Threads : Holding(th'[s])
      <4>1. CASE Return(t)
        BY <4>1, ReturnHolding
      <4>2. CASE \E u \in Uuids : Goto(t, [r EXCEPT !.pc = "create_start", !.uuid = u])
        BY <4>2, <3>4, GotoHolding
      <4> QED
        BY <2>8, <4>1, <4>2 DEF CreateDefine
    <3> QED
      BY <3>3, <3>5 DEF Ownership
  <2>9. CASE CreateStart(t)
    <3>1. r.vm \in Names
      BY <2>9 DEF CreateStart, At, Locals
    <3>2. DomOwned'
      BY <2>9, <3>1, DomainOwnership, SameOwnership DEF CreateStart
    <3> QED
      BY <2>9, <3>2, ReturnHolding DEF CreateStart, Ownership
  <2>10. CASE CloneCopy(t)
    <3> DEFINE k == r.k
               v == <<r.vm, Rank(r.xml, k)>>
    <3>1. r.pc = "clone_copy" /\ k \in Targets /\ r.xml \in Disks
      BY <2>10 DEF CloneCopy, At, Locals
    <3>2. r.xml[k] = NoVol => Holding([r EXCEPT !.k = k + 1])
      BY <3>1 DEF Holding, Locals, Targets
    <3>3. Holding(Rewritten(r, k, v))
      BY <3>1 DEF Holding, Locals, Targets, Rewritten, Disks
    <3> QED
      BY <2>10, <3>2, <3>3, GotoHolding, ReturnHolding, SameOwnership DEF CloneCopy, Ownership
  <2>11. CASE CloneDefine(t)
    <3>1. /\ r.pc = "clone_copy" /\ r.k \notin Targets /\ r.k \in 1..(MaxIndex + 1)
          /\ r.vm \in Names /\ r.xml \in Disks
      BY <2>11 DEF CloneDefine, At, Locals
    <3>2. \A k \in Targets : k < r.k
      BY <3>1 DEF Targets
    <3>3. Owned(r.vm, r.xml)
      BY <3>1, <3>2 DEF Holding, Owned
    <3>4. DomOwned'
      BY <2>11, <3>1, <3>3, DomainOwnership, SameOwnership DEF CloneDefine
    <3> QED
      BY <2>11, <3>4, ReturnHolding DEF CloneDefine, Ownership
  <2>12. CASE AddVolume(t)
    <3> DEFINE v == <<r.vm, r.k>>
    <3>1. r.pc = "add_vol" /\ Owned(r.vm, r.xml)
      BY <2>12 DEF AddVolume, At, Holding
    <3>2. /\ Holding([r EXCEPT !.pc = "add_target", !.vol = v])
          /\ Holding([r EXCEPT !.k = @ + 1])
      BY <3>1 DEF Holding, Locals
    <3> QED
      BY <2>12, <3>2, GotoHolding, ReturnHolding, SameOwnership DEF AddVolume, Ownership
  <2>13. CASE AddTarget(t)
    <3>1. \A k : Holding([r EXCEPT !.pc = "add_attach", !.k = k])
      BY <2>13 DEF AddTarget, At, Holding, Locals
    <3> QED
      BY <2>13, <3>1, GotoHolding, ReturnHolding, SameOwnership DEF AddTarget, Ownership
  <2>14. CASE AddAttach(t)
    <3>1. /\ r.pc = "add_attach" /\ r.vm \in Names
          /\ r.vol \in Vols \cup {NoVol} /\ (r.vol # NoVol => r.vol[1] = r.vm)
      BY <2>14 DEF AddAttach, At, Locals, Holding
    <3>2. Owned(r.vm, [cfg[r.vm] EXCEPT ![r.k] = r.vol])
      BY <3>1, UpdateOwned DEF TypeOK, DomTypeOK, DomOwned
    <3>3. DomOwned'
      BY <2>14, <3>1, <3>2, SameOwnership DEF AddAttach, TypeOK, DomTypeOK, DomOwned
    <3>4. Holding([r EXCEPT !.pc = "add_failed"])
      BY <3>1 DEF Holding, Locals
    <3> QED
      BY <2>14, <3>3, <3>4, GotoHolding, ReturnHolding DEF AddAttach, Ownership
  <2>15. CASE AddRollback(t)
    BY <2>15, SameOwnership, ReturnHolding DEF AddRollback, Ownership
  <2>16. CASE RemoveMode(t)
    <3>1. \A pc \in {"rm_detach_live", "rm_detach_config"} : Holding([r EXCEPT !.pc = pc])
      BY <2>16 DEF RemoveMode, At, Holding, Locals
    <3> QED
      BY <2>16, <3>1, GotoHolding, SameOwnership DEF RemoveMode, Ownership
  <2>17. CASE RemoveDetach(t)
    <3>1. r.vm \in Names /\ r.pc \in {"rm_detach_live", "rm_detach_config"}
      BY <2>17 DEF RemoveDetach, Locals
    <3>2. /\ Owned(r.vm, [cfg[r.vm] EXCEPT ![r.k] = NoVol])
          /\ Owned(r.vm, [live[r.vm] EXCEPT ![r.k] = NoVol])
      BY <3>1, UpdateOwned DEF TypeOK, DomTypeOK, DomOwned
    <3>3. DomOwned'
      BY <2>17, <3>1, <3>2, SameOwnership DEF RemoveDetach, TypeOK, DomTypeOK, DomOwned
    <3>4. Holding([r EXCEPT !.pc = "rm_delete"])
      BY <3>1 DEF Holding, Locals
    <3> QED
      BY <2>17, <3>3, <3>4, GotoHolding, ReturnHolding DEF RemoveDetach, ThenDelete, Ownership
  <2>18. CASE RemoveDelete(t)
    BY <2>18, SameOwnership, ReturnHolding DEF RemoveDelete, Ownership
  <2>19. CASE DeleteRead(t)
    <3>1. r.vm \in Names /\ r.pc = "del_read"
      BY <2>19 DEF DeleteRead, At, Locals
    <3>2. Holding([r EXCEPT !.pc = "del_undefine", !.xml = XMLDesc(r.vm)])
      BY <3>1, DomainOwnership DEF Holding, Locals
    <3> QED
      BY <2>19, <3>2, GotoHolding, ReturnHolding, SameOwnership DEF DeleteRead, Ownership
  <2>20. CASE DeleteUndefine(t)
    <3>1. r.vm \in Names /\ r.pc = "del_undefine"
      BY <2>20 DEF DeleteUndefine, At, Locals
    <3>2. DomOwned'
      BY <2>20, <3>1, DomainOwnership, SameOwnership DEF DeleteUndefine
    <3>3. Holding([r EXCEPT !.pc = "del_disks"])
      BY <3>1 DEF Holding, Locals
    <3> QED
      BY <2>20, <3>2, <3>3, GotoHolding, ReturnHolding DEF DeleteUndefine, Ownership
  <2>21. CASE DeleteDisks(t)
    <3>1. Holding([r EXCEPT !.k = @ + 1])
      BY <2>21 DEF DeleteDisks, At, Holding, Locals
    <3> QED
      BY <2>21, <3>1, GotoHolding, ReturnHolding, SameOwnership DEF DeleteDisks, Ownership
  <2> QED
    BY <1>1, <2>1, <2>2, <2>3, <2>4, <2>5, <2>6, <2>7, <2>8, <2>9, <2>10, <2>11, <2>12, <2>13, <2>14, <2>15, <2>16, <2>17, <2>18, <2>19, <2>20, <2>21 DEF Step
<1>2. ASSUME NEW n \in Names, PowerOff(n) PROVE Ownership'
  BY <1>2, DomainOwnership DEF PowerOff, Ownership
<1>3. CASE Crash
  BY <1>3, IdleHolding, SameOwnership DEF Crash, Ownership
<1>4. CASE UNCHANGED vars
  BY <1>4 DEF vars, Ownership, DomOwned
<1> QED
  BY <1>1, <1>2, <1>3, <1>4 DEF Next

(* Every volume stays with the VM it was made for.                          *)
THEOREM OwnershipHolds == Spec => []Ownership
<1>1. Init => Ownership
  BY EmptyOwned, IdleHolding DEF Init, Ownership, DomOwned
<1>2. TypeOK /\ Ownership /\ [Next]_vars => Ownership'
  BY OwnershipStep
<1> QED
  BY <1>1, <1>2, TypeCorrect, PTL DEF Spec

(* Two VMs never share a volume, with any number of concurrent requests.    *)
THEOREM NoSharingHolds == Spec => []NoSharing
<1>1. TypeOK /\ Ownership => NoSharing
  BY DEF TypeOK, DomTypeOK, Ownership, DomOwned, Owned, NoSharing, Refs, Sources
<1> QED
  BY <1>1, TypeCorrect, OwnershipHolds, PTL

-----------------------------------------------------------------------------
(* Only two calls delete volumes; each deletes what its own request holds.  *)
LEMMA DeletingSteps ==
    ASSUME NEW t \in Threads, Step(t), NEW v \in vols \ vols'
    PROVE  RemoveDelete(t) \/ DeleteDisks(t)
<1>1. ASSUME NEW n \in Names PROVE ~CreateCheck(t, n) /\ ~AddCheck(t, n)
                                   /\ ~DeleteDestroy(t, n) /\ ~StartVm(t, n)
  BY DEF CreateCheck, AddCheck, DeleteDestroy, StartVm
<1>2. ASSUME NEW n \in Names, NEW s \in Names PROVE ~CloneCheck(t, s, n)
  BY DEF CloneCheck
<1>3. ASSUME NEW n \in Names, NEW k \in Targets PROVE ~RemoveFind(t, n, k)
  BY DEF RemoveFind
<1>4. ~CreateVolume(t) /\ ~CloneCopy(t) /\ ~AddVolume(t)
  BY DEF CreateVolume, CloneCopy, AddVolume
<1>5. ~CreateDefine(t) /\ ~CreateStart(t) /\ ~CloneDefine(t)
      /\ ~AddTarget(t) /\ ~AddAttach(t) /\ ~AddRollback(t)
  BY DEF CreateDefine, CreateStart, CloneDefine, AddTarget, AddAttach, AddRollback
<1>6. ~RemoveMode(t) /\ ~RemoveDetach(t) /\ ~DeleteRead(t) /\ ~DeleteUndefine(t)
  BY DEF RemoveMode, RemoveDetach, DeleteRead, DeleteUndefine
<1> QED
  BY <1>1, <1>2, <1>3, <1>4, <1>5, <1>6 DEF Step

(* A disk in use is deleted only by a request on the VM that uses it.       *)
THEOREM DeletesOwnDisksHolds == Spec => DeletesOwnDisks
<1>1. ASSUME TypeOK, Ownership, [Next]_vars,
             NEW v \in vols \ vols', NEW n \in Names, v \in Refs(n)
      PROVE  \E t \in Threads : th[t].vm = n /\ th'[t] # th[t]
  <2>1. v[1] = n
    BY <1>1 DEF TypeOK, DomTypeOK, Ownership, DomOwned, Owned, Refs, Sources
  <2>2. PICK t \in Threads : Step(t)
    <3>1. \A m \in Names : ~PowerOff(m)
      BY <1>1 DEF PowerOff
    <3> QED
      BY <1>1, <3>1 DEF Next, Crash, vars
  <2>3. th[t] \in Locals /\ Holding(th[t]) /\ v \in Vols
    BY <1>1 DEF TypeOK, Ownership
  <2>4. CASE RemoveDelete(t)
    <3>1. th[t].vol = v /\ th[t].pc = "rm_delete"
      BY <1>1, <2>4 DEF RemoveDelete, At
    <3>2. th[t].vm = n
      BY <2>1, <2>3, <3>1, ConstantsAssumption DEF Holding
    <3>3. th'[t].pc = "idle"
      BY <1>1, <2>4 DEF RemoveDelete, Return, Goto, Idle, TypeOK
    <3> QED
      BY <3>1, <3>2, <3>3
  <2>5. CASE DeleteDisks(t)
    <3>1. th[t].xml[th[t].k] = v /\ th[t].pc = "del_disks" /\ th[t].k \in Targets
      BY <1>1, <2>3, <2>5 DEF DeleteDisks, At, Locals
    <3>2. th[t].vm = n
      BY <2>1, <2>3, <3>1, ConstantsAssumption DEF Holding, Owned
    <3>3. th'[t] = Idle \/ th'[t] = [th[t] EXCEPT !.k = @ + 1]
      BY <1>1, <2>5 DEF DeleteDisks, Return, Goto, TypeOK
    <3>4. th'[t].pc = "idle" \/ th'[t].k = th[t].k + 1
      BY <2>3, <3>3 DEF Idle, Locals
    <3>5. th[t].k \in Nat
      BY <3>1, ConstantsAssumption DEF Targets
    <3> QED
      BY <3>1, <3>2, <3>4, <3>5
  <2> QED
    BY <1>1, <2>2, <2>4, <2>5, DeletingSteps
<1>2. TypeOK /\ Ownership /\ [Next]_vars =>
         [\A v \in vols \ vols', n \in Names :
            v \in Refs(n) => \E t \in Threads : th[t].vm = n /\ th'[t] # th[t]]_vars
  BY <1>1
<1> QED
  BY <1>2, TypeCorrect, OwnershipHolds, PTL DEF Spec, DeletesOwnDisks

-----------------------------------------------------------------------------
(* One request at a time.  Positions of d below k hold volumes that exist,  *)
(* each another one.                                                        *)
Fits(d, k) ==
    \A i, j \in Targets :
       i < k /\ j < k /\ d[j] # NoVol => d[j] \in vols /\ (i # j => d[i] # d[j])

(* A running VM has a definition and is what the definition says.           *)
Domain(n) ==
    /\ n \in active => n \in persistent /\ live[n] = cfg[n]
    /\ n \notin active => live[n] = Empty
    /\ n \notin persistent => cfg[n] = Empty
    /\ Exists(n) <=> n \in persistent
    /\ Fits(cfg[n], MaxTarget + 1)

Domains == \A n \in Names : Domain(n)

(* What a handler has read is still so when it uses it, although the guest  *)
(* may switch itself off meanwhile: what it is about to put to use exists   *)
(* and is in no other use, and what it is about to delete is in no use.     *)
Midway(r) ==
    /\ r.pc = "create_vol" => r.xml = Empty
    /\ r.pc = "create_define" => Fits(r.xml, MaxTarget + 1)
    /\ r.pc = "clone_copy" => Fits(r.xml, r.k)
    /\ r.pc \in {"add_vol", "add_target", "add_attach", "rm_detach_config",
                 "del_read", "del_undefine", "del_disks"} => r.vm \notin active
    /\ r.pc \in {"add_target", "add_attach"} => r.vol \in vols \ Sources(cfg[r.vm])
    /\ r.pc = "add_attach" => r.k \in Targets
    /\ r.pc \in {"rm_mode", "rm_detach_live", "rm_detach_config"} =>
          r.k \in Targets /\ r.vol # NoVol /\ cfg[r.vm][r.k] = r.vol
    /\ r.pc = "rm_delete" => r.vol \notin Sources(cfg[r.vm])
    /\ r.pc = "del_disks" => cfg[r.vm] = Empty

(* New volumes disturb nothing.                                             *)
LEMMA SameDomains ==
    ASSUME Domains, UNCHANGED domVars, vols \subseteq vols'
    PROVE  Domains'
  BY DEF Domains, Domain, Fits, Exists, domVars

LEMMA IdleMidway == Midway(Idle) /\ Midway(Idle)'
  BY DEF Midway, Idle

LEMMA ReturnMidway ==
    ASSUME TypeOK, NEW t \in Threads, Return(t)
    PROVE  Midway(th[t])'
<1>1. th'[t] = Idle
  BY DEF Return, Goto, TypeOK
<1> QED
  BY <1>1, IdleMidway DEF Midway

LEMMA SequentialStep ==
    ASSUME NEW t, Threads = {t}, TypeOK, Ownership, Domains, Midway(th[t]), [Next]_vars
    PROVE  Domains' /\ Midway(th[t])'
<1> USE ConstantsAssumption DEF Goto, At
<1> DEFINE r == th[t]
<1>t. /\ r \in Locals /\ t \in Threads /\ th \in [Threads -> Locals]
      /\ DomTypeOK /\ vols \subseteq Vols /\ DomOwned /\ Holding(r)
  BY DEF TypeOK, Ownership
<1>u. /\ \A n \in Names : cfg[n] \in Disks /\ live[n] \in Disks
      /\ Empty \in Disks /\ NoVol \notin vols
  BY <1>t DEF DomTypeOK, Empty, Disks
<1>1. ASSUME NEW n \in Names, CreateCheck(t, n) PROVE Domains' /\ Midway(th[t])'
  BY <1>1, <1>t, SameDomains DEF CreateCheck, Midway, Idle
<1>2. ASSUME NEW n \in Names, AddCheck(t, n) PROVE Domains' /\ Midway(th[t])'
  BY <1>2, <1>t, SameDomains DEF AddCheck, Midway, Idle, domVars
<1>3. ASSUME NEW n \in Names, DeleteDestroy(t, n) PROVE Domains' /\ Midway(th[t])'
  <2>1. Domains'
    BY <1>3, <1>t, <1>u DEF DeleteDestroy, StopDomain, Domains, Domain, Fits, Exists, domVars, DomTypeOK
  <2>2. Midway(th[t])'
    BY <1>3, <1>t DEF DeleteDestroy, StopDomain, Midway, Idle, domVars
  <2> QED
    BY <2>1, <2>2
<1>4. ASSUME NEW n \in Names, StartVm(t, n) PROVE Domains' /\ Midway(th[t])'
  <2>1. Domains'
    BY <1>4, <1>t, <1>u DEF StartVm, CanStart, StartDomain, Domains, Domain, Fits, Exists, DomTypeOK
  <2>2. Midway(th[t])'
    BY <1>4, <1>t DEF StartVm, Midway, Idle
  <2> QED
    BY <2>1, <2>2
<1>5. ASSUME NEW n \in Names, NEW s \in Names, CloneCheck(t, s, n) PROVE Domains' /\ Midway(th[t])'
  BY <1>5, <1>t, SameDomains DEF CloneCheck, Midway, Idle, Fits, Targets
<1>6. ASSUME NEW n \in Names, NEW k \in Targets, RemoveFind(t, n, k) PROVE Domains' /\ Midway(th[t])'
  <2>1. XMLDesc(n) = cfg[n]
    BY <1>6 DEF XMLDesc, Domains, Domain
  <2> QED
    BY <1>6, <2>1, <1>t, SameDomains DEF RemoveFind, Midway, Idle, domVars
<1>7. CASE CreateVolume(t)
  <2>1. Domains'
    BY <1>7, SameDomains DEF CreateVolume
  <2>2. CASE Return(t)
    BY <2>1, <2>2, ReturnMidway
  <2>3. ASSUME NEW v, v = <<r.vm, 1>>, v \notin vols, vols' = vols \cup {v},
               Goto(t, [r EXCEPT !.pc = "create_define", !.xml[1] = v])
        PROVE  Midway(th[t])'
    <3>1. r.xml = Empty /\ r \in Locals
      BY <1>7, <1>t DEF CreateVolume, Midway
    <3>2. th'[t].pc = "create_define" /\ th'[t].xml = [Empty EXCEPT ![1] = v]
      BY <2>3, <3>1, <1>t DEF Locals
    <3> QED
      BY <2>3, <3>2 DEF Midway, Fits, Empty, Targets
  <2> QED
    BY <1>7, <2>1, <2>2, <2>3 DEF CreateVolume
<1>8. CASE CreateDefine(t)
  <2>1. r.vm \in Names /\ r.xml \in Disks /\ Fits(r.xml, MaxTarget + 1)
    BY <1>8, <1>t DEF CreateDefine, Locals, Midway
  <2>2. CASE UNCHANGED domVars /\ Return(t)
    BY <1>8, <2>2, SameDomains, ReturnMidway, <1>t DEF CreateDefine
  <2>3. ASSUME NEW u \in Uuids, ~Exists(r.vm), DefineXML(r.vm, r.xml, u),
               Return(t) \/ Goto(t, [r EXCEPT !.pc = "create_start", !.uuid = u])
        PROVE  Domains' /\ Midway(th[t])'
    <3>1. ASSUME NEW n \in Names PROVE Domain(n)'
      <4>1. CASE n # r.vm
        <5>1. /\ uuid'[n] = uuid[n] /\ (n \in persistent' <=> n \in persistent)
              /\ cfg'[n] = cfg[n] /\ UNCHANGED <<active, live, vols>>
          BY <1>8, <2>3, <4>1, <1>t DEF CreateDefine, DefineXML, DomTypeOK
        <5> QED
          BY <5>1 DEF Domains, Domain, Fits, Exists
      <4>2. CASE n = r.vm
        <5>1. uuid'[n] = u /\ n \in persistent' /\ cfg'[n] = r.xml /\ n \notin active
          BY <2>3, <4>2, <1>t DEF DefineXML, Domains, Domain, DomTypeOK
        <5>2. live'[n] = Empty /\ active' = active /\ vols' = vols
          BY <1>8, <2>3, <4>2, <5>1 DEF CreateDefine, DefineXML, Domains, Domain
        <5>3. Fits(cfg[n], MaxTarget + 1)'
          BY <2>1, <5>1, <5>2, <4>2 DEF Fits
        <5> QED
          BY <5>1, <5>2, <5>3 DEF Domain, Exists
      <4> QED
        BY <4>1, <4>2
    <3>2. CASE Goto(t, [r EXCEPT !.pc = "create_start", !.uuid = u])
      <4>1. th'[t].pc = "create_start"
        BY <3>2, <1>t DEF Locals
      <4> QED
        BY <3>1, <4>1 DEF Domains, Midway
    <3>3. CASE Return(t)
      BY <3>1, <3>3, ReturnMidway, <1>t DEF Domains
    <3> QED
      BY <2>3, <3>2, <3>3
  <2> QED
    BY <1>8, <2>2, <2>3 DEF CreateDefine
<1>9. CASE CreateStart(t)
  <2>1. Domains'
    BY <1>9, <1>t, <1>u DEF CreateStart, CanStart, StartDomain, Domains, Domain, Fits, Exists, DomTypeOK, domVars
  <2> QED
    BY <1>9, <2>1, ReturnMidway, <1>t DEF CreateStart
<1>10. CASE CloneCopy(t)
  <2> DEFINE k == r.k
             v == <<r.vm, Rank(r.xml, k)>>
  <2>1. Domains'
    BY <1>10, SameDomains DEF CloneCopy
  <2>2. r.pc = "clone_copy" /\ k \in Targets /\ Fits(r.xml, k) /\ r.xml \in Disks
    BY <1>10, <1>t DEF CloneCopy, Midway, Locals
  <2>3. CASE Return(t)
    BY <2>1, <2>3, ReturnMidway, <1>t
  <2>4. CASE r.xml[k] = NoVol /\ Goto(t, [r EXCEPT !.k = k + 1]) /\ UNCHANGED vols
    <3>1. th'[t].pc = "clone_copy" /\ th'[t].k = k + 1 /\ th'[t].xml = r.xml
      BY <2>2, <2>4, <1>t DEF Locals
    <3> QED
      BY <2>1, <2>2, <2>4, <3>1 DEF Midway, Fits, Targets
  <2>5. CASE v \notin vols /\ vols' = vols \cup {v} /\ Goto(t, Rewritten(r, k, v))
    <3>1. /\ th'[t].pc = "clone_copy" /\ th'[t].k = k + 1
          /\ th'[t].xml = [r.xml EXCEPT ![k] = v]
      BY <2>2, <2>5, <1>t DEF Locals, Rewritten
    <3>2. /\ th'[t].xml[k] = v
          /\ \A i \in Targets : i < k + 1 /\ i # k => i < k /\ th'[t].xml[i] = r.xml[i]
      BY <2>2, <3>1 DEF Targets, Disks
    <3>3. Fits(th[t].xml, th[t].k)'
      BY <2>2, <2>5, <3>1, <3>2 DEF Fits
    <3> QED
      BY <2>1, <3>1, <3>3 DEF Midway
  <2> QED
    BY <1>10, <2>3, <2>4, <2>5 DEF CloneCopy
<1>11. CASE CloneDefine(t)
  <2>1. r.vm \in Names /\ r.xml \in Disks /\ Fits(r.xml, r.k) /\ \A i \in Targets : i < r.k
    BY <1>11, <1>t DEF CloneDefine, Locals, Midway, Targets
  <2>2. Fits(r.xml, MaxTarget + 1)
    BY <2>1 DEF Fits, Targets
  <2>3. Domains'
    BY <1>11, <2>1, <2>2, <1>t, <1>u, SameDomains
       DEF CloneDefine, DefineXML, Domains, Domain, Fits, Exists, DomTypeOK
  <2> QED
    BY <1>11, <2>3, ReturnMidway, <1>t DEF CloneDefine
<1>12. CASE AddVolume(t)
  <2> DEFINE v == <<r.vm, r.k>>
  <2>1. Domains'
    BY <1>12, SameDomains DEF AddVolume
  <2>2. r.pc = "add_vol" /\ r.vm \in Names /\ r.vm \notin active
    BY <1>12, <1>t DEF AddVolume, Midway, Locals
  <2>3. CASE Return(t)
    BY <2>1, <2>3, ReturnMidway, <1>t
  <2>4. CASE Goto(t, [r EXCEPT !.k = @ + 1])
    <3>1. th'[t].pc = "add_vol" /\ th'[t].vm = r.vm
      BY <2>2, <2>4, <1>t DEF Locals
    <3> QED
      BY <1>12, <2>1, <2>2, <3>1 DEF AddVolume, Midway, domVars
  <2>5. CASE /\ v \notin vols /\ vols' = vols \cup {v}
             /\ Goto(t, [r EXCEPT !.pc = "add_target", !.vol = v])
    <3>1. th'[t].pc = "add_target" /\ th'[t].vm = r.vm /\ th'[t].vol = v
      BY <2>2, <2>5, <1>t DEF Locals
    <3>2. v \notin Sources(cfg[r.vm])
      BY <2>2, <2>5 DEF Domains, Domain, Fits, Sources, Targets
    <3> QED
      BY <1>12, <2>1, <2>2, <2>5, <3>1, <3>2 DEF AddVolume, Midway, Sources, domVars
  <2> QED
    BY <1>12, <2>3, <2>4, <2>5 DEF AddVolume
<1>13. CASE AddTarget(t)
  <2>1. Domains'
    BY <1>13, SameDomains DEF AddTarget
  <2>2. ASSUME NEW k \in Targets, Goto(t, [r EXCEPT !.pc = "add_attach", !.k = k])
        PROVE  Midway(th[t])'
    <3>1. /\ th'[t].pc = "add_attach" /\ th'[t].vm = r.vm /\ th'[t].vol = r.vol
          /\ th'[t].k = k
      BY <2>2, <1>t DEF Locals
    <3> QED
      BY <1>13, <3>1, <2>2 DEF AddTarget, Midway, Sources, domVars
  <2> QED
    BY <1>13, <2>1, <2>2, ReturnMidway, <1>t DEF AddTarget
<1>14. CASE AddAttach(t)
  <2>1. /\ r.pc = "add_attach" /\ r.vm \in Names /\ r.vm \notin active /\ r.k \in Targets
        /\ r.vol \in vols \ Sources(cfg[r.vm])
    BY <1>14, <1>t DEF AddAttach, Midway, Locals
  <2>2. CASE /\ cfg' = [cfg EXCEPT ![r.vm][r.k] = r.vol] /\ r.vm \in persistent
             /\ Return(t) /\ UNCHANGED <<uuid, persistent, active, live>>
    <3>1. ASSUME NEW n \in Names PROVE Domain(n)'
      <4>1. CASE n # r.vm
        BY <1>14, <2>2, <4>1, <1>t DEF AddAttach, Domains, Domain, Fits, Exists, DomTypeOK
      <4>2. CASE n = r.vm
        <5>1. cfg'[n] = [cfg[n] EXCEPT ![r.k] = r.vol] /\ cfg[n] \in Disks
          BY <2>1, <2>2, <4>2, <1>t DEF DomTypeOK
        <5>2. Fits(cfg[n], MaxTarget + 1)'
          BY <1>14, <2>1, <5>1, <4>2 DEF AddAttach, Domains, Domain, Fits, Sources, Disks
        <5> QED
          BY <2>1, <2>2, <5>2, <4>2 DEF Domains, Domain, Exists
      <4> QED
        BY <4>1, <4>2
    <3> QED
      BY <2>2, <3>1, ReturnMidway, <1>t DEF Domains
  <2>3. CASE Goto(t, [r EXCEPT !.pc = "add_failed"]) /\ UNCHANGED domVars
    <3>1. th'[t].pc = "add_failed"
      BY <2>3, <1>t DEF Locals
    <3> QED
      BY <1>14, <2>3, <3>1, SameDomains DEF AddAttach, Midway
  <2> QED
    BY <1>14, <2>2, <2>3 DEF AddAttach
<1>15. CASE AddRollback(t)
  BY <1>15, <1>t, SameDomains, ReturnMidway DEF AddRollback
<1>16. CASE RemoveMode(t)
  BY <1>16, <1>t, SameDomains DEF RemoveMode, Midway, Locals, domVars
<1>17. CASE RemoveDetach(t)
  <2>1. /\ r.pc \in {"rm_detach_live", "rm_detach_config"} /\ r.vm \in Names
        /\ r.k \in Targets /\ r.vol # NoVol /\ cfg[r.vm][r.k] = r.vol
        /\ r.pc = "rm_detach_config" => r.vm \notin active
    BY <1>17, <1>t DEF RemoveDetach, Midway, Locals
  <2>2. CASE /\ Detachable(r.vm, r.k, r.pc)
             /\ cfg' = [cfg EXCEPT ![r.vm][r.k] = NoVol]
             /\ live' = IF r.pc = "rm_detach_live"
                          THEN [live EXCEPT ![r.vm][r.k] = NoVol] ELSE live
             /\ ThenDelete(t) /\ UNCHANGED <<uuid, persistent, active>>
    <3>1. /\ cfg'[r.vm] = [cfg[r.vm] EXCEPT ![r.k] = NoVol] /\ cfg[r.vm] \in Disks
          /\ \A n \in Names : n # r.vm => cfg'[n] = cfg[n] /\ live'[n] = live[n]
          /\ r.vm \in active => live'[r.vm] = [live[r.vm] EXCEPT ![r.k] = NoVol]
          /\ r.vm \notin active => live'[r.vm] = live[r.vm]
      BY <2>1, <2>2, <1>t DEF DomTypeOK, Detachable
    <3>2. ASSUME NEW n \in Names PROVE Domain(n)'
      <4>1. CASE n # r.vm
        BY <1>17, <2>2, <3>1, <4>1 DEF RemoveDetach, Domains, Domain, Fits, Exists
      <4>2. CASE n = r.vm
        <5>1. Fits(cfg[n], MaxTarget + 1)'
          BY <1>17, <2>1, <3>1, <4>2 DEF RemoveDetach, Domains, Domain, Fits, Disks
        <5> QED
          BY <2>1, <2>2, <3>1, <5>1, <4>2 DEF Detachable, Domains, Domain, Exists
      <4> QED
        BY <4>1, <4>2
    <3>3. CASE Goto(t, [r EXCEPT !.pc = "rm_delete"])
      <4>1. th'[t].pc = "rm_delete" /\ th'[t].vm = r.vm /\ th'[t].vol = r.vol
        BY <3>3, <1>t DEF Locals
      <4>2. r.vol \notin Sources(cfg'[r.vm])
        BY <2>1, <3>1 DEF Domains, Domain, Fits, Sources, Disks, Targets
      <4> QED
        BY <3>2, <4>1, <4>2 DEF Domains, Midway, Sources
    <3> QED
      BY <2>2, <3>2, <3>3, ReturnMidway, <1>t DEF ThenDelete, Domains
  <2>3. CASE Return(t) /\ UNCHANGED domVars
    BY <1>17, <2>3, SameDomains, ReturnMidway, <1>t DEF RemoveDetach
  <2> QED
    BY <1>17, <2>2, <2>3 DEF RemoveDetach
<1>18. CASE RemoveDelete(t)
  <2>1. r.pc = "rm_delete" /\ r.vm \in Names /\ r.vol \notin Sources(cfg[r.vm])
    BY <1>18, <1>t DEF RemoveDelete, Midway, Locals
  <2>2. \A n \in Names, k \in Targets : cfg[n][k] = NoVol \/ cfg[n][k] # r.vol
    BY <2>1, <1>t DEF DomOwned, Owned, Holding, Sources
  <2>3. Domains'
    BY <1>18, <2>2 DEF RemoveDelete, Domains, Domain, Fits, Exists, domVars
  <2> QED
    BY <1>18, <2>3, ReturnMidway, <1>t DEF RemoveDelete
<1>19. CASE DeleteRead(t)
  <2>1. Domains'
    BY <1>19, SameDomains DEF DeleteRead
  <2>2. CASE Goto(t, [r EXCEPT !.pc = "del_undefine", !.xml = XMLDesc(r.vm)])
    <3>1. th'[t].pc = "del_undefine" /\ th'[t].vm = r.vm
      BY <2>2, <1>t DEF Locals
    <3> QED
      BY <1>19, <2>1, <3>1 DEF DeleteRead, Midway, domVars
  <2> QED
    BY <1>19, <2>1, <2>2, ReturnMidway, <1>t DEF DeleteRead
<1>20. CASE DeleteUndefine(t)
  <2>1. r.pc = "del_undefine" /\ r.vm \in Names /\ r.vm \notin active
    BY <1>20, <1>t DEF DeleteUndefine, Midway, Locals
  <2>2. CASE UndefineDomain(r.vm)
    <3>1. Domains'
      BY <1>20, <2>1, <2>2, <1>t, <1>u
         DEF DeleteUndefine, UndefineDomain, Domains, Domain, Fits, Empty, Exists, DomTypeOK
    <3>2. CASE Goto(t, [r EXCEPT !.pc = "del_disks"])
      <4>1. th'[t].pc = "del_disks" /\ th'[t].vm = r.vm
        BY <3>2, <1>t DEF Locals
      <4> QED
        BY <2>1, <2>2, <3>1, <4>1, <1>t DEF UndefineDomain, Midway, DomTypeOK
    <3> QED
      BY <1>20, <2>2, <3>1, <3>2, ReturnMidway, <1>t DEF DeleteUndefine
  <2>3. CASE Return(t) /\ UNCHANGED domVars
    BY <1>20, <2>3, SameDomains, ReturnMidway, <1>t DEF DeleteUndefine
  <2> QED
    BY <1>20, <2>2, <2>3 DEF DeleteUndefine
<1>21. CASE DeleteDisks(t)
  <2>1. /\ r.pc = "del_disks" /\ r.vm \in Names /\ r.k \in Targets /\ r.xml \in Disks
        /\ cfg[r.vm] = Empty /\ r.vm \notin active
    BY <1>21, <1>t DEF DeleteDisks, Midway, Locals
  <2>2. \A n \in Names, k \in Targets : cfg[n][k] = NoVol \/ cfg[n][k] # r.xml[r.k]
    BY <2>1, <1>t DEF DomOwned, Owned, Holding, Empty
  <2>3. Domains'
    BY <1>21, <2>2 DEF DeleteDisks, Domains, Domain, Fits, Exists, domVars
  <2>4. CASE Goto(t, [r EXCEPT !.k = @ + 1])
    <3>1. th'[t].pc = "del_disks" /\ th'[t].vm = r.vm
      BY <2>1, <2>4, <1>t DEF Locals
    <3> QED
      BY <1>21, <2>1, <2>3, <3>1 DEF DeleteDisks, Midway, domVars
  <2> QED
    BY <1>21, <2>3, <2>4, ReturnMidway, <1>t DEF DeleteDisks
<1>22. ASSUME NEW n \in Names, PowerOff(n) PROVE Domains' /\ Midway(th[t])'
  <2>1. Domains'
    BY <1>22, <1>t, <1>u DEF PowerOff, StopDomain, Domains, Domain, Fits, Exists, DomTypeOK
  <2>2. Midway(th[t])'
    BY <1>22, <1>t DEF PowerOff, StopDomain, Midway, Fits
  <2> QED
    BY <2>1, <2>2
<1>23. CASE Crash
  BY <1>23, <1>t, SameDomains, IdleMidway DEF Crash
<1>24. CASE UNCHANGED vars
  BY <1>24 DEF vars, Domains, Domain, Fits, Exists, Midway
<1> QED
  BY <1>1, <1>2, <1>3, <1>4, <1>5, <1>6, <1>7, <1>8, <1>9, <1>10, <1>11, <1>12, <1>13, <1>14, <1>15,
     <1>16, <1>17, <1>18, <1>19, <1>20, <1>21, <1>22, <1>23, <1>24 DEF Next, Step

(* The three properties of a single request thread, in one invariant.       *)
LEMMA SequentialInv ==
    ASSUME NEW t, Threads = {t}
    PROVE  Spec => []Domains
<1>1. Init => Domains /\ Midway(th[t])
  BY IdleMidway DEF Init, Domains, Domain, Exists, Fits, Empty
<1>2. TypeOK /\ Ownership /\ Domains /\ Midway(th[t]) /\ [Next]_vars
         => Domains' /\ Midway(th[t])'
  BY SequentialStep
<1> QED
  BY <1>1, <1>2, TypeCorrect, OwnershipHolds, PTL DEF Spec

(* One request at a time, the guest and the service stopping whenever they  *)
(* like: no VM refers to a volume that does not exist.                      *)
THEOREM NoDanglingHolds ==
    ASSUME NEW t, Threads = {t}
    PROVE  Spec => []NoDangling
<1>1. TypeOK /\ Domains => NoDangling
  BY ConstantsAssumption
     DEF TypeOK, DomTypeOK, Domains, Domain, Fits, NoDangling, Refs, Sources, Targets, Empty
<1> QED
  BY <1>1, TypeCorrect, SequentialInv, PTL

(* One request at a time: no VM has one volume at two positions.            *)
THEOREM NoDoubleAttachHolds ==
    ASSUME NEW t, Threads = {t}
    PROVE  Spec => []NoDoubleAttach
<1>1. Domains => NoDoubleAttach
  BY ConstantsAssumption DEF Domains, Domain, Fits, NoDoubleAttach, Targets
<1> QED
  BY <1>1, SequentialInv, PTL

(* One request at a time: a running VM is what its definition says.         *)
THEOREM LiveMatchesConfigHolds ==
    ASSUME NEW t, Threads = {t}
    PROVE  Spec => []LiveMatchesConfig
<1>1. TypeOK /\ Domains => LiveMatchesConfig
  BY DEF TypeOK, DomTypeOK, Domains, Domain, LiveMatchesConfig
<1> QED
  BY <1>1, TypeCorrect, SequentialInv, PTL

-----------------------------------------------------------------------------
(* The refinement.  With one request at a time what a VM uses is what its   *)
(* definition says, before and after a step.                                *)
Uses == [n \in Names |-> Refs(n)]

LEMMA UsesDefined ==
    ASSUME Domains
    PROVE  Uses = [n \in Names |-> Sources(cfg[n])]
<1>1. \A n \in Names : Refs(n) = Sources(cfg[n])
  BY DEF Domains, Domain, Refs, Sources, Empty
<1> QED
  BY <1>1 DEF Uses

LEMMA UsesDefinedNext ==
    ASSUME Domains'
    PROVE  Uses' = [n \in Names |-> Sources(cfg'[n])]
<1>1. \A n \in Names : Refs(n)' = Sources(cfg'[n])
  BY DEF Domains, Domain, Refs, Sources, Empty
<1> QED
  BY <1>1 DEF Uses

LEMMA UsesUpdate ==
    ASSUME Domains, Domains', NEW n \in Names, NEW S,
           \A m \in Names : Sources(cfg'[m]) = IF m = n THEN S ELSE Sources(cfg[m])
    PROVE  Uses' = [Uses EXCEPT ![n] = S]
<1>1. Uses' = [m \in Names |-> IF m = n THEN S ELSE Sources(cfg[m])]
  BY UsesDefinedNext
<1> QED
  BY <1>1, UsesDefined

(* The steps of the catalogue, told by the definitions' disks.              *)
LEMMA CatalogSame ==
    ASSUME Domains, Domains', UNCHANGED <<cfg, vols>>
    PROVE  UNCHANGED Catalog!vars
  BY UsesDefined, UsesDefinedNext DEF Catalog!vars, Uses

LEMMA CatalogAllocates ==
    ASSUME Domains, Domains', UNCHANGED cfg,
           NEW v \in Vols, v \notin vols, vols' = vols \cup {v}
    PROVE  Catalog!Next
<1>1. Uses' = Uses
  BY UsesDefined, UsesDefinedNext
<1> QED
  BY <1>1 DEF Catalog!Next, Catalog!Allocate, Uses

LEMMA Unused ==
    ASSUME Domains, NEW v, \A n \in Names : v \notin Sources(cfg[n])
    PROVE  v \notin Catalog!Used
<1>1. \A n \in Names : v \notin Uses[n]
  BY UsesDefined
<1> QED
  BY <1>1 DEF Catalog!Used, Uses

LEMMA CatalogReclaims ==
    ASSUME Domains, Domains', UNCHANGED cfg,
           NEW v \in Vols, \A n \in Names : v \notin Sources(cfg[n]), vols' = vols \ {v}
    PROVE  Catalog!Next
<1>1. Uses' = Uses
  BY UsesDefined, UsesDefinedNext
<1>2. v \notin Catalog!Used
  BY Unused
<1> QED
  BY <1>1, <1>2 DEF Catalog!Next, Catalog!Reclaim, Uses

(* A volume of one VM is no other VM's.                                     *)
LEMMA OthersApart ==
    ASSUME TypeOK, Ownership, NEW n \in Names, NEW v \in Vols, v[1] = n,
           v \notin Sources(cfg[n])
    PROVE  \A m \in Names : v \notin Sources(cfg[m])
  BY DEF TypeOK, DomTypeOK, Ownership, DomOwned, Owned, Sources

LEMMA CatalogDefines ==
    ASSUME TypeOK, Ownership, Domains, Domains', UNCHANGED vols,
           NEW n \in Names, NEW d \in Disks, cfg[n] = Empty, Fits(d, MaxTarget + 1),
           Owned(n, d), cfg' = [cfg EXCEPT ![n] = d]
    PROVE  Catalog!Next
<1>1. Uses[n] = {} /\ Uses' = [Uses EXCEPT ![n] = Sources(d)]
  <2>1. \A m \in Names : Sources(cfg'[m]) = IF m = n THEN Sources(d) ELSE Sources(cfg[m])
    BY DEF TypeOK, DomTypeOK
  <2>2. Uses[n] = {}
    BY UsesDefined DEF Sources, Empty
  <2> QED
    BY <2>1, <2>2, UsesUpdate
<1>2. Sources(d) \subseteq vols /\ Sources(d) \subseteq Vols
  BY ConstantsAssumption DEF Fits, Sources, Targets, Disks
<1>3. ASSUME NEW v \in Sources(d) PROVE v \notin Catalog!Used
  <2>1. v \in Vols /\ v[1] = n /\ v \notin Sources(cfg[n])
    BY <1>2 DEF Owned, Sources, Empty
  <2> QED
    BY <2>1, OthersApart, Unused
<1>4. Catalog!Define(n, Sources(d))
  BY <1>1, <1>2, <1>3 DEF Catalog!Define, Uses
<1> QED
  BY <1>2, <1>4 DEF Catalog!Next

LEMMA CatalogAttaches ==
    ASSUME TypeOK, Ownership, Domains, Domains', UNCHANGED vols,
           NEW n \in Names, NEW k \in Targets, NEW v \in vols \ Sources(cfg[n]),
           v[1] = n, cfg[n][k] = NoVol, cfg' = [cfg EXCEPT ![n][k] = v]
    PROVE  Catalog!Next
<1>0. v \in Vols /\ cfg \in [Names -> Disks] /\ v # NoVol
  BY ConstantsAssumption DEF TypeOK, DomTypeOK
<1>1. Uses' = [Uses EXCEPT ![n] = Uses[n] \cup {v}]
  <2>1. Sources([cfg[n] EXCEPT ![k] = v]) = Sources(cfg[n]) \cup {v}
    BY <1>0 DEF Sources, Disks
  <2>2. \A m \in Names : Sources(cfg'[m]) = IF m = n THEN Sources(cfg[n]) \cup {v}
                                                      ELSE Sources(cfg[m])
    BY <1>0, <2>1
  <2>3. Uses[n] = Sources(cfg[n])
    BY UsesDefined
  <2> QED
    BY <2>2, <2>3, UsesUpdate
<1>2. v \notin Catalog!Used
  BY <1>0, OthersApart, Unused
<1>3. Catalog!Attach(n, v)
  BY <1>1, <1>2 DEF Catalog!Attach, Uses
<1> QED
  BY <1>0, <1>3 DEF Catalog!Next

LEMMA CatalogDetaches ==
    ASSUME TypeOK, Domains, Domains', UNCHANGED vols,
           NEW n \in Names, NEW k \in Targets, cfg[n][k] # NoVol,
           cfg' = [cfg EXCEPT ![n][k] = NoVol]
    PROVE  Catalog!Next
<1> DEFINE v == cfg[n][k]
<1>0. v \in Vols /\ cfg \in [Names -> Disks]
  BY DEF TypeOK, DomTypeOK, Disks
<1>1. \A j \in Targets : j # k => cfg[n][j] # v
  BY ConstantsAssumption DEF Domains, Domain, Fits, Targets
<1>2. Uses' = [Uses EXCEPT ![n] = Uses[n] \ {v}]
  <2>1. Sources([cfg[n] EXCEPT ![k] = NoVol]) = Sources(cfg[n]) \ {v}
    BY <1>0, <1>1 DEF Sources, Disks
  <2>2. \A m \in Names : Sources(cfg'[m]) = IF m = n THEN Sources(cfg[n]) \ {v}
                                                      ELSE Sources(cfg[m])
    BY <1>0, <2>1
  <2>3. Uses[n] = Sources(cfg[n])
    BY UsesDefined
  <2> QED
    BY <2>2, <2>3, UsesUpdate
<1>3. v \in Uses[n]
  BY UsesDefined DEF Sources
<1>4. Catalog!Detach(n, v)
  BY <1>2, <1>3 DEF Catalog!Detach, Uses
<1> QED
  BY <1>0, <1>4 DEF Catalog!Next

LEMMA CatalogUndefines ==
    ASSUME TypeOK, Domains, Domains', UNCHANGED vols,
           NEW n \in Names, cfg' = [cfg EXCEPT ![n] = Empty]
    PROVE  Catalog!Next
<1>1. Uses' = [Uses EXCEPT ![n] = {}]
  <2>1. \A m \in Names : Sources(cfg'[m]) = IF m = n THEN {} ELSE Sources(cfg[m])
    BY DEF TypeOK, DomTypeOK, Sources, Empty
  <2> QED
    BY <2>1, UsesUpdate
<1> QED
  BY <1>1 DEF Catalog!Next, Catalog!Undefine, Uses

(* Every step of a handler is a step of the catalogue or none.              *)
LEMMA CatalogStep ==
    ASSUME NEW t, Threads = {t}, TypeOK, Ownership, Domains, Midway(th[t]), Domains', [Next]_vars
    PROVE  Catalog!Next \/ UNCHANGED Catalog!vars
<1> USE ConstantsAssumption DEF At
<1> DEFINE r == th[t]
<1>t. /\ r \in Locals /\ t \in Threads /\ cfg \in [Names -> Disks]
      /\ vols \subseteq Vols /\ DomOwned /\ Holding(r)
  BY DEF TypeOK, DomTypeOK, Ownership
<1>0. UNCHANGED <<cfg, vols>> => UNCHANGED Catalog!vars
  BY CatalogSame
<1>1. ASSUME NEW n \in Names, CreateCheck(t, n) \/ AddCheck(t, n) PROVE UNCHANGED <<cfg, vols>>
  BY <1>1 DEF CreateCheck, AddCheck, domVars
<1>2. ASSUME NEW n \in Names, DeleteDestroy(t, n) PROVE UNCHANGED <<cfg, vols>>
  BY <1>2 DEF DeleteDestroy, StopDomain, domVars
<1>3. ASSUME NEW n \in Names, StartVm(t, n) \/ PowerOff(n) PROVE UNCHANGED <<cfg, vols>>
  BY <1>3 DEF StartVm, StartDomain, PowerOff, StopDomain
<1>4. ASSUME NEW n \in Names, NEW s \in Names, CloneCheck(t, s, n) PROVE UNCHANGED <<cfg, vols>>
  BY <1>4 DEF CloneCheck, domVars
<1>5. ASSUME NEW n \in Names, NEW k \in Targets, RemoveFind(t, n, k) PROVE UNCHANGED <<cfg, vols>>
  BY <1>5 DEF RemoveFind, domVars
<1>6. ASSUME CreateStart(t) \/ AddTarget(t) \/ AddRollback(t) \/ RemoveMode(t) \/ DeleteRead(t)
      PROVE  UNCHANGED <<cfg, vols>>
  BY <1>6 DEF CreateStart, StartDomain, AddTarget, AddRollback, RemoveMode, DeleteRead, domVars
<1>7. ASSUME CreateVolume(t) \/ CloneCopy(t) \/ AddVolume(t)
      PROVE  Catalog!Next \/ UNCHANGED <<cfg, vols>>
  <2>1. UNCHANGED cfg
    BY <1>7 DEF CreateVolume, CloneCopy, AddVolume, domVars
  <2>2. ASSUME ~UNCHANGED vols
        PROVE  \E v \in Vols : v \notin vols /\ vols' = vols \cup {v}
    <3>1. CASE CreateVolume(t)
      <4>1. <<r.vm, 1>> \in Vols
        BY <3>1, <1>t, PositionRange DEF CreateVolume, Locals, Vols
      <4> QED
        BY <3>1, <4>1, <2>2 DEF CreateVolume
    <3>2. CASE CloneCopy(t)
      <4>1. r.xml[r.k] # NoVol => <<r.vm, Rank(r.xml, r.k)>> \in Vols
        BY <3>2, <1>t, RankType DEF CloneCopy, Locals, Vols
      <4> QED
        BY <3>2, <4>1, <2>2 DEF CloneCopy
    <3>3. CASE AddVolume(t)
      <4>1. r.k <= MaxIndex => <<r.vm, r.k>> \in Vols
        BY <3>3, <1>t DEF AddVolume, Locals, Vols
      <4> QED
        BY <3>3, <4>1, <2>2 DEF AddVolume
    <3> QED
      BY <1>7, <3>1, <3>2, <3>3
  <2> QED
    BY <2>1, <2>2, CatalogAllocates
<1>8. ASSUME CreateDefine(t) \/ CloneDefine(t) PROVE Catalog!Next \/ UNCHANGED <<cfg, vols>>
  <2>1. /\ r.vm \in Names /\ r.xml \in Disks /\ Fits(r.xml, MaxTarget + 1) /\ Owned(r.vm, r.xml)
        /\ UNCHANGED vols
    <3>1. CASE CreateDefine(t)
      BY <3>1, <1>t DEF CreateDefine, Locals, Midway, Holding
    <3>2. CASE CloneDefine(t)
      <4>1. /\ r.pc = "clone_copy" /\ r.vm \in Names /\ r.xml \in Disks /\ UNCHANGED vols
            /\ \A i \in Targets : i < r.k
        BY <3>2, <1>t DEF CloneDefine, Locals, Targets
      <4> QED
        BY <4>1, <1>t DEF Midway, Fits, Holding, Owned
    <3> QED
      BY <1>8, <3>1, <3>2
  <2>2. ASSUME ~UNCHANGED cfg
        PROVE  cfg[r.vm] = Empty /\ cfg' = [cfg EXCEPT ![r.vm] = r.xml]
    BY <1>8, <2>1, <2>2 DEF CreateDefine, CloneDefine, DefineXML, Domains, Domain, domVars
  <2> QED
    BY <2>1, <2>2, CatalogDefines
<1>9. ASSUME AddAttach(t) PROVE Catalog!Next \/ UNCHANGED <<cfg, vols>>
  <2>1. /\ r.pc = "add_attach" /\ r.vm \in Names /\ r.k \in Targets
        /\ r.vol \in vols \ Sources(cfg[r.vm]) /\ r.vol[1] = r.vm /\ UNCHANGED vols
    BY <1>9, <1>t DEF AddAttach, Locals, Midway, Holding
  <2>2. ASSUME ~UNCHANGED cfg
        PROVE  cfg[r.vm][r.k] = NoVol /\ cfg' = [cfg EXCEPT ![r.vm][r.k] = r.vol]
    BY <1>9, <2>2 DEF AddAttach, domVars
  <2> QED
    BY <2>1, <2>2, CatalogAttaches
<1>10. ASSUME RemoveDetach(t) PROVE Catalog!Next \/ UNCHANGED <<cfg, vols>>
  <2>1. r.vm \in Names /\ r.k \in Targets /\ UNCHANGED vols
    BY <1>10, <1>t DEF RemoveDetach, Locals, Midway
  <2>2. ASSUME ~UNCHANGED cfg
        PROVE  cfg[r.vm][r.k] # NoVol /\ cfg' = [cfg EXCEPT ![r.vm][r.k] = NoVol]
    BY <1>10, <2>2 DEF RemoveDetach, Detachable, domVars
  <2> QED
    BY <2>1, <2>2, CatalogDetaches
<1>11. ASSUME RemoveDelete(t) PROVE Catalog!Next \/ UNCHANGED <<cfg, vols>>
  <2>1. /\ r.vm \in Names /\ r.vol \in Vols \cup {NoVol} /\ r.vol \notin Sources(cfg[r.vm])
        /\ vols' = vols \ {r.vol} /\ UNCHANGED cfg /\ (r.vol # NoVol => r.vol[1] = r.vm)
    BY <1>11, <1>t DEF RemoveDelete, Locals, Midway, Holding, domVars
  <2>2. CASE r.vol = NoVol
    BY <2>1, <2>2, <1>t
  <2>3. CASE r.vol # NoVol
    BY <2>1, <2>3, OthersApart, CatalogReclaims
  <2> QED
    BY <2>2, <2>3
<1>12. ASSUME DeleteUndefine(t) PROVE Catalog!Next \/ UNCHANGED <<cfg, vols>>
  <2>1. r.vm \in Names /\ UNCHANGED vols
    BY <1>12, <1>t DEF DeleteUndefine, Locals
  <2>2. ASSUME ~UNCHANGED cfg PROVE cfg' = [cfg EXCEPT ![r.vm] = Empty]
    BY <1>12, <2>2 DEF DeleteUndefine, UndefineDomain, domVars
  <2> QED
    BY <2>1, <2>2, CatalogUndefines
<1>13. ASSUME DeleteDisks(t) PROVE Catalog!Next \/ UNCHANGED <<cfg, vols>>
  <2> DEFINE v == r.xml[r.k]
  <2>1. /\ r.pc = "del_disks" /\ r.vm \in Names /\ r.k \in Targets /\ v \in Vols \cup {NoVol}
        /\ cfg[r.vm] = Empty /\ UNCHANGED cfg
    BY <1>13, <1>t DEF DeleteDisks, Locals, Midway, Disks, domVars
  <2>2. CASE v = NoVol \/ UNCHANGED vols
    BY <1>13, <2>1, <2>2, <1>t DEF DeleteDisks
  <2>3. CASE v \in Vols /\ vols' = vols \ {v}
    <3>1. v[1] = r.vm /\ v \notin Sources(cfg[r.vm])
      BY <2>1, <2>3, <1>t DEF Holding, Owned, Sources, Empty
    <3> QED
      BY <2>1, <2>3, <3>1, OthersApart, CatalogReclaims
  <2> QED
    BY <1>13, <2>1, <2>2, <2>3 DEF DeleteDisks
<1>14. ASSUME Crash PROVE UNCHANGED <<cfg, vols>>
  BY <1>14 DEF Crash, domVars
<1>15. ASSUME UNCHANGED vars PROVE UNCHANGED <<cfg, vols>>
  BY <1>15 DEF vars
<1> QED
  BY <1>0, <1>1, <1>2, <1>3, <1>4, <1>5, <1>6, <1>7, <1>8, <1>9, <1>10, <1>11, <1>12, <1>13, <1>14,
     <1>15 DEF Next, Step

(* The handlers implement the catalogue: with one request at a time, and    *)
(* the guest and the service stopping anywhere, every change of what VMs    *)
(* use and of what volumes exist is one the catalogue allows.               *)
THEOREM CatalogImplemented ==
    ASSUME NEW t, Threads = {t}
    PROVE  Spec => CatalogSpec
<1> DEFINE Inv == TypeOK /\ Ownership /\ Domains /\ Midway(th[t])
<1>1. Init => Inv /\ Catalog!Init
  <2> SUFFICES ASSUME Init PROVE Inv /\ Catalog!Init
    OBVIOUS
  <2>1. Domains /\ Midway(th[t])
    BY IdleMidway DEF Init, Domains, Domain, Exists, Fits, Empty
  <2>2. TypeOK /\ Ownership
    BY IdleType, EmptyOwned, IdleHolding
       DEF Init, TypeOK, DomTypeOK, Ownership, DomOwned, Empty, Disks
  <2>3. Catalog!Init
    BY DEF Init, Catalog!Init, Refs, Sources, Empty
  <2> QED
    BY <2>1, <2>2, <2>3
<1>2. Inv /\ [Next]_vars => Inv' /\ [Catalog!Next]_(Catalog!vars)
  BY TypeStep, OwnershipStep, SequentialStep, CatalogStep
<1> QED
  BY <1>1, <1>2, PTL DEF Spec, CatalogSpec, Catalog!Spec

(* A step of the catalogue keeps its promise.                               *)
LEMMA PromiseStep ==
    ASSUME Catalog!Promise, Catalog!Next \/ UNCHANGED Catalog!vars
    PROVE  Catalog!Promise'
<1> DEFINE P(u, s) == /\ \A n \in Names : u[n] \subseteq s
                      /\ \A m, n \in Names : m # n => u[m] \cap u[n] = {}
           Free(v) == \A n \in Names : v \notin Uses[n]
<1>1. (Catalog!Promise <=> P(Uses, vols)) /\ (Catalog!Promise' <=> P(Uses', vols'))
  BY DEF Catalog!Promise, Catalog!Backed, Catalog!Private, Catalog!Used, Uses
<1>2. \A v : v \notin Catalog!Used <=> Free(v)
  BY DEF Catalog!Used, Uses
<1>3. Uses = [n \in Names |-> Uses[n]]
  BY DEF Uses
<1> HIDE DEF P
<1>4. ASSUME NEW v, Catalog!Allocate(v) \/ Catalog!Reclaim(v)
      PROVE  P(Uses', vols')
  <2>1. Uses' = Uses
    BY <1>4 DEF Catalog!Allocate, Catalog!Reclaim, Uses
  <2>2. vols' = vols \cup {v} \/ (Free(v) /\ vols' = vols \ {v})
    BY <1>4, <1>2 DEF Catalog!Allocate, Catalog!Reclaim
  <2> QED
    BY <1>1, <2>1, <2>2 DEF P
<1>5. ASSUME NEW n \in Names, NEW S, S \subseteq vols, \A v \in S : v \in Uses[n] \/ Free(v),
             Uses' = [Uses EXCEPT ![n] = S], vols' = vols
      PROVE  P(Uses', vols')
  <2>1. \A m \in Names : Uses'[m] = IF m = n THEN S ELSE Uses[m]
    BY <1>3, <1>5
  <2> QED
    BY <1>1, <1>5, <2>1 DEF P
<1>6. ASSUME NEW n \in Names, Catalog!Undefine(n) PROVE P(Uses', vols')
  BY <1>5, <1>6 DEF Catalog!Undefine, Uses
<1>7. ASSUME NEW n \in Names, NEW v, Catalog!Attach(n, v) \/ Catalog!Detach(n, v)
      PROVE  P(Uses', vols')
  <2>1. CASE Catalog!Attach(n, v)
    <3>1. /\ v \in vols /\ Free(v) /\ vols' = vols
          /\ Uses' = [Uses EXCEPT ![n] = Uses[n] \cup {v}]
      BY <1>2, <2>1 DEF Catalog!Attach, Uses
    <3> QED
      BY <1>1, <1>5, <3>1 DEF P
  <2>2. CASE Catalog!Detach(n, v)
    <3>1. Uses' = [Uses EXCEPT ![n] = Uses[n] \ {v}] /\ vols' = vols
      BY <2>2 DEF Catalog!Detach, Uses
    <3> QED
      BY <1>1, <1>5, <3>1 DEF P
  <2> QED
    BY <1>7, <2>1, <2>2
<1>8. ASSUME NEW n \in Names, NEW S, Catalog!Define(n, S) PROVE P(Uses', vols')
  <2>1. /\ S \subseteq vols /\ (\A v \in S : Free(v)) /\ vols' = vols
        /\ Uses' = [Uses EXCEPT ![n] = S]
    BY <1>2, <1>8 DEF Catalog!Define, Uses
  <2> QED
    BY <1>5, <2>1
<1>9. CASE UNCHANGED Catalog!vars
  BY <1>1, <1>9 DEF Catalog!vars, Uses
<1> QED
  BY <1>1, <1>4, <1>6, <1>7, <1>8, <1>9 DEF Catalog!Next

(* So they keep its promise: disks in use exist, and have one user.         *)
THEOREM PromiseKept ==
    ASSUME NEW t, Threads = {t}
    PROVE  Spec => []Catalog!Promise
<1>1. Catalog!Init => Catalog!Promise
  BY DEF Catalog!Init, Catalog!Promise, Catalog!Backed, Catalog!Private, Catalog!Used
<1>2. Catalog!Promise /\ [Catalog!Next]_(Catalog!vars) => Catalog!Promise'
  BY PromiseStep
<1> QED
  BY <1>1, <1>2, CatalogImplemented, PTL DEF CatalogSpec, Catalog!Spec

=============================================================================
