----------------------------- MODULE VmStorage -----------------------------
(***************************************************************************)
(* The VM definitions libvirt keeps and the storage volumes they use, as   *)
(* AtlasVM's handlers change them: LibvirtService (create_vm, clone_vm,    *)
(* add_disk, delete_vm, start, stop) and vm_disk_management                *)
(* (remove_disk_from_vm), over the volume helpers of vm_storage_utils.     *)
(*                                                                         *)
(* FastAPI runs every handler in a thread of its pool, and clones run in   *)
(* job threads; nothing serialises two operations on one VM.  A step is    *)
(* one call to libvirt, virsh or qemu-img together with the local work up  *)
(* to the next one; what a handler has read so far is in its thread.       *)
(***************************************************************************)
EXTENDS Integers, FiniteSets

CONSTANTS
    Names,      \* names a VM can have
    Threads,    \* request and job threads
    Uuids,      \* identities libvirt can give a definition
    MaxIndex,   \* volumes are called <vm>-disk1 .. <vm>-disk<MaxIndex>
    MaxTarget,  \* bus positions: 1 is vda, 2 is vdb, ...
    NoName,     \* an idle thread works on no VM
    NoVol,      \* an empty bus position
    NoUuid      \* the name is not defined

Vols    == Names \X (1..MaxIndex)
Targets == 1..MaxTarget
Disks   == [Targets -> Vols \cup {NoVol}]
Empty   == [k \in Targets |-> NoVol]

ASSUME ConstantsAssumption ==
    /\ MaxTarget \in Nat \ {0}
    /\ MaxIndex \in Nat \ {0}
    /\ MaxTarget <= MaxIndex
    /\ NoName \notin Names
    /\ NoVol \notin Vols
    /\ NoUuid \notin Uuids

VARIABLES
    uuid,       \* identity of the domain with that name, or NoUuid
    persistent, \* names with a definition on disk (a running domain may lack one)
    active,     \* names whose domain is running
    cfg,        \* the disks of the persistent definition
    live,       \* the disks of the running domain
    vols,       \* the volumes that exist
    th          \* what each thread is doing and what it has read

vars == <<uuid, persistent, active, cfg, live, vols, th>>

domVars == <<uuid, persistent, active, cfg, live>>

PCs == {"idle", "create_vol", "create_define", "create_start",
        "clone_copy", "add_vol", "add_target", "add_attach", "add_failed",
        "rm_mode", "rm_detach_live", "rm_detach_config", "rm_delete",
        "del_read", "del_undefine", "del_disks"}

Idle == [pc |-> "idle", vm |-> NoName, uuid |-> NoUuid,
         xml |-> Empty, k |-> 1, vol |-> NoVol, flag |-> FALSE]

Locals ==
    {r \in [pc : PCs, vm : Names \cup {NoName}, uuid : Uuids \cup {NoUuid},
            xml : Disks, k : 1..(MaxIndex + 1), vol : Vols \cup {NoVol},
            flag : BOOLEAN] :
        /\ r.pc # "idle" => r.vm \in Names
        /\ r.pc \in {"del_read", "del_undefine", "del_disks"} => r.k \in Targets}

DomTypeOK ==
    /\ uuid \in [Names -> Uuids \cup {NoUuid}]
    /\ persistent \subseteq Names
    /\ active \subseteq Names
    /\ cfg \in [Names -> Disks]
    /\ live \in [Names -> Disks]

(* Names, volumes and bus positions stay in range, wherever a thread is.    *)
TypeOK ==
    /\ DomTypeOK
    /\ vols \subseteq Vols
    /\ th \in [Threads -> Locals]

Init ==
    /\ uuid = [n \in Names |-> NoUuid]
    /\ persistent = {}
    /\ active = {}
    /\ cfg = [n \in Names |-> Empty]
    /\ live = [n \in Names |-> Empty]
    /\ vols = {}
    /\ th = [t \in Threads |-> Idle]

-----------------------------------------------------------------------------
(* libvirt, seen from the calls AtlasVM makes.                             *)

Sources(d)  == {d[k] : k \in Targets} \ {NoVol}
DiskCount(d) == Cardinality({k \in Targets : d[k] # NoVol})

(* A mutant of Rank: numbering starts one too high.                         *)
RankFromTwo(d, k) == 1 + Cardinality({j \in 1..k : d[j] # NoVol})

Rank(d, k) == Cardinality({j \in 1..k : d[j] # NoVol})

Exists(n) == uuid[n] # NoUuid

(* A handle names the incarnation it was looked up for, by uuid.            *)
Holds(h, n) == Exists(n) /\ uuid[n] = h

(* XMLDesc() and virsh dumpxml: the live XML of a running domain.           *)
XMLDesc(n) == IF n \in active THEN live[n] ELSE cfg[n]

(* An identity no domain and no handle has.                                 *)
FreshUuid(u) ==
    /\ \A n \in Names : uuid[n] # u
    /\ \A t \in Threads : th[t].uuid # u

DefineXML(n, d, u) ==
    /\ uuid' = [uuid EXCEPT ![n] = u]
    /\ persistent' = persistent \cup {n}
    /\ cfg' = [cfg EXCEPT ![n] = d]
    /\ UNCHANGED <<active, live>>

(* domain.create(): qemu opens every disk of the definition.                *)
CanStart(n) == n \in persistent \ active /\ Sources(cfg[n]) \subseteq vols

StartDomain(n) ==
    /\ active' = active \cup {n}
    /\ live' = [live EXCEPT ![n] = cfg[n]]
    /\ UNCHANGED <<uuid, persistent, cfg>>

(* A domain that stops and has no definition on disk is gone.               *)
StopDomain(n) ==
    /\ active' = active \ {n}
    /\ live' = [live EXCEPT ![n] = Empty]
    /\ uuid' = [uuid EXCEPT ![n] = IF n \in persistent THEN @ ELSE NoUuid]
    /\ UNCHANGED <<persistent, cfg>>

(* Undefining a running domain leaves it running without a definition.      *)
UndefineDomain(n) ==
    /\ uuid' = [uuid EXCEPT ![n] = IF n \in active THEN @ ELSE NoUuid]
    /\ persistent' = persistent \ {n}
    /\ cfg' = [cfg EXCEPT ![n] = Empty]
    /\ UNCHANGED <<active, live>>

-----------------------------------------------------------------------------
(* Thread bookkeeping: the next call, or the return (an exception and a     *)
(* normal return both end the operation).                                   *)

Goto(t, r) == th' = [th EXCEPT ![t] = r]
Return(t)  == Goto(t, Idle)
At(t, pc)  == th[t].pc = pc

-----------------------------------------------------------------------------
(* create_vm                                                                *)

CreateCheck(t, n) ==
    /\ At(t, "idle")
    /\ ~Exists(n)
    /\ \E start \in BOOLEAN :
          Goto(t, [Idle EXCEPT !.pc = "create_vol", !.vm = n, !.flag = start])
    /\ UNCHANGED <<domVars, vols>>

CreateVolume(t) ==
    LET v == <<th[t].vm, 1>> IN
    /\ At(t, "create_vol")
    /\ \/ /\ v \notin vols
          /\ vols' = vols \cup {v}
          /\ Goto(t, [th[t] EXCEPT !.pc = "create_define", !.xml[1] = v])
       \/ /\ v \in vols                      \* vol-create-as: exists already
          /\ Return(t)
          /\ UNCHANGED vols
    /\ UNCHANGED domVars

CreateDefine(t) ==
    LET n == th[t].vm IN
    /\ At(t, "create_define")
    /\ \/ /\ ~Exists(n)
          /\ \E u \in Uuids :
                /\ FreshUuid(u)
                /\ DefineXML(n, th[t].xml, u)
                /\ IF th[t].flag
                     THEN Goto(t, [th[t] EXCEPT !.pc = "create_start", !.uuid = u])
                     ELSE Return(t)
       \/ /\ Exists(n)                       \* defined meanwhile: raises
          /\ Return(t)
          /\ UNCHANGED domVars
    /\ UNCHANGED vols

CreateStart(t) ==
    LET n == th[t].vm IN
    /\ At(t, "create_start")
    /\ IF Holds(th[t].uuid, n) /\ CanStart(n)
         THEN StartDomain(n)
         ELSE UNCHANGED domVars
    /\ Return(t)
    /\ UNCHANGED vols

-----------------------------------------------------------------------------
(* clone_vm: the XML read at the start is rewritten one disk at a time.     *)

CloneCheck(t, src, n) ==
    /\ At(t, "idle")
    /\ ~Exists(n) /\ Exists(src) /\ src \notin active
    /\ Goto(t, [Idle EXCEPT !.pc = "clone_copy", !.vm = n, !.xml = XMLDesc(src)])
    /\ UNCHANGED <<domVars, vols>>

(* A mutant of Rewritten: the clone keeps the source's disk.                *)
NotRewritten(r, k, v) == [r EXCEPT !.k = k + 1]

(* set_disk_source on the k-th disk of the clone's XML.                     *)
Rewritten(r, k, v) == [r EXCEPT !.k = k + 1, !.xml[k] = v]

(* create_volume_for_pool, then qemu-img convert into the new volume.       *)
CloneCopy(t) ==
    LET r == th[t]
        k == r.k
        v == <<r.vm, Rank(r.xml, k)>>
    IN
    /\ At(t, "clone_copy") /\ k \in Targets
    /\ \/ /\ r.xml[k] = NoVol
          /\ Goto(t, [r EXCEPT !.k = k + 1])
          /\ UNCHANGED vols
       \/ /\ r.xml[k] # NoVol /\ v \notin vols /\ r.xml[k] \in vols
          /\ vols' = vols \cup {v}
          /\ Goto(t, Rewritten(r, k, v))
       \/ /\ r.xml[k] # NoVol /\ v \notin vols
          /\ vols' = vols \cup {v}           \* convert fails, the volume stays
          /\ Return(t)
       \/ /\ r.xml[k] # NoVol /\ v \in vols
          /\ Return(t)
          /\ UNCHANGED vols
    /\ UNCHANGED domVars

CloneDefine(t) ==
    LET n == th[t].vm IN
    /\ At(t, "clone_copy") /\ th[t].k \notin Targets
    /\ \/ /\ ~Exists(n)
          /\ \E u \in Uuids : FreshUuid(u) /\ DefineXML(n, th[t].xml, u)
       \/ /\ Exists(n)
          /\ UNCHANGED domVars
    /\ Return(t)
    /\ UNCHANGED vols

-----------------------------------------------------------------------------
(* add_disk                                                                 *)

AddCheck(t, n) ==
    /\ At(t, "idle")
    /\ Exists(n) /\ n \notin active
    /\ Goto(t, [Idle EXCEPT !.pc = "add_vol", !.vm = n, !.uuid = uuid[n],
                            !.k = DiskCount(XMLDesc(n)) + 1])
    /\ UNCHANGED <<domVars, vols>>

(* A mutant of AddVolume: a volume that is there already will do.           *)
AddVolumeReused(t) ==
    LET r == th[t]
        v == <<r.vm, r.k>>
    IN
    /\ At(t, "add_vol")
    /\ IF r.k <= MaxIndex
         THEN /\ vols' = vols \cup {v}
              /\ Goto(t, [r EXCEPT !.pc = "add_target", !.vol = v])
         ELSE Return(t) /\ UNCHANGED vols
    /\ UNCHANGED domVars

(* One vol-create-as per candidate <vm>-disk<k>, until one is accepted.     *)
AddVolume(t) ==
    LET r == th[t]
        v == <<r.vm, r.k>>
    IN
    /\ At(t, "add_vol")
    /\ \/ /\ r.k <= MaxIndex /\ v \notin vols
          /\ vols' = vols \cup {v}
          /\ Goto(t, [r EXCEPT !.pc = "add_target", !.vol = v])
       \/ /\ r.k <= MaxIndex /\ v \in vols
          /\ Goto(t, [r EXCEPT !.k = @ + 1])
          /\ UNCHANGED vols
       \/ /\ r.k > MaxIndex
          /\ Return(t)
          /\ UNCHANGED vols
    /\ UNCHANGED domVars

(* The lowest of vdb, vdc, ... the persistent definition does not use.  The *)
(* clean-up call when none is left passes an argument delete_disk_source    *)
(* does not take, and the error is swallowed: nothing is deleted.           *)
AddTarget(t) ==
    LET r == th[t]
        free == {k \in Targets \ {1} : cfg[r.vm][k] = NoVol}
    IN
    /\ At(t, "add_target")
    /\ \/ /\ Holds(r.uuid, r.vm)
          /\ \E k \in free :
                /\ \A j \in free : k <= j
                /\ Goto(t, [r EXCEPT !.pc = "add_attach", !.k = k])
       \/ /\ ~Holds(r.uuid, r.vm) \/ free = {}
          /\ Return(t)
    /\ UNCHANGED <<domVars, vols>>

(* attachDeviceFlags(AFFECT_CONFIG); libvirt may refuse it at any time.     *)
AddAttach(t) ==
    LET r == th[t] IN
    /\ At(t, "add_attach")
    /\ \/ /\ Holds(r.uuid, r.vm)
          /\ r.vm \in persistent
          /\ cfg[r.vm][r.k] = NoVol
          /\ cfg' = [cfg EXCEPT ![r.vm][r.k] = r.vol]
          /\ Return(t)
          /\ UNCHANGED <<uuid, persistent, active, live>>
       \/ /\ Goto(t, [r EXCEPT !.pc = "add_failed"])
          /\ UNCHANGED domVars
    /\ UNCHANGED vols

(* The exception handler of the attach: the same call that deletes nothing, *)
(* then the exception is raised again.                                      *)
AddRollback(t) ==
    /\ At(t, "add_failed")
    /\ Return(t)
    /\ UNCHANGED <<domVars, vols>>

-----------------------------------------------------------------------------
(* remove_disk_from_vm: virsh is called with the VM's name each time.       *)

RemoveFind(t, n, k) ==
    /\ At(t, "idle")
    /\ Exists(n) /\ XMLDesc(n)[k] # NoVol
    /\ \E delete \in BOOLEAN :
          /\ ~(k = 1 /\ delete)              \* likely boot disk: refused
          /\ Goto(t, [Idle EXCEPT !.pc = "rm_mode", !.vm = n, !.k = k,
                                  !.vol = XMLDesc(n)[k], !.flag = delete])
    /\ UNCHANGED <<domVars, vols>>

(* A mutant of RemoveMode: only the definition is changed.                  *)
RemoveModeConfig(t) ==
    /\ At(t, "rm_mode")
    /\ Goto(t, [th[t] EXCEPT !.pc = "rm_detach_config"])
    /\ UNCHANGED <<domVars, vols>>

RemoveMode(t) ==
    /\ At(t, "rm_mode")
    /\ Goto(t, [th[t] EXCEPT !.pc = IF th[t].vm \in active
                                      THEN "rm_detach_live"
                                      ELSE "rm_detach_config"])
    /\ UNCHANGED <<domVars, vols>>

(* virsh detach-disk by target, from the definition and, in live mode, from *)
(* the running domain too; all or nothing.                                  *)
Detachable(n, k, mode) ==
    /\ n \in persistent /\ cfg[n][k] # NoVol
    /\ mode = "rm_detach_live" => n \in active /\ live[n][k] # NoVol

ThenDelete(t) ==
    IF th[t].flag THEN Goto(t, [th[t] EXCEPT !.pc = "rm_delete"]) ELSE Return(t)

(* A mutant of RemoveDetach: the exit status of virsh is not looked at.     *)
RemoveDetachUnchecked(t) ==
    LET r == th[t] IN
    /\ r.pc \in {"rm_detach_live", "rm_detach_config"}
    /\ \/ /\ Detachable(r.vm, r.k, r.pc)
          /\ cfg' = [cfg EXCEPT ![r.vm][r.k] = NoVol]
          /\ live' = IF At(t, "rm_detach_live")
                       THEN [live EXCEPT ![r.vm][r.k] = NoVol]
                       ELSE live
          /\ ThenDelete(t)
          /\ UNCHANGED <<uuid, persistent, active>>
       \/ /\ ThenDelete(t)
          /\ UNCHANGED domVars
    /\ UNCHANGED vols

RemoveDetach(t) ==
    LET r == th[t] IN
    /\ r.pc \in {"rm_detach_live", "rm_detach_config"}
    /\ \/ /\ Detachable(r.vm, r.k, r.pc)
          /\ cfg' = [cfg EXCEPT ![r.vm][r.k] = NoVol]
          /\ live' = IF At(t, "rm_detach_live")
                       THEN [live EXCEPT ![r.vm][r.k] = NoVol]
                       ELSE live
          /\ ThenDelete(t)
          /\ UNCHANGED <<uuid, persistent, active>>
       \/ /\ Return(t)                       \* refused: nothing is deleted
          /\ UNCHANGED domVars
    /\ UNCHANGED vols

(* delete_backing_storage of the disk found in the first step.              *)
RemoveDelete(t) ==
    /\ At(t, "rm_delete")
    /\ vols' = vols \ {th[t].vol}
    /\ Return(t)
    /\ UNCHANGED domVars

-----------------------------------------------------------------------------
(* delete_vm                                                                *)

DeleteDestroy(t, n) ==
    /\ At(t, "idle")
    /\ Exists(n)
    /\ \E pc \in {"del_read", "del_undefine"} :      \* delete_disks or not
          Goto(t, [Idle EXCEPT !.pc = pc, !.vm = n, !.uuid = uuid[n]])
    /\ IF n \in active THEN StopDomain(n) ELSE UNCHANGED domVars
    /\ UNCHANGED vols

(* The disks of the domain, through the handle looked up before.            *)
DeleteRead(t) ==
    LET r == th[t] IN
    /\ At(t, "del_read")
    /\ IF Holds(r.uuid, r.vm)
         THEN Goto(t, [r EXCEPT !.pc = "del_undefine", !.xml = XMLDesc(r.vm)])
         ELSE Return(t)
    /\ UNCHANGED <<domVars, vols>>

(* A mutant of DeleteUndefine: its failure is passed over.                  *)
DeleteUndefineUnchecked(t) ==
    LET r == th[t] IN
    /\ At(t, "del_undefine")
    /\ \/ Holds(r.uuid, r.vm) /\ r.vm \in persistent /\ UndefineDomain(r.vm)
       \/ UNCHANGED domVars
    /\ IF r.xml = Empty THEN Return(t) ELSE Goto(t, [r EXCEPT !.pc = "del_disks"])
    /\ UNCHANGED vols

(* libvirt may refuse both undefine calls, of a VM with snapshots say.      *)
DeleteUndefine(t) ==
    LET r == th[t] IN
    /\ At(t, "del_undefine")
    /\ \/ /\ Holds(r.uuid, r.vm)
          /\ r.vm \in persistent
          /\ UndefineDomain(r.vm)
          /\ IF r.xml = Empty THEN Return(t) ELSE Goto(t, [r EXCEPT !.pc = "del_disks"])
       \/ /\ Return(t)
          /\ UNCHANGED domVars
    /\ UNCHANGED vols

(* delete_disk_source of each path read, in order; an error is passed over. *)
DeleteDisks(t) ==
    LET r == th[t] IN
    /\ At(t, "del_disks")
    /\ \/ vols' = vols \ {r.xml[r.k]}
       \/ UNCHANGED vols
    /\ IF r.k = MaxTarget THEN Return(t) ELSE Goto(t, [r EXCEPT !.k = @ + 1])
    /\ UNCHANGED domVars

-----------------------------------------------------------------------------
(* Power, and the end of the process.                                       *)

StartVm(t, n) ==
    /\ At(t, "idle")
    /\ CanStart(n)
    /\ StartDomain(n)
    /\ UNCHANGED <<vols, th>>

(* force_stop_vm, or the guest switching itself off, asked to or not.       *)
PowerOff(n) ==
    /\ n \in active
    /\ StopDomain(n)
    /\ UNCHANGED <<vols, th>>

(* The service dies: its threads go with it, libvirt and the disks stay.    *)
Crash ==
    /\ th' = [t \in Threads |-> Idle]
    /\ UNCHANGED <<domVars, vols>>

-----------------------------------------------------------------------------
Step(t) ==
    \/ \E n \in Names : \/ CreateCheck(t, n)
                        \/ AddCheck(t, n)
                        \/ DeleteDestroy(t, n)
                        \/ StartVm(t, n)
                        \/ \E src \in Names : CloneCheck(t, src, n)
                        \/ \E k \in Targets : RemoveFind(t, n, k)
    \/ CreateVolume(t) \/ CreateDefine(t) \/ CreateStart(t)
    \/ CloneCopy(t) \/ CloneDefine(t)
    \/ AddVolume(t) \/ AddTarget(t) \/ AddAttach(t) \/ AddRollback(t)
    \/ RemoveMode(t) \/ RemoveDetach(t) \/ RemoveDelete(t)
    \/ DeleteRead(t) \/ DeleteUndefine(t) \/ DeleteDisks(t)

Next ==
    \/ \E t \in Threads : Step(t)
    \/ \E n \in Names : PowerOff(n)
    \/ Crash

Spec == Init /\ [][Next]_vars

-----------------------------------------------------------------------------
(* What a VM uses: by its definition, or by the guest that is running.      *)
Refs(n) == Sources(cfg[n]) \cup Sources(live[n])

Owned(n, d) == \A k \in Targets : d[k] # NoVol => d[k][1] = n

(* What a handler has read, or made and not yet attached, is its VM's; of a *)
(* clone in progress, the disks rewritten so far.                           *)
Holding(r) ==
    /\ IF r.pc = "clone_copy"
         THEN \A k \in Targets : k < r.k /\ r.xml[k] # NoVol => r.xml[k][1] = r.vm
         ELSE Owned(r.vm, r.xml)
    /\ r.vol # NoVol => r.vol[1] = r.vm

DomOwned == \A n \in Names : Owned(n, cfg[n]) /\ Owned(n, live[n])

(* Every volume a VM uses, a handler has made and not yet attached, or a    *)
(* handler is going to delete, was made for that VM: the inductive form of  *)
(* the two properties below.                                                *)
Ownership == DomOwned /\ \A t \in Threads : Holding(th[t])

(* Two VMs never share a volume, whatever the interleaving of creations,    *)
(* clones, disk changes and deletions and wherever the service dies:        *)
(* volume names carry the VM's name and a clone rewrites every disk.        *)
NoSharing == \A m, n \in Names : m # n => Refs(m) \cap Refs(n) = {}

(* A volume a VM uses is deleted only by an operation on that VM: neither a *)
(* disk list read before other requests ran nor a clone's leftovers lead to *)
(* another VM's disk.                                                       *)
DeletesOwnDisks ==
    [][\A v \in vols \ vols', n \in Names :
          v \in Refs(n) => \E t \in Threads : th[t].vm = n /\ th'[t] # th[t]]_vars

(* One request at a time, deaths of the service included: no VM refers to a *)
(* volume that is gone.  Disks are undefined or detached before they are    *)
(* deleted, and deleted only when that worked.                              *)
NoDangling == \A n \in Names : Refs(n) \subseteq vols

(* One request at a time, deaths of the service included: a volume is at    *)
(* one position of one VM only, because add_disk passes over the volumes    *)
(* that earlier detaches left behind.                                       *)
NoDoubleAttach ==
    \A n \in Names, j, k \in Targets :
       j # k /\ cfg[n][j] # NoVol => cfg[n][j] # cfg[n][k]

(* One request at a time: what is changed in the definition of a running VM *)
(* is changed in the running VM too, so stopping it loses nothing.          *)
LiveMatchesConfig == \A n \in active : n \in persistent /\ live[n] = cfg[n]

(* One request at a time, the handlers implement the catalogue's promise.   *)
Catalog == INSTANCE VmCatalog WITH
    refs <- [n \in Names |-> Refs(n)], store <- vols

CatalogSpec == Catalog!Spec

(* libvirt_service.py:680: a failed attach rolls the new volume back.       *)
AttachRolledBack ==
    [][\A t \in Threads : AddRollback(t) => th[t].vol \notin vols']_vars

=============================================================================
