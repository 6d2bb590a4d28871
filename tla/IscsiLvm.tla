------------------------------- MODULE IscsiLvm -------------------------------
(***************************************************************************)
(* iSCSI targets and LVM thin pools on their LUNs (storage_phase9.py).  A   *)
(* login gives the target's LUNs kernel devices, in any order, a logout     *)
(* takes them away, whether or not a thin pool is on them.                  *)
(* Turning a LUN into a thin pool checks a device and then wipes it, call   *)
(* by call, while other requests log in and out, save, delete and           *)
(* initialise.  login, logout and initialise read the file of all records   *)
(* before their commands and write it back after them; AtlasVM may die      *)
(* between any two calls.                                                   *)
(***************************************************************************)
EXTENDS Functions

CONSTANTS
    Targets, Units,   \* each target has a LUN for every unit number
    Devs,      \* kernel devices (/dev/sdb, ...)
    VGs, Threads,
    Kinds,     \* passwords: "chap", "mutual"
    NoRec, NoDev, NoVG, NoTarget

Luns == Targets \X Units

VARIABLES
    file,     \* atlasvm_iscsi_targets.json
    secret,   \* the passwords in each target's secrets file, or NoRec
    dev,      \* the device of each LUN that is logged in
    lun,      \* what is on each LUN
    vg,       \* the volume group a LUN belongs to
    busy,     \* LUNs whose device an active thin pool holds
    th,       \* what each request has read and where it is
    torn,     \* targets of which one of secrets and record was not written, or
              \* the record was put back as it had been before (ghost)
    wrecked   \* volume groups whose thin pool was destroyed (ghost)

vars == <<file, secret, dev, lun, vg, busy, th, torn, wrecked>>

(* "fs": a filesystem or partitions; "raw": a VM's disk under the LUN's     *)
(* by-path name; "alias": one under another name (by-id, the kernel name of *)
(* an earlier login); then what the commands make of a LUN.                 *)
Contents == {"blank", "fs", "raw", "alias", "pv", "vg", "thin"}
Record == [vg : VGs \cup {NoVG}, secret : (SUBSET Kinds) \cup {NoRec}]

ConstantsAssumption ==
    /\ NoDev \notin Devs /\ NoVG \notin VGs /\ NoTarget \notin Targets
    /\ NoRec \notin Record

Fresh  == [vg |-> NoVG, secret |-> NoRec]
Empty  == [t \in Targets |-> NoRec]
Idle   == [pc |-> "idle", t |-> NoTarget, d |-> NoDev, v |-> NoVG,
           snap |-> Empty, blind |-> FALSE, gone |-> FALSE]
Labels == {"idle", "login", "logout", "logged", "read", "wipe",
           "pvcreate", "vgcreate", "lvcreate", "record"}

(* Records, LUNs and requests are what the code makes of them, a device is  *)
(* one LUN's at a time, and what is busy is a thin pool on a device.        *)
TypeOK ==
    /\ file \in [Targets -> Record \cup {NoRec}]
    /\ secret \in [Targets -> (SUBSET Kinds) \cup {NoRec}]
    /\ dev \in [Luns -> Devs \cup {NoDev}]
    /\ \A k, l \in Luns : dev[k] = dev[l] /\ dev[k] # NoDev => k = l
    /\ lun \in [Luns -> Contents]
    /\ vg \in [Luns -> VGs \cup {NoVG}]
    /\ \A l \in Luns : vg[l] # NoVG <=> lun[l] \in {"vg", "thin"}
    /\ busy \subseteq {l \in Luns : lun[l] = "thin" /\ dev[l] # NoDev}
    /\ \A r \in Threads :
         /\ th[r].pc \in Labels /\ th[r].t \in Targets \cup {NoTarget}
         /\ th[r].d \in Devs \cup {NoDev} /\ th[r].v \in VGs \cup {NoVG}
         /\ th[r].blind \in BOOLEAN /\ th[r].gone \in BOOLEAN
         /\ th[r].snap \in [Targets -> Record \cup {NoRec}]
    /\ torn \subseteq Targets /\ wrecked \subseteq VGs

Init ==
    /\ file = Empty
    /\ secret = [t \in Targets |-> NoRec]
    /\ dev = [l \in Luns |-> NoDev]
    /\ lun \in [Luns -> {"blank", "fs", "raw", "alias"}]
    /\ vg = [l \in Luns |-> NoVG]
    /\ th = [r \in Threads |-> Idle]
    /\ busy = {} /\ torn = {} /\ wrecked = {}

-----------------------------------------------------------------------------

At(r, pc)   == th[r].pc = pc
Goto(r, pc) == th' = [th EXCEPT ![r].pc = pc]
End(r)      == th' = [th EXCEPT ![r] = Idle]

(* A request writes the whole file from what it read, with its own record.  *)
WriteBack(r, rec) ==
    /\ file' = [th[r].snap EXCEPT ![th[r].t] = rec]
    /\ torn' = torn \cup {t \in Targets : th[r].snap[t] # file[t]}

-----------------------------------------------------------------------------
(* write_iscsi_secrets: the file has the passwords of this save alone.      *)
WriteSecrets(t, passwords) == secret' = [secret EXCEPT ![t] = passwords]

(* save_iscsi_target: a password of either kind rewrites the secrets file;  *)
(* with none the record keeps what it said of it.  What login and LVM had   *)
(* recorded is gone.                                                        *)
SaveIscsi(r, t, passwords) ==
    /\ At(r, "idle")
    /\ IF passwords # {}
       THEN /\ WriteSecrets(t, passwords)
            /\ file' = [file EXCEPT ![t] = [Fresh EXCEPT !.secret = passwords]]
            /\ torn' = torn \ {t}
       ELSE /\ file' = [file EXCEPT ![t] = [Fresh EXCEPT !.secret =
                                             IF file[t] = NoRec THEN NoRec ELSE file[t].secret]]
            /\ UNCHANGED <<secret, torn>>
    /\ UNCHANGED <<dev, lun, vg, busy, th, wrecked>>

(* ... and the save may end between the secrets and the record.             *)
SaveIscsiBreaks(r, t, passwords) ==
    /\ At(r, "idle") /\ passwords # {}
    /\ WriteSecrets(t, passwords)
    /\ torn' = torn \cup {t}
    /\ UNCHANGED <<file, dev, lun, vg, busy, th, wrecked>>

(* A mutant of DeleteIscsi: the secrets stay.                               *)
DeleteRecordOnly(r, t) ==
    /\ At(r, "idle") /\ file[t] # NoRec
    /\ file' = [file EXCEPT ![t] = NoRec]
    /\ UNCHANGED <<secret, dev, lun, vg, busy, th, torn, wrecked>>

(* delete_iscsi_target: the secrets file the record names, then the record. *)
(* That the file cannot be removed is ignored, and the request may end      *)
(* before the record.                                                       *)
DeleteIscsi(r, t) ==
    /\ At(r, "idle") /\ file[t] # NoRec
    /\ \E removed, dropped \in BOOLEAN :
         /\ removed \/ dropped
         /\ secret' = IF removed /\ file[t].secret # NoRec
                      THEN [secret EXCEPT ![t] = NoRec] ELSE secret
         /\ file' = IF dropped THEN [file EXCEPT ![t] = NoRec] ELSE file
         /\ torn' = IF file[t].secret = NoRec THEN torn
                    ELSE IF removed /\ dropped THEN torn \ {t} ELSE torn \cup {t}
    /\ UNCHANGED <<dev, lun, vg, busy, th, wrecked>>

(* login_iscsi_target reads the records and configures the node; iscsiadm   *)
(* logs in or does not; the record then says whether there is a session     *)
(* (left out: no property looks at it).                                     *)
Begin(r, t, pc) ==
    /\ At(r, "idle") /\ file[t] # NoRec
    /\ th' = [th EXCEPT ![r] = [Idle EXCEPT !.pc = pc, !.t = t, !.snap = file]]
    /\ UNCHANGED <<file, secret, dev, lun, vg, busy, torn, wrecked>>

Own(t) == {l \in Luns : l[1] = t}
Given(t, f) == [l \in Luns |-> IF l \in Own(t) THEN f[l] ELSE dev[l]]
FreeDevs == Devs \ {dev[l] : l \in Luns}

(* A session brings all the target's LUNs; one there is stays as it is.  A  *)
(* thin pool that was active when its device went stays with the dead       *)
(* device and does not hold the new one.                                    *)
Login(r) ==
    /\ At(r, "login")
    /\ \/ UNCHANGED dev
       \/ /\ \A l \in Own(th[r].t) : dev[l] = NoDev
          /\ \E f \in Injection(Own(th[r].t), FreeDevs) : dev' = Given(th[r].t, f)
    /\ Goto(r, "logged")
    /\ UNCHANGED <<file, secret, lun, vg, busy, torn, wrecked>>

(* The record is written, unless the target's libvirt pool cannot be        *)
(* defined after a login.                                                   *)
RecordSession(r) ==
    /\ At(r, "logged")
    /\ \/ WriteBack(r, th[r].snap[th[r].t])
       \/ UNCHANGED <<file, torn>>
    /\ End(r)
    /\ UNCHANGED <<secret, dev, lun, vg, busy, wrecked>>

(* logout_iscsi_target: the devices go, also from under a thin pool and     *)
(* from under a request that has checked one of them; the record is written *)
(* whatever iscsiadm did.                                                   *)
Logout(r) ==
    /\ At(r, "logout")
    /\ \/ Goto(r, "logged") /\ UNCHANGED <<dev, busy>>
       \/ /\ dev' = Given(th[r].t, [l \in Own(th[r].t) |-> NoDev])
          /\ busy' = busy \ Own(th[r].t)
          /\ th' = [q \in Threads |->
                      IF q = r THEN [th[q] EXCEPT !.pc = "logged"]
                      ELSE [th[q] EXCEPT !.gone = @ \/ \E l \in Own(th[r].t) :
                                                          dev[l] = th[q].d /\ dev[l] # NoDev]]
    /\ UNCHANGED <<file, secret, lun, vg, torn, wrecked>>

-----------------------------------------------------------------------------
(* The check (iscsi_lvm_candidate_devices): lsblk shows filesystems and LVM *)
(* labels, pvs physical volumes, virsh the disks of VMs, whose names are    *)
(* compared with the device's two.  A query that fails is an empty answer,  *)
(* and so may be one asked before the device was the LUN's.                 *)

Queries == {"lsblk", "pvs", "virsh"}

InLsblk(l) == lun[l] \in {"fs", "pv", "vg", "thin"}
InPvs(l)   == lun[l] \in {"pv", "vg", "thin"}
InVirsh(l) == lun[l] = "raw"

Shows(l) == {q \in Queries : \/ q = "lsblk" /\ InLsblk(l)
                             \/ q = "pvs" /\ InPvs(l)
                             \/ q = "virsh" /\ InVirsh(l)}

(* A mutant of Eligible: what VMs use is not asked.                         *)
EligibleNoVMs(l, answered) == Shows(l) \cap answered \cap {"lsblk", "pvs"} = {}

Eligible(l, answered) == Shows(l) \cap answered = {}

(* initialize_iscsi_lvm_thin: the operator names any iSCSI by-path device,  *)
(* not only one of the target; the path is resolved once, here.             *)
CheckDevice(r, t, l, v) ==
    /\ At(r, "idle") /\ file[t] # NoRec
    /\ dev[l] # NoDev
    /\ \E answered \in SUBSET Queries :
         /\ Eligible(l, answered)
         /\ th' = [th EXCEPT ![r] = [Idle EXCEPT !.pc = "read", !.t = t, !.d = dev[l], !.v = v,
                                       !.blind = ~Eligible(l, Queries)]]
    /\ UNCHANGED <<file, secret, dev, lun, vg, busy, torn, wrecked>>

(* A group's name is taken if a LUN that is logged in has it.               *)
Taken(v) == \E l \in Luns : vg[l] = v /\ dev[l] # NoDev

(* The records are read, and the volume group's name must be free.          *)
ReadTargets(r) ==
    /\ At(r, "read")
    /\ IF file[th[r].t] = NoRec \/ Taken(th[r].v)
       THEN End(r)
       ELSE th' = [th EXCEPT ![r].pc = "wipe", ![r].snap = file]
    /\ UNCHANGED <<file, secret, dev, lun, vg, busy, torn, wrecked>>

(* Each command opens the resolved device, whichever LUN has it now.        *)
Under(d) == {l \in Luns : dev[l] = d}

(* A command goes through on one of the LUNs it is able on, or the request  *)
(* ends; a thin pool that is on the LUN then is destroyed.                  *)
Command(r, from, to, able, made, group) ==
    /\ At(r, from)
    /\ \/ \E l \in Under(th[r].d) \cap able :
            /\ lun' = [lun EXCEPT ![l] = made]
            /\ vg' = [vg EXCEPT ![l] = group]
            /\ wrecked' = IF lun[l] = "thin" THEN wrecked \cup {vg[l]} ELSE wrecked
            /\ Goto(r, to)
       \/ End(r) /\ UNCHANGED <<lun, vg, wrecked>>
    /\ UNCHANGED <<file, secret, dev, busy, torn>>

(* wipefs refuses a device that something holds.                            *)
Wipe(r) == Command(r, "wipe", "pvcreate", Luns \ busy, "blank", NoVG)

(* pvcreate does too; with -ff it takes a device from a volume group.       *)
PvCreate(r) == Command(r, "pvcreate", "vgcreate", Luns \ busy, "pv", NoVG)

(* vgcreate makes a physical volume of a device that shows nothing.         *)
VgCreate(r) ==
    Command(r, "vgcreate", "lvcreate",
            {l \in Luns : lun[l] \in {"blank", "raw", "alias", "pv"} /\ ~Taken(th[r].v)},
            "vg", th[r].v)

(* lvcreate works on the group by name, wherever it is; the new pool is     *)
(* active and holds its device.                                             *)
LvCreate(r) ==
    /\ At(r, "lvcreate")
    /\ \/ \E l \in Luns :
            /\ vg[l] = th[r].v /\ lun[l] = "vg" /\ dev[l] # NoDev
            /\ lun' = [lun EXCEPT ![l] = "thin"]
            /\ busy' = busy \cup {l}
            /\ wrecked' = wrecked \ {th[r].v}
            /\ Goto(r, "record")
       \/ End(r) /\ UNCHANGED <<lun, busy, wrecked>>
    /\ UNCHANGED <<file, secret, dev, vg, torn>>

(* The libvirt pool, which may fail and end the request, then the record.   *)
RecordThin(r) ==
    /\ At(r, "record")
    /\ \/ WriteBack(r, [th[r].snap[th[r].t] EXCEPT !.vg = th[r].v])
       \/ UNCHANGED <<file, torn>>
    /\ End(r)
    /\ UNCHANGED <<secret, dev, lun, vg, busy, wrecked>>

IscsiRequests ==
    \E r \in Threads, t \in Targets :
       \/ \E passwords \in SUBSET Kinds :
             SaveIscsi(r, t, passwords) \/ SaveIscsiBreaks(r, t, passwords)
       \/ DeleteIscsi(r, t)
       \/ \E pc \in {"login", "logout"} : Begin(r, t, pc)
       \/ \E l \in Luns, v \in VGs : CheckDevice(r, t, l, v)

IscsiSteps ==
    \E r \in Threads :
       \/ Login(r) \/ RecordSession(r) \/ Logout(r)
       \/ ReadTargets(r) \/ Wipe(r) \/ PvCreate(r) \/ VgCreate(r) \/ LvCreate(r)
       \/ RecordThin(r)

Next == IscsiRequests \/ IscsiSteps

Spec == Init /\ [][Next]_vars

-----------------------------------------------------------------------------
(* Properties.                                                              *)

(* A thin pool, a filesystem or a VM's disk under the LUN's own name is     *)
(* destroyed only by a request whose query failed at the check, or whose    *)
(* device was taken away since and is perhaps another LUN's: two            *)
(* initialisations of one LUN do not destroy what the first one made, and   *)
(* "deliberately conservative" (storage_phase9.py:1847) is true but for     *)
(* these, and for disks VMs name otherwise.                                 *)
DataKept ==
    [][\A l \in Luns : lun[l] \in {"fs", "raw", "thin"} /\ lun'[l] # lun[l] =>
          \E r \in Threads : /\ th[r].pc \in {"wipe", "pvcreate", "vgcreate"}
                             /\ dev[l] = th[r].d
                             /\ th[r].blind \/ th[r].gone]_vars

(* The thin pool a record names exists, on whichever LUN it was made,       *)
(* unless it was destroyed and not made again.                              *)
RecordedPoolExists ==
    \A t \in Targets :
        file[t] # NoRec /\ file[t].vg # NoVG /\ file[t].vg \notin wrecked =>
            \E l \in Luns : lun[l] = "thin" /\ vg[l] = file[t].vg

(* What a record says of its secrets is what the secrets file has, unless a *)
(* request has written back an older record, ended between the two, or      *)
(* could not remove the secrets; the next save with a password or deletion  *)
(* that goes through mends it.                                              *)
SecretsAgree ==
    \A t \in Targets \ torn :
        secret[t] = IF file[t] = NoRec THEN NoRec ELSE file[t].secret
=============================================================================
