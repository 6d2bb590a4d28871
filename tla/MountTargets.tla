----------------------------- MODULE MountTargets -----------------------------
(***************************************************************************)
(* NFS and SMB targets (storage_phase9.py): a record in a file of its kind, *)
(* a systemd mount unit named after the mount path, a credentials file for  *)
(* SMB, and a libvirt pool on the mounted directory.  A record is saved,    *)
(* applied, unmounted and deleted in any order; servers fail to answer,     *)
(* mounts are busy, systemctl is refused, a file cannot be removed, pools   *)
(* cannot be defined, AtlasVM dies in the middle, the host reboots.  A      *)
(* request is one step, with every place where it may end among its         *)
(* outcomes; two requests that rewrite one file are a hazard, listed.       *)
(***************************************************************************)
EXTENDS FiniteSets

CONSTANTS
    Nfs, Smb,   \* target names
    Exports,    \* what is mounted: an NFS server with its export, ...
    Shares,     \* ... an SMB server with its share
    Paths,      \* mount paths; a unit's name is its path escaped
    WithPool,   \* the targets saved with "create libvirt pool"
    NoRec, NoSrc, Guest

Targets == Nfs \cup Smb
Srcs    == Exports \cup Shares

(* cred: the record names its credentials file, or it has a user name and   *)
(* no such file, or neither.  says: what an apply or an unmount has last    *)
(* recorded of the mount; "none" when it was not mounted, or no word yet.   *)
Records == [src : Srcs, path : Paths, cred : {"file", "missing", "none"},
            says : {"none", "mounted", "unmounted"}]

ConstantsAssumption ==
    /\ Nfs \cap Smb = {} /\ Guest \notin Targets /\ WithPool \subseteq Targets
    /\ NoSrc \notin Srcs /\ NoRec \notin Records

VARIABLES
    rec,       \* the records of both files
    credfile,  \* whether a target's credentials file exists
    unit,      \* the mount units
    mnt,       \* the paths something is mounted on
    pool,      \* the targets whose libvirt pool is defined
    shared,    \* targets another record has named the path of since they were
               \* saved (ghost)
    half,      \* targets whose last apply or unmount ended before the record,
               \* or was refused by systemctl enable or disable (ghost)
    torn       \* targets whose credentials were changed and the record was
               \* not, or the other way round (ghost)

vars == <<rec, credfile, unit, mnt, pool, shared, half, torn>>

NoUnit == [what |-> NoSrc, cred |-> Guest, enabled |-> FALSE]

(* Records, units, mounts and pools are what the code makes of them.        *)
TypeOK ==
    /\ rec \in [Targets -> Records \cup {NoRec}]
    /\ \A t \in Nfs : rec[t] # NoRec => rec[t].cred = "none"
    /\ credfile \in [Smb -> BOOLEAN]
    /\ unit \in [Paths -> [what : Srcs \cup {NoSrc}, cred : Smb \cup {Guest},
                             enabled : BOOLEAN]]
    /\ \A p \in Paths : unit[p].enabled => unit[p].what # NoSrc
    /\ mnt \subseteq Paths
    /\ pool \subseteq Targets
    /\ shared \subseteq Targets /\ half \subseteq Targets /\ torn \subseteq Smb

Init ==
    /\ rec = [t \in Targets |-> NoRec]
    /\ credfile = [t \in Smb |-> FALSE]
    /\ unit = [p \in Paths |-> NoUnit]
    /\ mnt = {}
    /\ pool = {}
    /\ shared = {} /\ half = {} /\ torn = {}

-----------------------------------------------------------------------------
(* Saving: a record is written anew, so what an earlier apply had recorded  *)
(* (systemd_unit, mounted) is gone, and units and mounts stay as they are.  *)

Saved(src, path, cred) == [src |-> src, path |-> path, cred |-> cred, says |-> "none"]

Names(t) == rec[t] # NoRec /\ rec[t].cred = "file"

Put(t, r) ==
    LET others == {s \in Targets \ {t} : rec[s] # NoRec /\ rec[s].path = r.path} IN
    /\ rec' = [rec EXCEPT ![t] = r]
    /\ shared' = IF others = {} THEN shared \ {t} ELSE shared \cup others \cup {t}
    /\ half' = half \ {t}

Drop(t) ==
    /\ rec' = [rec EXCEPT ![t] = NoRec]
    /\ shared' = shared \ {t} /\ half' = half \ {t}

(* save_nfs_target                                                          *)
SaveNfs(t, src, path) ==
    /\ Put(t, Saved(src, path, "none"))
    /\ UNCHANGED <<credfile, unit, mnt, pool, torn>>

Credentials(user, kept) == IF kept THEN "file" ELSE IF user THEN "missing" ELSE "none"

(* A mutant of SaveSmb: without a password the credentials are forgotten.   *)
SaveSmbForgets(t, src, path, user, password) ==
    /\ Put(t, Saved(src, path, Credentials(user, password)))
    /\ credfile' = [credfile EXCEPT ![t] = @ \/ password]
    /\ UNCHANGED <<unit, mnt, pool, torn>>

(* save_smb_target: a password is written to the credentials file first;    *)
(* without one the record keeps the file it had.                            *)
SaveSmb(t, src, path, user, password) ==
    /\ Put(t, Saved(src, path, Credentials(user, password \/ Names(t))))
    /\ credfile' = [credfile EXCEPT ![t] = @ \/ password]
    /\ torn' = IF password THEN torn \ {t} ELSE torn
    /\ UNCHANGED <<unit, mnt, pool>>

(* ... and the save may end between the two.                                *)
SaveSmbBreaks(t) ==
    /\ credfile' = [credfile EXCEPT ![t] = TRUE]
    /\ torn' = IF Names(t) THEN torn ELSE torn \cup {t}
    /\ UNCHANGED <<rec, unit, mnt, pool, shared, half>>

(* delete_nfs_target: nothing but the record.                               *)
DeleteNfs(t) ==
    /\ rec[t] # NoRec
    /\ Drop(t)
    /\ UNCHANGED <<credfile, unit, mnt, pool, torn>>

(* delete_smb_target: the credentials file the record names, then the       *)
(* record; a unit that names the file stays.  That the file cannot be       *)
(* removed is ignored, and the request may end before the record.           *)
DeleteSmb(t) ==
    /\ rec[t] # NoRec
    /\ \E removed, dropped \in BOOLEAN :
         /\ removed \/ dropped
         /\ credfile' = [credfile EXCEPT ![t] = @ /\ ~(removed /\ Names(t))]
         /\ IF dropped THEN Drop(t) ELSE UNCHANGED <<rec, shared, half>>
         /\ torn' = IF ~Names(t) THEN torn
                    ELSE IF removed /\ dropped THEN torn \ {t} ELSE torn \cup {t}
    /\ UNCHANGED <<unit, mnt, pool>>

-----------------------------------------------------------------------------
(* systemd: a mount fails when the server does not answer, or when the      *)
(* credentials file is not there; what is busy stays mounted.               *)

Mountable(u) == u.what # NoSrc /\ (u.cred # Guest => credfile[u.cred])

(* write_nfs_systemd_mount, write_smb_systemd_mount                         *)
NfsUnit(r) == [what |-> r.src, cred |-> Guest, enabled |-> TRUE]
SmbUnit(t, r) == [what |-> r.src, cred |-> IF r.cred = "file" THEN t ELSE Guest, enabled |-> TRUE]

(* A record that says nothing of a mount is not contradicted.               *)
Halve(t) == half' = IF rec'[t].says = "none" THEN half \ {t} ELSE half \cup {t}

(* The unit is written, enabled and restarted, and what systemctl enable    *)
(* answers is not looked at: refused, the unit is enabled or not as it was. *)
(* findmnt tells whether anything is mounted; then the pool, and the record *)
(* last.  A pool of that name is taken as it is (ensure_libvirt_dir_pool).  *)
(* The request ends early when the pool cannot be defined, and anywhere     *)
(* after the unit when AtlasVM dies.                                        *)
MountAndRecord(t, u) ==
    LET p == rec[t].path IN
    \E enabled \in {TRUE, unit[p].enabled} :
       /\ unit' = [unit EXCEPT ![p] = [u EXCEPT !.enabled = enabled]]
       /\ mnt' \in {mnt, mnt \ {p}} \cup (IF Mountable(u) THEN {mnt \cup {p}} ELSE {})
       /\ LET up   == p \in mnt'
              made == IF up /\ t \in WithPool THEN pool \cup {t} ELSE pool
          IN \/ /\ rec' = [rec EXCEPT ![t].says = IF up THEN "mounted" ELSE "none"]
                /\ IF enabled THEN half' = half \ {t} ELSE Halve(t)
                /\ pool' = made
             \/ /\ UNCHANGED rec
                /\ Halve(t)
                /\ pool' \in {pool, made}
       /\ UNCHANGED <<credfile, shared, torn>>

(* apply_nfs_target *)
ApplyNfs(t) ==
    /\ rec[t] # NoRec
    /\ MountAndRecord(t, NfsUnit(rec[t]))

(* apply_smb_target: a user name without credentials is refused.            *)
ApplySmb(t) ==
    /\ rec[t] # NoRec
    /\ rec[t].cred # "missing"
    /\ MountAndRecord(t, SmbUnit(t, rec[t]))

(* systemctl disable --now, whose result is not looked at: the unit may     *)
(* stay enabled, the mount may stay, or both.  The record follows, unless   *)
(* AtlasVM dies before.                                                     *)
DisableAndRecord(t) ==
    LET p == rec[t].path IN
    /\ \E enabled \in {FALSE, unit[p].enabled} :
         /\ unit' = [unit EXCEPT ![p].enabled = enabled]
         /\ \/ /\ rec' = [rec EXCEPT ![t].says = "unmounted"]
               /\ IF enabled THEN Halve(t) ELSE half' = half \ {t}
            \/ UNCHANGED rec /\ Halve(t)
    /\ mnt' \in {mnt, mnt \ {p}}
    /\ UNCHANGED <<credfile, pool, shared, torn>>

(* unmount_nfs_target, unmount_smb_target *)
UnmountNfs(t) == rec[t] # NoRec /\ DisableAndRecord(t)
UnmountSmb(t) == rec[t] # NoRec /\ DisableAndRecord(t)

(* The host comes up with its enabled units mounted, as far as servers      *)
(* answer.                                                                  *)
Reboot ==
    /\ mnt' \in SUBSET {p \in Paths : unit[p].enabled /\ Mountable(unit[p])}
    /\ UNCHANGED <<rec, credfile, unit, pool, shared, half, torn>>

NfsRequests ==
    \E t \in Nfs :
       \/ \E src \in Exports, p \in Paths : SaveNfs(t, src, p)
       \/ ApplyNfs(t) \/ UnmountNfs(t) \/ DeleteNfs(t)

SmbRequests ==
    \E t \in Smb :
       \/ \E src \in Shares, p \in Paths, user \in BOOLEAN : \E password \in {FALSE, user} :
             SaveSmb(t, src, p, user, password)
       \/ SaveSmbBreaks(t) \/ ApplySmb(t) \/ UnmountSmb(t) \/ DeleteSmb(t)

Next == NfsRequests \/ SmbRequests \/ Reboot

Spec == Init /\ [][Next]_vars

-----------------------------------------------------------------------------
(* Properties, for targets whose path no other record has named.            *)

Own(t) == rec[t] # NoRec /\ t \notin shared

(* A record that says "mounted" is true of the next boot, whatever was      *)
(* saved, applied or deleted before: its unit mounts the record's source    *)
(* with the record's credentials, its pool is defined, and the unit is      *)
(* enabled, unless systemctl refused to or a request ended at half.         *)
RecordTellsBoot ==
    \A t \in Targets : Own(t) /\ rec[t].says = "mounted" =>
        /\ t \notin half => unit[rec[t].path].enabled
        /\ unit[rec[t].path].what = rec[t].src
        /\ Names(t) <=> unit[rec[t].path].cred # Guest
        /\ t \in WithPool => t \in pool

(* What an operator has unmounted does not come back by itself, unless      *)
(* systemctl refused to disable it, or a later apply has ended after the    *)
(* unit and before the record.                                              *)
UnmountedStaysDown ==
    \A t \in Targets \ half :
        Own(t) /\ rec[t].says = "unmounted" => ~unit[rec[t].path].enabled

(* A record names a credentials file when there is one, and only then: a    *)
(* password saved once survives later saves, and none is left behind by a   *)
(* target that is deleted, but where a request ended between the two or     *)
(* could not remove the file; the next one that goes through mends it.      *)
SecretsKept ==
    \A t \in Smb \ torn : credfile[t] <=> Names(t)

(* What records say of mounts, units and credentials is so.                 *)
MountsRight == RecordTellsBoot /\ UnmountedStaysDown /\ SecretsKept
=============================================================================
