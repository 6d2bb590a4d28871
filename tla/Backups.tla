------------------------------- MODULE Backups -------------------------------
(***************************************************************************)
(* Backups of one VM (backup_service.py): a backup is a directory with the  *)
(* VM's XML and one image per disk, and counts once metadata.json is there; *)
(* retention and deletion remove directories file by file; a restore copies *)
(* the images to new volumes and defines a VM.  Requests and background     *)
(* jobs run side by side, and the guest writes while its VM is on.  What a  *)
(* disk or an image holds is the number of the guest's last write.          *)
(***************************************************************************)
EXTENDS Naturals, FiniteSets

CONSTANTS
    Origin,      \* the VM that is backed up
    News,        \* the names it is restored under
    MaxDisk, MaxBackups, MaxWrite,   \* bounds
    Keep,        \* backup_keep_last
    Threads,
    Events,      \* what happens around the requests, see below
    NoVol, Gone

Slots  == 1..MaxDisk
Stamps == 1..MaxBackups
Names  == News \cup {Origin}
Vols   == Names \X Slots
Data   == (0..MaxWrite) \cup {Gone}

ASSUME ConstantsAssumption ==
    /\ Origin \notin News
    /\ MaxDisk \in Nat \ {0} /\ MaxBackups \in Nat \ {0} /\ MaxWrite \in Nat
    /\ Keep \in Nat \ {0}
    /\ NoVol \notin Vols /\ Gone \notin Nat
    /\ Events \subseteq {"power", "lost_disk", "restart"}

VARIABLES
    doms,    \* the disks in each VM's XML; NoVol everywhere if there is no VM
    on,      \* whether the origin runs
    disk,    \* what each volume holds, Gone if it does not exist
    backup,  \* the backup directories
    clock,   \* the stamp of the next backup
    th       \* what each request has read and where it is

vars == <<doms, on, disk, backup, clock, th>>

NoXML   == [k \in Slots |-> NoVol]
NoDir   == [meta |-> FALSE, label |-> "none", xml |-> NoXML,
            img |-> [k \in Slots |-> Gone], copied |-> {}]
Idle    == [pc |-> "idle", k |-> 1, stamp |-> 1, name |-> Origin, xml |-> NoXML,
            old |-> {}, keep |-> 0]
Labels  == {"idle", "copy", "meta", "prune", "remove", "restore"}
XMLs    == [Slots -> Vols \cup {NoVol}]
Dirs    == [meta : BOOLEAN, label : {"none", "offline", "crash"}, xml : XMLs,
            img : [Slots -> Data], copied : SUBSET Slots]
Requests == [pc : Labels, k : 1..(MaxDisk + 1), stamp : Stamps, name : Names, xml : XMLs,
             old : SUBSET Stamps, keep : 0..Keep]

(* Directories, volumes and requests are what the code makes of them.       *)
TypeOK ==
    /\ doms \in [Names -> XMLs]
    /\ on \in BOOLEAN
    /\ disk \in [Vols -> Data]
    /\ backup \in [Stamps -> Dirs]
    /\ \A s \in Stamps : backup[s].meta => s < clock /\ backup[s].label # "none"
    /\ clock \in 1..(MaxBackups + 1)
    /\ th \in [Threads -> Requests]

Init ==
    /\ doms = [n \in Names |-> IF n = Origin THEN [k \in Slots |-> <<Origin, k>>]
                               ELSE NoXML]
    /\ on = FALSE
    /\ disk = [v \in Vols |-> IF v[1] = Origin THEN 0 ELSE Gone]
    /\ backup = [s \in Stamps |-> NoDir]
    /\ clock = 1
    /\ th = [t \in Threads |-> Idle]

At(t, l)   == th[t].pc = l
Goto(t, r) == th' = [th EXCEPT ![t] = r]
Return(t)  == Goto(t, Idle)
Exists(n)  == doms[n] # NoXML
Listed     == {s \in Stamps : backup[s].meta}

-----------------------------------------------------------------------------
(* create_backup up to the first disk: the state of the VM is read once.    *)
Create(t, requireShutdown) ==
    /\ At(t, "idle") /\ clock \in Stamps
    /\ ~(requireShutdown /\ on)
    /\ backup' = [backup EXCEPT ![clock] =
                    [NoDir EXCEPT !.label = IF on THEN "crash" ELSE "offline",
                                  !.xml = doms[Origin]]]
    /\ clock' = clock + 1
    /\ Goto(t, [Idle EXCEPT !.pc = "copy", !.stamp = clock])
    /\ UNCHANGED <<doms, on, disk>>

(* One disk: a source that is missing is passed over; an error ends the     *)
(* backup and leaves its directory, which nothing lists.                    *)
CopyDisk(t) ==
    LET s == th[t].stamp
        k == th[t].k
        source == backup[s].xml[k] IN
    /\ At(t, "copy")
    /\ \/ /\ disk[source] = Gone
          /\ UNCHANGED backup
       \/ /\ disk[source] # Gone
          /\ backup' = [backup EXCEPT ![s].img[k] = disk[source], ![s].copied = @ \cup {k}]
    /\ Goto(t, [th[t] EXCEPT !.k = k + 1, !.pc = IF k = MaxDisk THEN "meta" ELSE "copy"])
    /\ UNCHANGED <<doms, on, disk, clock>>

CopyFails(t) ==
    /\ At(t, "copy")
    /\ Return(t)
    /\ UNCHANGED <<doms, on, disk, backup, clock>>

(* A mutant of WriteMetadata: it goes to the directory of the next backup.  *)
WriteMetadataNext(t) ==
    /\ At(t, "meta")
    /\ backup' = [backup EXCEPT ![clock].meta = TRUE]
    /\ Goto(t, [Idle EXCEPT !.pc = "prune", !.keep = Keep])
    /\ UNCHANGED <<doms, on, disk, clock>>

(* metadata.json; _prune then goes by the configured retention.             *)
WriteMetadata(t) ==
    /\ At(t, "meta")
    /\ backup' = [backup EXCEPT ![th[t].stamp].meta = TRUE]
    /\ Goto(t, [Idle EXCEPT !.pc = "prune", !.keep = Keep])
    /\ UNCHANGED <<doms, on, disk, clock>>

-----------------------------------------------------------------------------
(* The form of the backups page asks for a retention of its own.            *)
PruneBackups(t, keep) ==
    /\ At(t, "idle")
    /\ Goto(t, [Idle EXCEPT !.pc = "prune", !.keep = keep])
    /\ UNCHANGED <<doms, on, disk, backup, clock>>

(* A mutant of Outdated: the list is sorted the other way round.            *)
OutdatedFirst(keep) ==
    {s \in Listed : Cardinality({r \in Listed : r < s}) >= keep}

(* all_backups[keep:], the newest first                                     *)
Outdated(keep) == {s \in Listed : Cardinality({r \in Listed : r > s}) >= keep}

PruneList(t) ==
    /\ At(t, "prune")
    /\ Goto(t, [th[t] EXCEPT !.pc = "remove", !.old = Outdated(th[t].keep)])
    /\ UNCHANGED <<doms, on, disk, backup, clock>>

(* delete_backup *)
DeleteBackup(t, s) ==
    /\ At(t, "idle")
    /\ s \in Listed
    /\ Goto(t, [Idle EXCEPT !.pc = "remove", !.old = {s}])
    /\ UNCHANGED <<doms, on, disk, backup, clock>>

(* rmtree: the files go one by one, in the order of the directory.          *)
Remove(t, s) ==
    /\ At(t, "remove") /\ s \in th[t].old
    /\ \/ backup[s].meta /\ backup' = [backup EXCEPT ![s].meta = FALSE]
       \/ \E k \in Slots : backup[s].img[k] # Gone
                           /\ backup' = [backup EXCEPT ![s].img[k] = Gone]
    /\ UNCHANGED <<doms, on, disk, clock, th>>

(* Nothing is left of the directory.                                        *)
Removed(t, s) ==
    /\ At(t, "remove") /\ s \in th[t].old
    /\ ~backup[s].meta /\ \A k \in Slots : backup[s].img[k] = Gone
    /\ Goto(t, [th[t] EXCEPT !.old = @ \ {s}])
    /\ UNCHANGED <<doms, on, disk, backup, clock>>

RemoveDone(t) ==
    /\ At(t, "remove") /\ th[t].old = {}
    /\ Return(t)
    /\ UNCHANGED <<doms, on, disk, backup, clock>>

-----------------------------------------------------------------------------
(* restore_as_new_vm: metadata and XML are read.                            *)
Restore(t, s, n) ==
    /\ At(t, "idle")
    /\ s \in Listed
    /\ Goto(t, [Idle EXCEPT !.pc = "restore", !.stamp = s, !.name = n,
                            !.xml = backup[s].xml])
    /\ UNCHANGED <<doms, on, disk, backup, clock>>

(* The k-th of the disks that the backup holds an image of: there is one.   *)
Nth(S, k) == {j \in S : Cardinality({i \in S : i <= j}) = k}

(* A mutant of RestoreDisk: an image that is missing is passed over.        *)
RestoreDiskAny(t) ==
    LET s == th[t].stamp
        k == th[t].k
        v == <<th[t].name, k>> IN
    /\ At(t, "restore") /\ k <= Cardinality(backup[s].copied)
    /\ disk[v] = Gone
    /\ \E j \in Nth(backup[s].copied, k) :
          IF backup[s].img[j] = Gone
            THEN /\ Goto(t, [th[t] EXCEPT !.k = k + 1])
                 /\ UNCHANGED disk
            ELSE /\ Goto(t, [th[t] EXCEPT !.k = k + 1, !.xml[k] = v])
                 /\ disk' = [disk EXCEPT ![v] = backup[s].img[j]]
    /\ UNCHANGED <<doms, on, backup, clock>>

(* The k-th disk of the XML gets a volume with the k-th image.              *)
RestoreDisk(t) ==
    LET s == th[t].stamp
        k == th[t].k
        v == <<th[t].name, k>> IN
    /\ At(t, "restore") /\ k <= Cardinality(backup[s].copied)
    /\ disk[v] = Gone
    /\ \E j \in Nth(backup[s].copied, k) :
          /\ backup[s].img[j] # Gone
          /\ disk' = [disk EXCEPT ![v] = backup[s].img[j]]
    /\ Goto(t, [th[t] EXCEPT !.k = k + 1, !.xml[k] = v])
    /\ UNCHANGED <<doms, on, backup, clock>>

(* No image, a volume of that name, or an error of qemu-img, which leaves   *)
(* the volume behind.                                                       *)
RestoreFails(t) ==
    LET v == <<th[t].name, th[t].k>> IN
    /\ At(t, "restore") /\ th[t].k <= Cardinality(backup[th[t].stamp].copied)
    /\ \/ UNCHANGED disk
       \/ disk[v] = Gone /\ disk' = [disk EXCEPT ![v] = 0]
    /\ Return(t)
    /\ UNCHANGED <<doms, on, backup, clock>>

(* The images are used up; whether the name is free is asked only now.      *)
RestoreDefine(t) ==
    LET n == th[t].name IN
    /\ At(t, "restore") /\ th[t].k > Cardinality(backup[th[t].stamp].copied)
    /\ doms' = IF Exists(n) THEN doms ELSE [doms EXCEPT ![n] = th[t].xml]
    /\ Return(t)
    /\ UNCHANGED <<on, disk, backup, clock>>

-----------------------------------------------------------------------------
Power ==
    /\ "power" \in Events
    /\ on' = ~on
    /\ UNCHANGED <<doms, disk, backup, clock, th>>

(* The guest writes to all its disks.                                       *)
GuestWrite ==
    /\ on
    /\ \A k \in Slots : disk[<<Origin, k>>] \notin {Gone, MaxWrite}
    /\ disk' = [v \in Vols |-> IF v[1] = Origin THEN disk[v] + 1 ELSE disk[v]]
    /\ UNCHANGED <<doms, on, backup, clock, th>>

(* A disk of the VM that is off disappears, or is on storage that is away.  *)
LoseDisk(k) ==
    /\ "lost_disk" \in Events
    /\ ~on
    /\ disk' = [disk EXCEPT ![<<Origin, k>>] = Gone]
    /\ UNCHANGED <<doms, on, backup, clock, th>>

(* AtlasVM starts again: its requests and daemon threads are gone.          *)
AtlasRestarts ==
    /\ "restart" \in Events
    /\ th' = [t \in Threads |-> Idle]
    /\ UNCHANGED <<doms, on, disk, backup, clock>>

Request(t) ==
    \/ \E r \in BOOLEAN : Create(t, r)
    \/ CopyDisk(t) \/ CopyFails(t) \/ WriteMetadata(t)
    \/ \E keep \in 1..Keep : PruneBackups(t, keep)
    \/ PruneList(t)
    \/ \E s \in Stamps : DeleteBackup(t, s) \/ Remove(t, s) \/ Removed(t, s)
    \/ RemoveDone(t)
    \/ \E s \in Stamps, n \in News : Restore(t, s, n)
    \/ RestoreDisk(t) \/ RestoreFails(t) \/ RestoreDefine(t)

Next ==
    \/ \E t \in Threads : Request(t)
    \/ Power \/ GuestWrite
    \/ \E k \in Slots : LoseDisk(k)
    \/ AtlasRestarts

Spec == Init /\ [][Next]_vars

-----------------------------------------------------------------------------
(* docs/PHASE_TEN_DESIGN.md:53, a restore "recreates disks in the selected  *)
(* storage pool": a restored VM has disks of its own, and only those.       *)
RestoredApart ==
    \A n \in News, k \in Slots : Exists(n) => doms[n][k] = <<n, k>>

(* docs/PHASE_TEN_DESIGN.md:59, retention keeps the most recent backups: it *)
(* removes one only if that many newer ones are listed.                     *)
KeepsRecent ==
    \A t \in Threads, s \in Stamps :
       Remove(t, s) /\ backup[s].meta /\ th[t].keep > 0 =>
          Cardinality({r \in Listed : r > s}) >= th[t].keep

(* A backup that is listed and that nobody is removing has an image of      *)
(* every disk it says it has copied.                                        *)
ListedWhole ==
    \A s \in Listed : (\A t \in Threads : s \notin th[t].old) =>
       \A k \in backup[s].copied : backup[s].img[k] # Gone

=============================================================================
