---------------------------- MODULE BackupsProofs ----------------------------
(***************************************************************************)
(* Proofs about backups: directories, volumes and requests stay in range;   *)
(* however requests overlap, a restored VM has disks of its own and a       *)
(* listed backup its images; and one request at a time, retention keeps the *)
(* most recent backups.                                                     *)
(***************************************************************************)
EXTENDS MCBackups, FiniteSetTheorems, WellFoundedInduction, TLAPS

(* The disks of the VM that is backed up: its XML never changes.            *)
Full == [k \in Slots |-> <<Origin, k>>]

Creating(t) == th[t].pc \in {"copy", "meta"}

(* What a request works on, whatever the others do.                         *)
Doing(t) ==
    /\ Creating(t) => /\ backup[th[t].stamp].xml = Full
                      /\ backup[th[t].stamp].label # "none"
    /\ Creating(t) \/ th[t].pc = "restore" => th[t].stamp < clock
    /\ th[t].pc = "copy" => th[t].k \in Slots
    /\ th[t].pc = "restore" => th[t].name \in News
    /\ th[t].old # {} => th[t].pc = "remove"
    /\ \A s \in th[t].old : s < clock

Sound == TypeOK /\ doms[Origin] = Full /\ \A t \in Threads : Doing(t)

LEMMA Constants ==
    /\ IsFiniteSet(Slots) /\ Cardinality(Slots) = MaxDisk
    /\ IsFiniteSet(Stamps)
    /\ Slots \subseteq Nat /\ Stamps \subseteq Nat
    /\ 1 \in Stamps /\ 1 \in 1..(MaxDisk + 1) /\ Origin \in Names
    /\ Full \in XMLs /\ NoXML \in XMLs
    /\ MaxDisk \in Nat /\ MaxBackups \in Nat /\ Keep \in Nat
<1>1. MaxDisk \in Nat \ {0} /\ MaxBackups \in Nat \ {0} /\ Keep \in Nat
  BY ConstantsAssumption
<1>2. IsFiniteSet(Slots) /\ Cardinality(Slots) = MaxDisk
  <2>1. IsFiniteSet(1..MaxDisk) /\ Cardinality(1..MaxDisk) = MaxDisk - 1 + 1
    BY <1>1, FS_Interval
  <2> QED
    BY <1>1, <2>1 DEF Slots
<1>3. IsFiniteSet(Stamps)
  BY <1>1, FS_Interval DEF Stamps
<1>4. Full \in XMLs /\ NoXML \in XMLs /\ Origin \in Names
  BY DEF Full, NoXML, XMLs, Vols, Names
<1> QED
  BY <1>1, <1>2, <1>3, <1>4 DEF Slots, Stamps

LEMMA IdleTyped == Idle \in Requests
  BY Constants, ConstantsAssumption DEF Idle, Requests, Labels

LEMMA SoundInit == Init => Sound
<1> SUFFICES ASSUME Init PROVE Sound
  OBVIOUS
<1>1. doms \in [Names -> XMLs] /\ doms[Origin] = Full
  BY Constants DEF Init, Full
<1>2. disk \in [Vols -> Data]
  BY ConstantsAssumption DEF Init, Data
<1>3. NoDir \in Dirs
  BY Constants DEF NoDir, Dirs, Data
<1>4. /\ th \in [Threads -> Requests] /\ backup \in [Stamps -> Dirs]
      /\ \A t \in Threads : th[t] = Idle
      /\ \A s \in Stamps : backup[s] = NoDir
  BY <1>3, IdleTyped DEF Init
<1>5. ASSUME NEW t \in Threads PROVE Doing(t)
  <2>1. th[t].pc = "idle" /\ th[t].old = {}
    BY <1>4 DEF Idle
  <2> QED
    BY <2>1 DEF Doing, Creating
<1>6. \A s \in Stamps : ~backup[s].meta
  BY <1>4 DEF NoDir
<1>7. on \in BOOLEAN /\ clock \in 1..(MaxBackups + 1)
  <2>1. on = FALSE /\ clock = 1
    BY DEF Init
  <2>2. 1 \in 1..(MaxBackups + 1)
    BY Constants
  <2> QED
    BY <2>1, <2>2
<1> QED
  BY <1>1, <1>2, <1>4, <1>5, <1>6, <1>7 DEF Sound, TypeOK

(* A step of request t: what it sets is in range, and XML and label of what *)
(* there is stay as they are.                                               *)
LEMMA MoveStep ==
    ASSUME Sound, NEW t \in Threads, NEW k \in Requests, Goto(t, k), Doing(t)',
           doms' \in [Names -> XMLs], doms'[Origin] = Full, on' \in BOOLEAN,
           disk' \in [Vols -> Data], backup' \in [Stamps -> Dirs],
           clock' \in 1..(MaxBackups + 1), clock <= clock',
           \A s \in Stamps : s < clock =>
              backup'[s].xml = backup[s].xml /\ backup'[s].label = backup[s].label,
           \A s \in Stamps : backup'[s].meta => s < clock' /\ backup'[s].label # "none"
    PROVE  Sound'
<1>1. th \in [Threads -> Requests] /\ clock \in 1..(MaxBackups + 1)
  BY DEF Sound, TypeOK
<1>2. th' \in [Threads -> Requests]
  BY <1>1 DEF Goto
<1>3. TypeOK'
  BY <1>2 DEF TypeOK
<1>4. ASSUME NEW u \in Threads, u # t PROVE Doing(u)'
  <2>1. th'[u] = th[u] /\ Doing(u)
    BY <1>1, <1>4 DEF Goto, Sound
  <2>2. th[u].stamp \in Stamps /\ th[u].old \subseteq Stamps /\ clock \in Int /\ clock' \in Int
    BY <1>1, Constants DEF Requests
  <2>3. \A s \in Stamps : s < clock => s < clock'
    BY <2>2, Constants
  <2> QED
    BY <2>1, <2>2, <2>3 DEF Doing, Creating
<1>5. \A u \in Threads : Doing(u)'
  BY <1>4
<1> QED
  BY <1>3, <1>5 DEF Sound

(* A step that leaves volumes, directories and the clock alone.             *)
LEMMA QuietStep ==
    ASSUME Sound, NEW t \in Threads, NEW k \in Requests, Goto(t, k), Doing(t)',
           UNCHANGED <<doms, on, disk, backup, clock>>
    PROVE  Sound'
<1>1. clock \in Int
  BY Constants DEF Sound, TypeOK
<1> QED
  BY <1>1, MoveStep DEF Sound, TypeOK

LEMMA IdleDoes ==
    ASSUME NEW t \in Threads, th'[t] = Idle
    PROVE  Doing(t)'
  BY DEF Doing, Creating, Idle

LEMMA CopiedBound ==
    ASSUME Sound, NEW s \in Stamps
    PROVE  Cardinality(backup[s].copied) \in Nat /\ Cardinality(backup[s].copied) <= MaxDisk
<1>1. backup[s].copied \subseteq Slots
  BY DEF Sound, TypeOK, Dirs
<1> QED
  BY <1>1, Constants, FS_Subset, FS_CardinalityType

-----------------------------------------------------------------------------
(* Every action keeps Sound.                                                *)
LEMMA CreateSound ==
    ASSUME Sound, NEW t \in Threads, NEW r \in BOOLEAN, Create(t, r)
    PROVE  Sound'
<1> DEFINE d == [NoDir EXCEPT !.label = IF on THEN "crash" ELSE "offline",
                              !.xml = doms[Origin]]
           q == [Idle EXCEPT !.pc = "copy", !.stamp = clock]
<1>1. clock \in Stamps /\ clock \in 1..(MaxBackups + 1) /\ clock' = clock + 1
  BY DEF Create, Sound, TypeOK
<1>2. d \in Dirs /\ ~d.meta /\ d.label \in {"offline", "crash"} /\ d.xml = Full
  BY Constants DEF NoDir, Dirs, Data, Sound
<1>3. q \in Requests /\ q.pc = "copy" /\ q.stamp = clock /\ q.k = 1 /\ q.old = {}
  BY <1>1, IdleTyped DEF Idle, Requests, Labels
<1>4. backup' = [backup EXCEPT ![clock] = d] /\ Goto(t, q)
  BY DEF Create
<1> HIDE DEF d, q
<1>5. backup' \in [Stamps -> Dirs] /\ backup'[clock] = d
  BY <1>1, <1>2, <1>4 DEF Sound, TypeOK
<1>6. \A s \in Stamps : s # clock => backup'[s] = backup[s]
  BY <1>4 DEF Sound, TypeOK
<1>7. th'[t] = q
  BY <1>4 DEF Goto, Sound, TypeOK
<1>8. 1 \in Slots
  BY ConstantsAssumption DEF Slots
<1>9. clock \in Int /\ MaxBackups \in Nat
  BY <1>1, Constants
<1>10. Doing(t)'
  BY <1>1, <1>2, <1>3, <1>5, <1>7, <1>8, <1>9 DEF Doing, Creating
<1>11. clock' \in 1..(MaxBackups + 1) /\ clock <= clock'
  BY <1>1, <1>9 DEF Stamps
<1>12. \A s \in Stamps : s < clock => s # clock
  BY <1>9, Constants
<1>13. \A s \in Stamps : backup'[s].meta => s < clock' /\ backup'[s].label # "none"
  <2> TAKE s \in Stamps
  <2>1. CASE s = clock
    BY <1>2, <1>5, <2>1
  <2>2. CASE s # clock
    <3>1. backup'[s] = backup[s]
      BY <1>6, <2>2
    <3>2. s \in Int /\ clock \in Int
      BY <1>9, Constants
    <3> QED
      BY <1>1, <3>1, <3>2 DEF Sound, TypeOK
  <2> QED
    BY <2>1, <2>2
<1>14. UNCHANGED <<doms, on, disk>>
  BY DEF Create
<1> QED
  BY <1>3, <1>4, <1>5, <1>6, <1>10, <1>11, <1>12, <1>13, <1>14, MoveStep DEF Sound, TypeOK

LEMMA CopyDiskSound ==
    ASSUME Sound, NEW t \in Threads, CopyDisk(t)
    PROVE  Sound'
<1> DEFINE s == th[t].stamp
           k == th[t].k
           q == [th[t] EXCEPT !.k = k + 1, !.pc = IF k = MaxDisk THEN "meta" ELSE "copy"]
<1>1. /\ th[t] \in Requests /\ th[t].pc = "copy" /\ Doing(t)
      /\ s \in Stamps /\ k \in Slots /\ s < clock /\ backup[s] \in Dirs
      /\ backup[s].xml = Full /\ backup[s].label # "none" /\ th[t].old = {}
  BY DEF CopyDisk, At, Sound, TypeOK, Requests, Doing, Creating
<1>2. backup[s].xml[k] = <<Origin, k>> /\ <<Origin, k>> \in Vols
  BY <1>1 DEF Full, Vols, Names
<1>3. /\ q \in Requests /\ q.stamp = s /\ q.old = th[t].old /\ q.k = k + 1
      /\ q.pc \in {"copy", "meta"} /\ (q.pc = "copy" => k # MaxDisk)
  <2>1. k + 1 \in 1..(MaxDisk + 1)
    BY <1>1, Constants DEF Slots
  <2>2. k = MaxDisk \/ k # MaxDisk
    OBVIOUS
  <2> QED
    BY <1>1, <2>1, <2>2 DEF Requests, Labels
<1>4. Goto(t, q) /\ UNCHANGED <<doms, on, disk, clock>>
  BY DEF CopyDisk
<1>5. \/ UNCHANGED backup
      \/ backup' = [backup EXCEPT ![s].img[k] = disk[<<Origin, k>>], ![s].copied = @ \cup {k}]
  BY <1>2 DEF CopyDisk
<1>6. disk[<<Origin, k>>] \in Data
  BY <1>2 DEF Sound, TypeOK
<1> DEFINE d == [backup[s] EXCEPT !.img = [@ EXCEPT ![k] = disk[<<Origin, k>>]],
                                  !.copied = @ \cup {k}]
<1>7. d \in Dirs /\ d.xml = backup[s].xml /\ d.label = backup[s].label /\ d.meta = backup[s].meta
  BY <1>1, <1>6 DEF Dirs
<1>8. backup \in [Stamps -> Dirs]
  BY DEF Sound, TypeOK
<1>9. UNCHANGED backup \/ backup' = [backup EXCEPT ![s] = d]
  BY <1>5, <1>8
<1> HIDE DEF d
<1>10. /\ backup' \in [Stamps -> Dirs]
       /\ \A r \in Stamps : /\ backup'[r].xml = backup[r].xml
                            /\ backup'[r].label = backup[r].label
                            /\ backup'[r].meta = backup[r].meta
  BY <1>1, <1>7, <1>8, <1>9
<1> HIDE DEF q
<1>11. th'[t] = q
  BY <1>4 DEF Goto, Sound, TypeOK
<1>12. q.pc = "copy" => q.k \in Slots
  BY <1>1, <1>3, Constants DEF Slots
<1>13. Doing(t)'
  BY <1>1, <1>3, <1>4, <1>10, <1>11, <1>12 DEF Doing, Creating
<1>14. clock \in Int
  BY Constants DEF Sound, TypeOK
<1> QED
  BY <1>3, <1>4, <1>10, <1>13, <1>14, MoveStep DEF Sound, TypeOK

LEMMA BackHome ==
    ASSUME Sound, NEW t \in Threads, Return(t)
    PROVE  Goto(t, Idle) /\ Idle \in Requests /\ th'[t] = Idle /\ Doing(t)'
<1>1. Goto(t, Idle) /\ Idle \in Requests
  BY IdleTyped DEF Return
<1>2. th'[t] = Idle
  BY <1>1 DEF Goto, Sound, TypeOK
<1> QED
  BY <1>1, <1>2, IdleDoes

LEMMA PruneMove ==
    ASSUME Sound, NEW t \in Threads, NEW keep \in 1..Keep,
           Goto(t, [Idle EXCEPT !.pc = "prune", !.keep = keep])
    PROVE  [Idle EXCEPT !.pc = "prune", !.keep = keep] \in Requests /\ Doing(t)'
<1> DEFINE q == [Idle EXCEPT !.pc = "prune", !.keep = keep]
<1>1. q \in Requests /\ q.pc = "prune" /\ q.old = {}
  <2>1. keep \in 0..Keep
    BY Constants
  <2> QED
    BY <2>1, IdleTyped DEF Idle, Requests, Labels
<1>2. th'[t] = q
  BY DEF Goto, Sound, TypeOK
<1> HIDE DEF q
<1>3. Doing(t)'
  BY <1>1, <1>2 DEF Doing, Creating
<1> QED
  BY <1>1, <1>3 DEF q

LEMMA WriteMetadataSound ==
    ASSUME Sound, NEW t \in Threads, WriteMetadata(t)
    PROVE  Sound'
<1> DEFINE s == th[t].stamp
           q == [Idle EXCEPT !.pc = "prune", !.keep = Keep]
<1>1. s \in Stamps /\ s < clock /\ backup[s].label # "none" /\ backup[s] \in Dirs
  BY DEF WriteMetadata, At, Sound, TypeOK, Requests, Doing, Creating
<1>2. Keep \in 1..Keep
  BY ConstantsAssumption
<1>3. Goto(t, q) /\ UNCHANGED <<doms, on, disk, clock>>
  BY DEF WriteMetadata
<1>4. q \in Requests /\ Doing(t)'
  BY <1>2, <1>3, PruneMove
<1> HIDE DEF q
<1> DEFINE d == [backup[s] EXCEPT !.meta = TRUE]
<1>5. d \in Dirs /\ d.xml = backup[s].xml /\ d.label = backup[s].label
  BY <1>1 DEF Dirs
<1>6. backup' = [backup EXCEPT ![s] = d] /\ backup \in [Stamps -> Dirs]
  BY DEF WriteMetadata, Sound, TypeOK
<1> HIDE DEF d
<1>7. /\ backup' \in [Stamps -> Dirs]
      /\ \A r \in Stamps : /\ backup'[r].xml = backup[r].xml
                           /\ backup'[r].label = backup[r].label
                           /\ r # s => backup'[r] = backup[r]
  BY <1>1, <1>5, <1>6
<1>8. \A r \in Stamps : backup'[r].meta => r < clock' /\ backup'[r].label # "none"
  BY <1>1, <1>3, <1>7 DEF Sound, TypeOK
<1>9. clock \in Int
  BY Constants DEF Sound, TypeOK
<1> QED
  BY <1>3, <1>4, <1>7, <1>8, <1>9, MoveStep DEF Sound, TypeOK

(* A request goes to remove directories that exist.                         *)
LEMMA RemoveMove ==
    ASSUME Sound, NEW t \in Threads, NEW q \in Requests, Goto(t, q), q.pc = "remove",
           \A s \in q.old : s < clock, clock' = clock
    PROVE  Doing(t)'
<1>1. th'[t] = q
  BY DEF Goto, Sound, TypeOK
<1> QED
  BY <1>1 DEF Doing, Creating

LEMMA OutdatedListed ==
    ASSUME Sound, NEW keep
    PROVE  /\ Outdated(keep) \subseteq Listed /\ Listed \subseteq Stamps
           /\ \A s \in Listed : s < clock
  BY DEF Outdated, Listed, Sound, TypeOK

LEMMA PruneListSound ==
    ASSUME Sound, NEW t \in Threads, PruneList(t)
    PROVE  Sound'
<1> DEFINE q == [th[t] EXCEPT !.pc = "remove", !.old = Outdated(th[t].keep)]
<1>1. Outdated(th[t].keep) \subseteq Stamps /\ \A s \in Outdated(th[t].keep) : s < clock
  BY OutdatedListed
<1>2. q \in Requests /\ q.pc = "remove" /\ \A s \in q.old : s < clock
  BY <1>1 DEF Sound, TypeOK, Requests, Labels
<1>3. Goto(t, q) /\ UNCHANGED <<doms, on, disk, backup, clock>>
  BY DEF PruneList
<1> HIDE DEF q
<1>4. Doing(t)'
  BY <1>2, <1>3, RemoveMove
<1> QED
  BY <1>2, <1>3, <1>4, QuietStep

LEMMA DeleteBackupSound ==
    ASSUME Sound, NEW t \in Threads, NEW s \in Stamps, DeleteBackup(t, s)
    PROVE  Sound'
<1> DEFINE q == [Idle EXCEPT !.pc = "remove", !.old = {s}]
<1>1. s < clock
  BY OutdatedListed DEF DeleteBackup
<1>2. q \in Requests /\ q.pc = "remove" /\ \A r \in q.old : r < clock
  BY <1>1, IdleTyped DEF Idle, Requests, Labels
<1>3. Goto(t, q) /\ UNCHANGED <<doms, on, disk, backup, clock>>
  BY DEF DeleteBackup
<1> HIDE DEF q
<1>4. Doing(t)'
  BY <1>2, <1>3, RemoveMove
<1> QED
  BY <1>2, <1>3, <1>4, QuietStep

LEMMA RemoveSound ==
    ASSUME Sound, NEW t \in Threads, NEW s \in Stamps, Remove(t, s)
    PROVE  Sound'
<1>1. PICK d : /\ backup' = [backup EXCEPT ![s] = d]
               /\ \/ d = [backup[s] EXCEPT !.meta = FALSE]
                  \/ \E k \in Slots : d = [backup[s] EXCEPT !.img = [@ EXCEPT ![k] = Gone]]
  <2>1. CASE backup' = [backup EXCEPT ![s].meta = FALSE]
    BY <2>1
  <2>2. CASE \E k \in Slots : backup' = [backup EXCEPT ![s].img[k] = Gone]
    BY <2>2
  <2> QED
    BY <2>1, <2>2 DEF Remove
<1>2. d \in Dirs /\ d.xml = backup[s].xml /\ d.label = backup[s].label
      /\ (d.meta => backup[s].meta)
  <2>1. backup[s] \in Dirs
    BY DEF Sound, TypeOK
  <2>2. CASE d = [backup[s] EXCEPT !.meta = FALSE]
    BY <2>1, <2>2 DEF Dirs
  <2>3. ASSUME NEW k \in Slots, d = [backup[s] EXCEPT !.img = [@ EXCEPT ![k] = Gone]]
        PROVE  /\ d \in Dirs /\ d.xml = backup[s].xml /\ d.label = backup[s].label
               /\ (d.meta => backup[s].meta)
    BY <2>1, <2>3 DEF Dirs, Data
  <2> QED
    BY <1>1, <2>2, <2>3
<1>3. /\ backup' \in [Stamps -> Dirs]
      /\ \A r \in Stamps : /\ backup'[r].xml = backup[r].xml
                           /\ backup'[r].label = backup[r].label
                           /\ backup'[r].meta => backup[r].meta
  BY <1>1, <1>2 DEF Sound, TypeOK
<1>4. UNCHANGED <<doms, on, disk, clock, th>>
  BY DEF Remove
<1>5. TypeOK'
  BY <1>3, <1>4 DEF Sound, TypeOK
<1>6. ASSUME NEW u \in Threads PROVE Doing(u)'
  <2>1. th[u].stamp \in Stamps /\ Doing(u)
    BY DEF Sound, TypeOK, Requests
  <2> QED
    BY <1>3, <1>4, <2>1 DEF Doing, Creating
<1> QED
  BY <1>4, <1>5, <1>6 DEF Sound

LEMMA RemovedSound ==
    ASSUME Sound, NEW t \in Threads, NEW s \in Stamps, Removed(t, s)
    PROVE  Sound'
<1> DEFINE q == [th[t] EXCEPT !.old = @ \ {s}]
<1>1. th[t] \in Requests /\ th[t].pc = "remove" /\ \A r \in th[t].old : r < clock
  BY DEF Removed, At, Sound, TypeOK, Doing
<1>2. q \in Requests /\ q.pc = "remove" /\ \A r \in q.old : r < clock
  BY <1>1 DEF Requests
<1>3. Goto(t, q) /\ UNCHANGED <<doms, on, disk, backup, clock>>
  BY DEF Removed
<1> HIDE DEF q
<1>4. Doing(t)'
  BY <1>2, <1>3, RemoveMove
<1> QED
  BY <1>2, <1>3, <1>4, QuietStep

LEMMA RestoreSound ==
    ASSUME Sound, NEW t \in Threads, NEW s \in Stamps, NEW n \in News, Restore(t, s, n)
    PROVE  Sound'
<1> DEFINE q == [Idle EXCEPT !.pc = "restore", !.stamp = s, !.name = n,
                             !.xml = backup[s].xml]
<1>1. s < clock /\ backup[s].xml \in XMLs /\ n \in Names
  BY OutdatedListed DEF Restore, Sound, TypeOK, Dirs, Names
<1>2. q \in Requests /\ q.pc = "restore" /\ q.old = {} /\ q.stamp = s /\ q.name = n
  BY <1>1, IdleTyped DEF Idle, Requests, Labels
<1>3. Goto(t, q) /\ UNCHANGED <<doms, on, disk, backup, clock>>
  BY DEF Restore
<1> HIDE DEF q
<1>4. th'[t] = q
  BY <1>3 DEF Goto, Sound, TypeOK
<1>5. Doing(t)'
  BY <1>1, <1>2, <1>3, <1>4 DEF Doing, Creating
<1> QED
  BY <1>2, <1>3, <1>5, QuietStep

(* A restore fills volumes that carry a new name.                           *)
LEMMA RestoreMove ==
    ASSUME Sound, NEW t \in Threads, NEW q \in Requests, Goto(t, q), Doing(t)',
           NEW v \in Vols, NEW x \in Data,
           disk' = disk \/ disk' = [disk EXCEPT ![v] = x],
           UNCHANGED <<doms, on, backup, clock>>
    PROVE  Sound'
<1>1. disk' \in [Vols -> Data] /\ clock \in Int
  BY Constants DEF Sound, TypeOK
<1> QED
  BY <1>1, MoveStep DEF Sound, TypeOK

LEMMA RestoreDiskSound ==
    ASSUME Sound, NEW t \in Threads, RestoreDisk(t)
    PROVE  Sound'
<1> DEFINE s == th[t].stamp
           k == th[t].k
           v == <<th[t].name, k>>
           q == [th[t] EXCEPT !.k = k + 1, !.xml[k] = v]
<1>1. /\ th[t] \in Requests /\ th[t].pc = "restore" /\ s \in Stamps /\ s < clock
      /\ th[t].name \in News /\ k \in 1..(MaxDisk + 1) /\ th[t].old = {}
  BY DEF RestoreDisk, At, Sound, TypeOK, Doing, Creating, Requests
<1>2. k \in Slots
  BY <1>1, CopiedBound, Constants DEF RestoreDisk, Slots
<1>3. v \in Vols
  BY <1>1, <1>2 DEF Vols, Names
<1>4. q \in Requests /\ q.pc = "restore" /\ q.stamp = s /\ q.name = th[t].name
      /\ q.old = th[t].old
  <2>1. [th[t].xml EXCEPT ![k] = v] \in XMLs
    BY <1>1, <1>2, <1>3 DEF XMLs, Requests
  <2>2. k + 1 \in 1..(MaxDisk + 1)
    BY <1>2, Constants DEF Slots
  <2> QED
    BY <1>1, <2>1, <2>2 DEF Requests
<1>5. PICK j \in Nth(backup[s].copied, k) : disk' = [disk EXCEPT ![v] = backup[s].img[j]]
  BY DEF RestoreDisk
<1>6. backup[s].img[j] \in Data
  BY <1>1, <1>5 DEF Nth, Sound, TypeOK, Dirs
<1>7. Goto(t, q) /\ UNCHANGED <<doms, on, backup, clock>>
  BY DEF RestoreDisk
<1> HIDE DEF q, v
<1>8. th'[t] = q
  BY <1>7 DEF Goto, Sound, TypeOK
<1>9. Doing(t)'
  BY <1>1, <1>4, <1>7, <1>8 DEF Doing, Creating
<1> QED
  BY <1>3, <1>4, <1>5, <1>6, <1>7, <1>9, RestoreMove

LEMMA RestoreFailsSound ==
    ASSUME Sound, NEW t \in Threads, RestoreFails(t)
    PROVE  Sound'
<1> DEFINE s == th[t].stamp
           k == th[t].k
           v == <<th[t].name, k>>
<1>1. s \in Stamps /\ th[t].name \in News /\ k \in 1..(MaxDisk + 1)
  BY DEF RestoreFails, At, Sound, TypeOK, Doing, Requests
<1>2. k \in Slots
  <2>1. k <= Cardinality(backup[s].copied)
    BY DEF RestoreFails
  <2>2. /\ Cardinality(backup[s].copied) \in Nat
        /\ Cardinality(backup[s].copied) <= MaxDisk
    BY <1>1, CopiedBound
  <2>3. MaxDisk \in Nat
    BY Constants
  <2> HIDE DEF s, k
  <2> QED
    BY <1>1, <2>1, <2>2, <2>3 DEF Slots
<1>3. v \in Vols
  BY <1>1, <1>2 DEF Vols, Names
<1>4. 0 \in Data
  BY ConstantsAssumption DEF Data
<1>5. (disk' = disk \/ disk' = [disk EXCEPT ![v] = 0]) /\ Return(t)
      /\ UNCHANGED <<doms, on, backup, clock>>
  BY DEF RestoreFails
<1>6. Goto(t, Idle) /\ Idle \in Requests /\ Doing(t)'
  BY <1>5, BackHome
<1> QED
  BY <1>3, <1>4, <1>5, <1>6, RestoreMove

LEMMA RestoreDefineSound ==
    ASSUME Sound, NEW t \in Threads, RestoreDefine(t)
    PROVE  Sound'
<1>1. th[t].name \in News /\ th[t].xml \in XMLs
  BY DEF RestoreDefine, At, Sound, TypeOK, Doing, Requests
<1>2. th[t].name \in Names /\ th[t].name # Origin
  BY <1>1, ConstantsAssumption DEF Names
<1>3. doms' \in [Names -> XMLs] /\ doms'[Origin] = Full
  BY <1>1, <1>2, Constants DEF RestoreDefine, Sound, TypeOK
<1>4. Return(t) /\ UNCHANGED <<on, disk, backup, clock>>
  BY DEF RestoreDefine
<1>5. Goto(t, Idle) /\ Idle \in Requests /\ Doing(t)'
  BY <1>4, BackHome
<1>6. clock \in Int
  BY Constants DEF Sound, TypeOK
<1> QED
  BY <1>3, <1>4, <1>5, <1>6, MoveStep DEF Sound, TypeOK

LEMMA RequestSound ==
    ASSUME Sound, NEW t \in Threads, Request(t)
    PROVE  Sound'
<1>1. CASE CopyFails(t) \/ RemoveDone(t)
  BY <1>1, BackHome, QuietStep DEF CopyFails, RemoveDone
<1>2. ASSUME NEW keep \in 1..Keep, PruneBackups(t, keep) PROVE Sound'
  BY <1>2, PruneMove, QuietStep DEF PruneBackups
<1> QED
  BY <1>1, <1>2, CreateSound, CopyDiskSound, WriteMetadataSound, PruneListSound,
     DeleteBackupSound, RemoveSound, RemovedSound, RestoreSound, RestoreDiskSound,
     RestoreFailsSound, RestoreDefineSound DEF Request

(* What happens to disks and directories outside the requests.              *)
LEMMA OutsideSound ==
    ASSUME Sound, UNCHANGED <<doms, backup, clock, th>>, on' \in BOOLEAN,
           disk' \in [Vols -> Data]
    PROVE  Sound'
<1>1. TypeOK'
  BY DEF Sound, TypeOK
<1>2. ASSUME NEW t \in Threads PROVE Doing(t)'
  BY DEF Sound, Doing, Creating
<1> QED
  BY <1>1, <1>2 DEF Sound

LEMMA GuestWriteSound ==
    ASSUME Sound, GuestWrite
    PROVE  Sound'
<1>1. ASSUME NEW v \in Vols PROVE disk'[v] \in Data
  <2>1. disk[v] \in Data /\ disk'[v] = IF v[1] = Origin THEN disk[v] + 1 ELSE disk[v]
    BY DEF GuestWrite, Sound, TypeOK
  <2>2. CASE v[1] = Origin
    <3>1. PICK k \in Slots : v = <<Origin, k>>
      BY <2>2 DEF Vols
    <3>2. disk[v] \notin {Gone, MaxWrite} /\ MaxWrite \in Nat
      BY <3>1, ConstantsAssumption DEF GuestWrite
    <3> QED
      BY <2>1, <2>2, <3>2 DEF Data
  <2> QED
    BY <2>1, <2>2
<1>2. disk' \in [Vols -> Data]
  BY <1>1 DEF GuestWrite
<1> QED
  BY <1>2, OutsideSound DEF GuestWrite, Sound, TypeOK

LEMMA SoundStep == Sound /\ [Next]_vars => Sound'
<1> SUFFICES ASSUME Sound, [Next]_vars PROVE Sound'
  OBVIOUS
<1>1. CASE Power
  BY <1>1, OutsideSound DEF Power, Sound, TypeOK
<1>2. ASSUME NEW k \in Slots, LoseDisk(k) PROVE Sound'
  <2>1. disk' \in [Vols -> Data]
    BY <1>2 DEF LoseDisk, Sound, TypeOK, Data
  <2> QED
    BY <1>2, <2>1, OutsideSound DEF LoseDisk, Sound, TypeOK
<1>3. CASE AtlasRestarts
  <2>1. th' = [t \in Threads |-> Idle] /\ UNCHANGED <<doms, on, disk, backup, clock>>
    BY <1>3 DEF AtlasRestarts
  <2>2. TypeOK'
    BY <2>1, IdleTyped DEF Sound, TypeOK
  <2>3. \A t \in Threads : Doing(t)'
    BY <2>1, IdleDoes
  <2> QED
    BY <2>1, <2>2, <2>3 DEF Sound
<1>4. CASE UNCHANGED vars
  BY <1>4, OutsideSound DEF vars, Sound, TypeOK
<1> QED
  BY <1>1, <1>2, <1>3, <1>4, RequestSound, GuestWriteSound DEF Next

(* Whatever the requests and the host do, directories, volumes and requests *)
(* stay what the code makes of them.                                        *)
THEOREM TypeCorrect == Spec => []TypeOK
<1>1. Sound => TypeOK
  BY DEF Sound
<1> QED
  BY <1>1, SoundInit, SoundStep, PTL DEF Spec

(* Both habits are behaviours of the requests.                              *)
LEMMA ModesAreSteps == [ModeNext]_<<mode, vars>> => [Next]_vars
  BY ModesAssumption DEF ModeNext, Overlapping, OneByOne, Next, vars

THEOREM ModesAreBehaviours == ModeSpec => Spec
<1>1. ModeInit => Init
  BY DEF ModeInit
<1> QED
  BY <1>1, ModesAreSteps, PTL DEF ModeSpec, Spec

LEMMA AlwaysSound == ModeSpec => []Sound
<1>1. ModeInit => Sound
  BY SoundInit DEF ModeInit
<1> QED
  BY <1>1, ModesAreSteps, SoundStep, PTL DEF ModeSpec

-----------------------------------------------------------------------------
(* Requests that overlap.                                                   *)

(* The disks of the VM are there: nothing takes them away in this habit.    *)
Present == \A k \in Slots : disk[<<Origin, k>>] # Gone

(* How far a request has come, while others work beside it: a directory     *)
(* that is being filled is nobody else's, and a restore has had a volume    *)
(* made for every disk before the next.                                     *)
Underway(t) ==
    /\ Creating(t) =>
          /\ ~backup[th[t].stamp].meta
          /\ \A u \in Threads : th[t].stamp \notin th[u].old
          /\ \A u \in Threads : Creating(u) /\ u # t => th[u].stamp # th[t].stamp
    /\ th[t].pc = "copy" => 1..(th[t].k - 1) \subseteq backup[th[t].stamp].copied
    /\ th[t].pc \in {"meta", "restore"} => backup[th[t].stamp].copied = Slots
    /\ th[t].pc = "restore" =>
          \A i \in 1..(th[t].k - 1) : i \in Slots => th[t].xml[i] = <<th[t].name, i>>

(* A directory that is listed has copies of all disks, and their images are *)
(* there unless it is being removed.                                        *)
Whole(s) ==
    /\ backup[s].meta => backup[s].copied = Slots
    /\ \/ \E t \in Threads : s \in th[t].old
       \/ ~backup[s].meta /\ \A t \in Threads : Creating(t) => th[t].stamp # s
       \/ \A k \in backup[s].copied : backup[s].img[k] # Gone

Beside == /\ Present /\ RestoredApart
          /\ \A t \in Threads : Underway(t)
          /\ \A s \in Stamps : Whole(s)

BesideInv == Sound /\ (mode = "overlapping" => Beside)

LEMMA BesideInit == Init => Beside
<1> SUFFICES ASSUME Init PROVE Beside
  OBVIOUS
<1>1. Present
  BY ConstantsAssumption DEF Init, Present, Vols, Names
<1>2. RestoredApart
  BY ConstantsAssumption DEF Init, RestoredApart, Exists, Names
<1>3. \A t \in Threads : th[t].pc = "idle"
  BY DEF Init, Idle
<1>4. \A s \in Stamps : ~backup[s].meta
  BY DEF Init, NoDir
<1> QED
  BY <1>1, <1>2, <1>3, <1>4 DEF Beside, Underway, Whole, Creating

(* A step that leaves the directories alone: what the request now removes   *)
(* was listed, what it no longer removes is not.                            *)
LEMMA MovedBeside ==
    ASSUME Sound, Beside, NEW t \in Threads, NEW q \in Requests, Goto(t, q),
           UNCHANGED backup, Present', RestoredApart',
           q.pc \notin {"copy", "meta"},
           q.pc = "restore" =>
              /\ backup[q.stamp].copied = Slots
              /\ \A i \in 1..(q.k - 1) : i \in Slots => q.xml[i] = <<q.name, i>>,
           \A s \in q.old : s \in th[t].old \/ backup[s].meta,
           \A s \in th[t].old : s \in q.old \/ ~backup[s].meta
    PROVE  Beside'
<1>1. th'[t] = q /\ \A u \in Threads : u # t => th'[u] = th[u]
  BY DEF Goto, Sound, TypeOK
<1>2. \A u \in Threads : Creating(u)' => u # t /\ Creating(u) /\ th'[u] = th[u]
  BY <1>1 DEF Creating
<1>3. ASSUME NEW u \in Threads, Creating(u)', NEW v \in Threads
      PROVE  th[u].stamp \notin th'[v].old
  <2>1. ~backup[th[u].stamp].meta /\ th[u].stamp \notin th[v].old
    BY <1>2, <1>3 DEF Beside, Underway
  <2> QED
    BY <1>1, <2>1
<1>4. ASSUME NEW u \in Threads PROVE Underway(u)'
  <2>1. CASE u = t
    BY <1>1, <1>2, <2>1 DEF Underway
  <2>2. CASE u # t
    BY <1>1, <1>2, <1>3, <2>2 DEF Underway, Beside
  <2> QED
    BY <2>1, <2>2
<1>5. ASSUME NEW s \in Stamps PROVE Whole(s)'
  <2>1. Whole(s)
    BY DEF Beside
  <2>2. CASE \E u \in Threads : s \in th[u].old
    <3>1. CASE \E u \in Threads : s \in th'[u].old
      BY <2>1, <3>1 DEF Whole
    <3>2. CASE ~\E u \in Threads : s \in th'[u].old
      <4>1. ~backup[s].meta
        BY <1>1, <2>2, <3>2
      <4>2. \A u \in Threads : Creating(u)' => th'[u].stamp # s
        BY <1>2, <2>2 DEF Beside, Underway
      <4> QED
        BY <4>1, <4>2 DEF Whole
    <3> QED
      BY <3>1, <3>2
  <2>3. CASE ~backup[s].meta /\ \A u \in Threads : Creating(u) => th[u].stamp # s
    BY <1>2, <2>1, <2>3 DEF Whole
  <2> QED
    BY <2>1, <2>2, <2>3 DEF Whole
<1> QED
  BY <1>4, <1>5 DEF Beside

(* The directory a request fills has the images it says it has.             *)
LEMMA FillsWhole ==
    ASSUME Beside, NEW t \in Threads, Creating(t), th[t].stamp \in Stamps
    PROVE  \A k \in backup[th[t].stamp].copied : backup[th[t].stamp].img[k] # Gone
  BY DEF Beside, Underway, Whole

LEMMA CreateBeside ==
    ASSUME Sound, Beside, NEW t \in Threads, NEW r \in BOOLEAN, Create(t, r)
    PROVE  Beside'
<1>1. clock \in Stamps /\ clock \in Int /\ clock \notin Nat => FALSE
  BY Constants DEF Create
<1>2. th'[t] = [Idle EXCEPT !.pc = "copy", !.stamp = clock]
      /\ \A u \in Threads : u # t => th'[u] = th[u]
  BY DEF Create, Goto, Sound, TypeOK
<1>3. th'[t].pc = "copy" /\ th'[t].stamp = clock /\ th'[t].k = 1 /\ th'[t].old = {}
  BY <1>2 DEF Idle
<1>4. /\ ~backup'[clock].meta /\ backup'[clock].copied = {}
      /\ \A s \in Stamps : s # clock => backup'[s] = backup[s]
  BY <1>1 DEF Create, NoDir, Sound, TypeOK
<1>5. \A u \in Threads : /\ th[u].stamp \in Stamps /\ clock \notin th[u].old
                         /\ Creating(u) \/ th[u].pc = "restore" => th[u].stamp # clock
  <2> TAKE u \in Threads
  <2>1. Doing(u) /\ th[u].stamp \in Stamps /\ clock \in Int /\ ~(clock < clock)
    BY Constants DEF Sound, TypeOK, Requests
  <2> QED
    BY <2>1 DEF Doing
<1>6. 1..(1 - 1) = {}
  OBVIOUS
<1>7. Underway(t)'
  <2>1. \A u \in Threads : clock \notin th'[u].old
    BY <1>2, <1>3, <1>5
  <2>2. \A u \in Threads : Creating(u)' /\ u # t => th'[u].stamp # clock
    BY <1>2, <1>5 DEF Creating
  <2> QED
    BY <1>3, <1>4, <1>6, <2>1, <2>2 DEF Underway
<1>8. ASSUME NEW u \in Threads, u # t PROVE Underway(u)'
  <2>1. th'[u] = th[u] /\ Underway(u)
    BY <1>2, <1>8 DEF Beside
  <2>2. Creating(u) \/ th[u].pc = "restore" => backup'[th[u].stamp] = backup[th[u].stamp]
    BY <1>4, <1>5
  <2>3. Creating(u) =>
          /\ \A v \in Threads : th[u].stamp \notin th'[v].old
          /\ \A v \in Threads : Creating(v)' /\ v # u => th'[v].stamp # th[u].stamp
    BY <1>2, <1>3, <1>5, <2>1 DEF Underway, Creating
  <2> QED
    BY <2>1, <2>2, <2>3 DEF Underway, Creating
<1>9. ASSUME NEW s \in Stamps PROVE Whole(s)'
  <2>1. CASE s = clock
    BY <1>4, <2>1 DEF Whole
  <2>2. CASE s # clock
    <3>1. backup'[s] = backup[s] /\ Whole(s)
      BY <1>4, <2>2 DEF Beside
    <3>2. CASE \E u \in Threads : s \in th[u].old
      <4>1. PICK u \in Threads : s \in th[u].old
        BY <3>2
      <4>2. CASE u = t
        <5>1. th[t].pc = "idle" /\ Doing(t)
          BY DEF Create, At, Sound
        <5> QED
          BY <4>1, <4>2, <5>1 DEF Doing
      <4> QED
        BY <1>2, <3>1, <4>1, <4>2 DEF Whole
    <3>3. CASE ~backup[s].meta /\ \A u \in Threads : Creating(u) => th[u].stamp # s
      <4>1. \A u \in Threads : Creating(u)' => th'[u].stamp # s
        BY <1>2, <1>3, <2>2, <3>3 DEF Creating
      <4> QED
        BY <3>1, <3>3, <4>1 DEF Whole
    <3> QED
      BY <3>1, <3>2, <3>3 DEF Whole
  <2> QED
    BY <2>1, <2>2
<1>10. Present' /\ RestoredApart'
  BY DEF Create, Beside, Present, RestoredApart, Exists
<1> QED
  BY <1>7, <1>8, <1>9, <1>10 DEF Beside

LEMMA CopyDiskBeside ==
    ASSUME Sound, Beside, NEW t \in Threads, CopyDisk(t)
    PROVE  Beside'
<1> DEFINE s == th[t].stamp
           k == th[t].k
<1>1. /\ th[t] \in Requests /\ th[t].pc = "copy" /\ s \in Stamps /\ k \in Slots
      /\ backup[s] \in Dirs /\ backup[s].xml = Full /\ Creating(t) /\ Underway(t)
  BY DEF CopyDisk, At, Sound, TypeOK, Requests, Doing, Creating, Beside
<1>2. backup[s].xml[k] = <<Origin, k>> /\ disk[<<Origin, k>>] # Gone
  BY <1>1 DEF Full, Beside, Present
<1>3. backup' = [backup EXCEPT ![s].img[k] = disk[<<Origin, k>>], ![s].copied = @ \cup {k}]
  BY <1>2 DEF CopyDisk
<1>4. /\ backup'[s].meta = backup[s].meta /\ backup'[s].copied = backup[s].copied \cup {k}
      /\ backup'[s].img = [backup[s].img EXCEPT ![k] = disk[<<Origin, k>>]]
      /\ \A r \in Stamps : r # s => backup'[r] = backup[r]
  BY <1>1, <1>3 DEF Sound, TypeOK, Dirs
<1>5. /\ th'[t] = [th[t] EXCEPT !.k = k + 1, !.pc = IF k = MaxDisk THEN "meta" ELSE "copy"]
      /\ \A u \in Threads : u # t => th'[u] = th[u]
  BY DEF CopyDisk, Goto, Sound, TypeOK
<1>6. /\ th'[t].stamp = s /\ th'[t].old = th[t].old /\ th'[t].k = k + 1
      /\ th'[t].pc \in {"copy", "meta"} /\ (th'[t].pc = "meta" => k = MaxDisk)
  <2>1. k = MaxDisk \/ k # MaxDisk
    OBVIOUS
  <2> QED
    BY <1>1, <1>5, <2>1 DEF Requests
<1>7. \A u \in Threads : /\ th'[u].stamp = th[u].stamp /\ th'[u].old = th[u].old
                         /\ Creating(u)' <=> Creating(u)
  BY <1>1, <1>5, <1>6 DEF Creating
<1>8. backup'[s].copied \subseteq Slots
  BY <1>1, <1>4 DEF Dirs
<1>9. Underway(t)'
  <2>1. 1..(th'[t].k - 1) \subseteq backup'[s].copied
    <3>1. 1..(k - 1) \subseteq backup[s].copied
      BY <1>1 DEF Underway
    <3>2. \A i \in 1..k : i = k \/ i \in 1..(k - 1)
      BY <1>1, Constants
    <3>3. th'[t].k - 1 = k
      BY <1>1, <1>6, Constants
    <3> QED
      BY <1>4, <3>1, <3>2, <3>3
  <2>2. th'[t].pc = "meta" => backup'[s].copied = Slots
    <3>1. th'[t].pc = "meta" => 1..(th'[t].k - 1) = Slots
      BY <1>1, <1>6, Constants DEF Slots
    <3> QED
      BY <1>8, <2>1, <3>1
  <2>3. ~backup'[s].meta /\ \A u \in Threads : s \notin th'[u].old
    BY <1>1, <1>4, <1>7 DEF Underway
  <2>4. \A u \in Threads : Creating(u)' /\ u # t => th'[u].stamp # s
    BY <1>1, <1>7 DEF Underway
  <2> QED
    BY <1>6, <2>1, <2>2, <2>3, <2>4 DEF Underway
<1>10. ASSUME NEW u \in Threads, u # t PROVE Underway(u)'
  <2>1. th'[u] = th[u] /\ Underway(u) /\ th[u].stamp \in Stamps
    BY <1>5, <1>10 DEF Beside, Sound, TypeOK, Requests
  <2>2. Creating(u) => th[u].stamp # s
    BY <1>1, <2>1, <1>10 DEF Underway
  <2>3. /\ Creating(u) => backup'[th[u].stamp] = backup[th[u].stamp]
        /\ th[u].pc = "restore" => backup'[th[u].stamp].copied = Slots
    BY <1>4, <1>8, <2>1, <2>2 DEF Underway
  <2>4. Creating(u) =>
          /\ \A v \in Threads : th[u].stamp \notin th'[v].old
          /\ \A v \in Threads : Creating(v)' /\ v # u => th'[v].stamp # th[u].stamp
    BY <1>7, <2>1 DEF Underway
  <2> QED
    BY <2>1, <2>3, <2>4 DEF Underway, Creating
<1>11. ASSUME NEW r \in Stamps PROVE Whole(r)'
  <2>1. CASE r = s
    <3>1. ~backup'[s].meta
      BY <1>1, <1>4 DEF Underway
    <3>2. \A i \in backup[s].copied : backup[s].img[i] # Gone
      BY <1>1, FillsWhole
    <3>3. \A i \in backup'[s].copied : backup'[s].img[i] # Gone
      BY <1>1, <1>2, <1>4, <3>2 DEF Dirs
    <3> QED
      BY <2>1, <3>1, <3>3 DEF Whole
  <2>2. CASE r # s
    <3>1. backup'[r] = backup[r] /\ Whole(r)
      BY <1>4, <2>2 DEF Beside
    <3> QED
      BY <1>7, <3>1 DEF Whole
  <2> QED
    BY <2>1, <2>2
<1>12. Present' /\ RestoredApart'
  BY DEF CopyDisk, Beside, Present, RestoredApart, Exists
<1> QED
  BY <1>9, <1>10, <1>11, <1>12 DEF Beside

LEMMA WriteMetadataBeside ==
    ASSUME Sound, Beside, NEW t \in Threads, WriteMetadata(t)
    PROVE  Beside'
<1> DEFINE s == th[t].stamp
<1>1. /\ th[t] \in Requests /\ th[t].pc = "meta" /\ s \in Stamps
      /\ Creating(t) /\ Underway(t) /\ th[t].old = {}
  BY DEF WriteMetadata, At, Sound, TypeOK, Requests, Doing, Creating, Beside
<1>2. /\ backup'[s].copied = Slots /\ backup'[s].img = backup[s].img
      /\ backup[s].copied = Slots
      /\ \A r \in Stamps : /\ r # s => backup'[r] = backup[r]
                           /\ backup'[r].copied = backup[r].copied
  BY <1>1 DEF WriteMetadata, Sound, TypeOK, Dirs, Underway
<1>3. /\ th'[t] = [Idle EXCEPT !.pc = "prune", !.keep = Keep]
      /\ \A u \in Threads : u # t => th'[u] = th[u]
  BY DEF WriteMetadata, Goto, Sound, TypeOK
<1>4. th'[t].pc = "prune" /\ th'[t].old = {}
  BY <1>3 DEF Idle
<1>5. \A u \in Threads : /\ th'[u].old = th[u].old
                         /\ Creating(u)' => u # t /\ Creating(u)
  BY <1>1, <1>3, <1>4 DEF Creating
<1>6. Underway(t)'
  BY <1>4 DEF Underway, Creating
<1>7. ASSUME NEW u \in Threads, u # t PROVE Underway(u)'
  <2>1. th'[u] = th[u] /\ Underway(u) /\ th[u].stamp \in Stamps
    BY <1>3, <1>7 DEF Beside, Sound, TypeOK, Requests
  <2>2. Creating(u) => th[u].stamp # s
    BY <1>1, <2>1, <1>7 DEF Underway
  <2>3. /\ Creating(u) => backup'[th[u].stamp] = backup[th[u].stamp]
        /\ backup'[th[u].stamp].copied = backup[th[u].stamp].copied
    BY <1>2, <2>1, <2>2
  <2>4. Creating(u) =>
          /\ \A v \in Threads : th[u].stamp \notin th'[v].old
          /\ \A v \in Threads : Creating(v)' /\ v # u => th'[v].stamp # th[u].stamp
    BY <1>3, <1>5, <2>1 DEF Underway
  <2> QED
    BY <2>1, <2>3, <2>4 DEF Underway, Creating
<1>8. ASSUME NEW r \in Stamps PROVE Whole(r)'
  <2>1. CASE r = s
    <3>1. \A i \in backup[s].copied : backup[s].img[i] # Gone
      BY <1>1, FillsWhole
    <3> QED
      BY <1>2, <2>1, <3>1 DEF Whole
  <2>2. CASE r # s
    <3>1. backup'[r] = backup[r] /\ Whole(r)
      BY <1>2, <2>2 DEF Beside
    <3>2. \A u \in Threads : Creating(u)' => Creating(u) /\ th'[u].stamp = th[u].stamp
      BY <1>3, <1>5
    <3> QED
      BY <1>5, <3>1, <3>2 DEF Whole
  <2> QED
    BY <2>1, <2>2
<1>9. Present' /\ RestoredApart'
  BY DEF WriteMetadata, Beside, Present, RestoredApart, Exists
<1> QED
  BY <1>6, <1>7, <1>8, <1>9 DEF Beside

LEMMA RemoveBeside ==
    ASSUME Sound, Beside, NEW t \in Threads, NEW s \in Stamps, Remove(t, s)
    PROVE  Beside'
<1>1. UNCHANGED <<doms, on, disk, clock, th>> /\ s \in th[t].old
  BY DEF Remove
<1>2. /\ \A r \in Stamps : r # s => backup'[r] = backup[r]
      /\ backup'[s].copied = backup[s].copied
      /\ backup'[s].meta => backup[s].meta
  <2>1. CASE backup' = [backup EXCEPT ![s].meta = FALSE]
    BY <2>1 DEF Sound, TypeOK, Dirs
  <2>2. ASSUME NEW k \in Slots, backup' = [backup EXCEPT ![s].img[k] = Gone]
        PROVE  /\ \A r \in Stamps : r # s => backup'[r] = backup[r]
               /\ backup'[s].copied = backup[s].copied
               /\ backup'[s].meta => backup[s].meta
    BY <2>2 DEF Sound, TypeOK, Dirs
  <2> QED
    BY <2>1, <2>2 DEF Remove
<1>3. ASSUME NEW u \in Threads PROVE Underway(u)'
  <2>1. Underway(u) /\ th[u].stamp \in Stamps
    BY DEF Beside, Sound, TypeOK, Requests
  <2>2. Creating(u) => th[u].stamp # s
    BY <1>1, <2>1 DEF Underway
  <2> QED
    BY <1>1, <1>2, <2>1, <2>2 DEF Underway, Creating
<1>4. ASSUME NEW r \in Stamps PROVE Whole(r)'
  <2>1. Whole(r)
    BY DEF Beside
  <2>2. CASE r = s
    BY <1>1, <1>2, <2>1, <2>2 DEF Whole
  <2>3. CASE r # s
    BY <1>1, <1>2, <2>1, <2>3 DEF Whole, Creating
  <2> QED
    BY <2>2, <2>3
<1>5. Present' /\ RestoredApart'
  BY <1>1 DEF Beside, Present, RestoredApart, Exists
<1> QED
  BY <1>3, <1>4, <1>5 DEF Beside

(* A move of one request that reads the directories and leaves disks and    *)
(* VMs alone.                                                               *)
LEMMA ReadBeside ==
    ASSUME Sound, Beside, NEW t \in Threads, NEW q \in Requests, Goto(t, q),
           UNCHANGED <<doms, disk, backup>>,
           q.pc \notin {"copy", "meta"},
           q.pc = "restore" =>
              /\ backup[q.stamp].copied = Slots
              /\ \A i \in 1..(q.k - 1) : i \in Slots => q.xml[i] = <<q.name, i>>,
           \A s \in q.old : s \in th[t].old \/ backup[s].meta,
           \A s \in th[t].old : s \in q.old \/ ~backup[s].meta
    PROVE  Beside'
<1>1. Present' /\ RestoredApart' /\ UNCHANGED backup
  BY DEF Beside, Present, RestoredApart, Exists
<1> QED
  BY <1>1, MovedBeside

(* A request that is not removing anything ends.                            *)
LEMMA EndBeside ==
    ASSUME Sound, Beside, NEW t \in Threads, Return(t), th[t].old = {},
           UNCHANGED backup, Present', RestoredApart'
    PROVE  Beside'
<1>1. /\ Goto(t, Idle) /\ Idle \in Requests /\ Idle.old = {}
      /\ Idle.pc \notin {"copy", "meta"} /\ Idle.pc # "restore"
  BY IdleTyped DEF Return, Idle
<1> HIDE DEF Idle
<1> QED
  BY <1>1, MovedBeside

LEMMA PruneBackupsBeside ==
    ASSUME Sound, Beside, NEW t \in Threads, NEW keep \in 1..Keep, PruneBackups(t, keep)
    PROVE  Beside'
<1> DEFINE q == [Idle EXCEPT !.pc = "prune", !.keep = keep]
<1>1. q \in Requests
  BY PruneMove DEF PruneBackups
<1>2. q.pc = "prune" /\ q.old = {}
  BY DEF Idle
<1>3. th[t].old = {}
  BY DEF PruneBackups, At, Sound, Doing
<1>4. Goto(t, q) /\ UNCHANGED <<doms, disk, backup>>
  BY DEF PruneBackups
<1> HIDE DEF q
<1> QED
  BY <1>1, <1>2, <1>3, <1>4, ReadBeside

LEMMA PruneListBeside ==
    ASSUME Sound, Beside, NEW t \in Threads, PruneList(t)
    PROVE  Beside'
<1> DEFINE q == [th[t] EXCEPT !.pc = "remove", !.old = Outdated(th[t].keep)]
<1>1. Outdated(th[t].keep) \subseteq Listed /\ Listed \subseteq Stamps
  BY OutdatedListed
<1>2. q \in Requests /\ q.pc = "remove" /\ \A s \in q.old : backup[s].meta
  BY <1>1 DEF Sound, TypeOK, Requests, Labels, Listed
<1>3. th[t].old = {}
  BY DEF PruneList, At, Sound, Doing
<1>4. Goto(t, q) /\ UNCHANGED <<doms, disk, backup>>
  BY DEF PruneList
<1> HIDE DEF q
<1> QED
  BY <1>2, <1>3, <1>4, ReadBeside

LEMMA DeleteBackupBeside ==
    ASSUME Sound, Beside, NEW t \in Threads, NEW s \in Stamps, DeleteBackup(t, s)
    PROVE  Beside'
<1> DEFINE q == [Idle EXCEPT !.pc = "remove", !.old = {s}]
<1>1. q \in Requests /\ q.pc = "remove" /\ q.old = {s} /\ backup[s].meta
  BY IdleTyped DEF Idle, Requests, Labels, DeleteBackup, Listed
<1>2. th[t].old = {}
  BY DEF DeleteBackup, At, Sound, Doing
<1>3. Goto(t, q) /\ UNCHANGED <<doms, disk, backup>>
  BY DEF DeleteBackup
<1> HIDE DEF q
<1> QED
  BY <1>1, <1>2, <1>3, ReadBeside

LEMMA RemovedBeside ==
    ASSUME Sound, Beside, NEW t \in Threads, NEW s \in Stamps, Removed(t, s)
    PROVE  Beside'
<1> DEFINE q == [th[t] EXCEPT !.old = @ \ {s}]
<1>1. th[t] \in Requests /\ th[t].pc = "remove" /\ ~backup[s].meta
  BY DEF Removed, At, Sound, TypeOK
<1>2. q \in Requests /\ q.pc = "remove" /\ q.old = th[t].old \ {s}
  BY <1>1 DEF Requests
<1>3. Goto(t, q) /\ UNCHANGED <<doms, disk, backup>>
  BY DEF Removed
<1> HIDE DEF q
<1>4. \A r \in th[t].old : r \in q.old \/ ~backup[r].meta
  BY <1>1, <1>2
<1>5. \A r \in q.old : r \in th[t].old \/ backup[r].meta
  BY <1>2
<1> QED
  BY <1>2, <1>3, <1>4, <1>5, ReadBeside

LEMMA RestoreBeside ==
    ASSUME Sound, Beside, NEW t \in Threads, NEW s \in Stamps, NEW n \in News,
           Restore(t, s, n)
    PROVE  Beside'
<1> DEFINE q == [Idle EXCEPT !.pc = "restore", !.stamp = s, !.name = n,
                             !.xml = backup[s].xml]
<1>1. backup[s].xml \in XMLs /\ n \in Names /\ backup[s].copied = Slots
  BY DEF Restore, Listed, Beside, Whole, Sound, TypeOK, Dirs, Names
<1>2. q \in Requests /\ q.pc = "restore" /\ q.old = {} /\ q.stamp = s /\ q.k = 1
  BY <1>1, IdleTyped DEF Idle, Requests, Labels
<1>3. th[t].old = {}
  BY DEF Restore, At, Sound, Doing
<1>4. Goto(t, q) /\ UNCHANGED <<doms, disk, backup>>
  BY DEF Restore
<1> HIDE DEF q
<1>5. 1..(q.k - 1) = {}
  BY <1>2
<1> QED
  BY <1>1, <1>2, <1>3, <1>4, <1>5, ReadBeside

(* The VM's disks carry its own name.                                       *)
LEMMA PresentKept ==
    ASSUME Sound, Beside, NEW n \in News, NEW k \in Slots, NEW x,
           disk' = disk \/ disk' = [disk EXCEPT ![<<n, k>>] = x]
    PROVE  Present'
<1>1. n # Origin
  BY ConstantsAssumption
<1>2. \A i \in Slots : <<Origin, i>> \in Vols /\ <<Origin, i>> # <<n, k>>
  BY <1>1 DEF Vols, Names
<1> QED
  BY <1>2 DEF Beside, Present, Sound, TypeOK

LEMMA RestoreDiskBeside ==
    ASSUME Sound, Beside, NEW t \in Threads, RestoreDisk(t)
    PROVE  Beside'
<1> DEFINE s == th[t].stamp
           k == th[t].k
           v == <<th[t].name, k>>
           q == [th[t] EXCEPT !.k = k + 1, !.xml[k] = v]
<1>1. /\ th[t] \in Requests /\ th[t].pc = "restore" /\ s \in Stamps
      /\ th[t].name \in News /\ k \in 1..(MaxDisk + 1) /\ th[t].old = {}
      /\ Underway(t) /\ backup[s].copied = Slots
  BY DEF RestoreDisk, At, Sound, TypeOK, Doing, Requests, Beside, Underway
<1>2. k \in Slots
  <2>1. k <= Cardinality(backup[s].copied)
    BY DEF RestoreDisk
  <2> QED
    BY <1>1, <2>1, Constants DEF Slots
<1>3. q \in Requests /\ q.pc = "restore" /\ q.stamp = s /\ q.name = th[t].name
      /\ q.old = {} /\ q.k = k + 1 /\ q.xml = [th[t].xml EXCEPT ![k] = v]
  <2>1. [th[t].xml EXCEPT ![k] = v] \in XMLs
    BY <1>1, <1>2 DEF XMLs, Requests, Vols, Names
  <2>2. k + 1 \in 1..(MaxDisk + 1)
    BY <1>2, Constants DEF Slots
  <2> QED
    BY <1>1, <2>1, <2>2 DEF Requests
<1>4. Goto(t, q) /\ UNCHANGED <<doms, backup>>
  BY DEF RestoreDisk
<1>5. Present'
  <2>1. PICK j : disk' = [disk EXCEPT ![<<th[t].name, k>>] = backup[s].img[j]]
    BY DEF RestoreDisk
  <2> DEFINE x == backup[s].img[j]
  <2>2. disk' = [disk EXCEPT ![<<th[t].name, k>>] = x]
    BY <2>1
  <2> HIDE DEF x
  <2> QED
    BY <1>1, <1>2, <2>2, PresentKept
<1>6. RestoredApart'
  BY <1>4 DEF Beside, RestoredApart, Exists
<1> HIDE DEF q
<1>7. \A i \in 1..(q.k - 1) : i \in Slots => q.xml[i] = <<q.name, i>>
  <2>1. \A i \in 1..(q.k - 1) : i = k \/ i \in 1..(k - 1)
    BY <1>1, <1>3, Constants
  <2>2. th[t].xml \in [Slots -> Vols \cup {NoVol}]
    BY <1>1 DEF Requests, XMLs
  <2> QED
    BY <1>1, <1>2, <1>3, <2>1, <2>2 DEF Underway
<1> QED
  BY <1>1, <1>3, <1>4, <1>5, <1>6, <1>7, MovedBeside

LEMMA RestoreFailsBeside ==
    ASSUME Sound, Beside, NEW t \in Threads, RestoreFails(t)
    PROVE  Beside'
<1>1. /\ th[t] \in Requests /\ th[t].stamp \in Stamps /\ th[t].name \in News
      /\ th[t].k \in 1..(MaxDisk + 1) /\ th[t].old = {}
      /\ backup[th[t].stamp].copied = Slots
  BY DEF RestoreFails, At, Sound, TypeOK, Doing, Requests, Beside, Underway
<1>2. th[t].k <= Cardinality(backup[th[t].stamp].copied) /\ Return(t)
      /\ UNCHANGED <<doms, on, backup, clock>>
      /\ (disk' = disk \/ disk' = [disk EXCEPT ![<<th[t].name, th[t].k>>] = 0])
  BY DEF RestoreFails
<1>3. th[t].k \in Slots
  BY <1>1, <1>2, Constants DEF Slots
<1>4. Present'
  BY <1>1, <1>2, <1>3, PresentKept
<1>5. RestoredApart'
  BY <1>2 DEF Beside, RestoredApart, Exists
<1> QED
  BY <1>1, <1>2, <1>4, <1>5, EndBeside

LEMMA RestoreDefineBeside ==
    ASSUME Sound, Beside, NEW t \in Threads, RestoreDefine(t)
    PROVE  Beside'
<1> DEFINE n == th[t].name
<1>1. /\ th[t] \in Requests /\ n \in News /\ th[t].k \in 1..(MaxDisk + 1) /\ th[t].old = {}
      /\ backup[th[t].stamp].copied = Slots /\ Underway(t) /\ th[t].pc = "restore"
  BY DEF RestoreDefine, At, Sound, TypeOK, Doing, Requests, Beside, Underway
<1>2. \A i \in Slots : th[t].xml[i] = <<n, i>>
  <2>1. th[t].k > MaxDisk
    BY <1>1, Constants DEF RestoreDefine
  <2>2. \A i \in Slots : i \in 1..(th[t].k - 1)
    BY <1>1, <2>1, Constants DEF Slots
  <2> QED
    BY <1>1, <2>2 DEF Underway
<1>3. /\ doms' = IF Exists(n) THEN doms ELSE [doms EXCEPT ![n] = th[t].xml]
      /\ Return(t) /\ UNCHANGED <<on, disk, backup, clock>>
  BY DEF RestoreDefine
<1>4. RestoredApart'
  <2>1. doms \in [Names -> XMLs] /\ News \subseteq Names
    BY DEF Sound, TypeOK, Names
  <2>2. CASE Exists(n)
    BY <1>3, <2>2 DEF Beside, RestoredApart, Exists
  <2>3. CASE ~Exists(n)
    <3>1. \A m \in News : doms'[m] = IF m = n THEN th[t].xml ELSE doms[m]
      BY <1>3, <2>1, <2>3
    <3> QED
      BY <1>2, <3>1 DEF Beside, RestoredApart, Exists
  <2> QED
    BY <2>2, <2>3
<1>5. Present'
  BY <1>3 DEF Beside, Present
<1> QED
  BY <1>1, <1>3, <1>4, <1>5, EndBeside

LEMMA EndsBeside ==
    ASSUME Sound, Beside, NEW t \in Threads, CopyFails(t) \/ RemoveDone(t)
    PROVE  Beside'
<1>1. th[t].old = {} /\ Return(t) /\ UNCHANGED <<doms, on, disk, backup, clock>>
  BY DEF CopyFails, RemoveDone, At, Sound, Doing
<1>2. Present' /\ RestoredApart'
  BY <1>1 DEF Beside, Present, RestoredApart, Exists
<1> QED
  BY <1>1, <1>2, EndBeside

LEMMA OutsideBeside ==
    ASSUME Beside, UNCHANGED <<doms, backup, th>>, Present'
    PROVE  Beside'
<1>1. \A t \in Threads : Underway(t)'
  BY DEF Beside, Underway, Creating
<1>2. \A s \in Stamps : Whole(s)'
  BY DEF Beside, Whole, Creating
<1>3. RestoredApart'
  BY DEF Beside, RestoredApart, Exists
<1> QED
  BY <1>1, <1>2, <1>3 DEF Beside

LEMMA GuestWriteBeside ==
    ASSUME Sound, Beside, GuestWrite
    PROVE  Beside'
<1>1. ASSUME NEW k \in Slots PROVE disk'[<<Origin, k>>] # Gone
  <2>1. <<Origin, k>> \in Vols
    BY DEF Vols, Names
  <2>2. disk[<<Origin, k>>] \in Nat /\ disk'[<<Origin, k>>] = disk[<<Origin, k>>] + 1
    BY <2>1 DEF GuestWrite, Sound, TypeOK, Data
  <2> QED
    BY <2>2, ConstantsAssumption
<1>2. Present' /\ UNCHANGED <<doms, backup, th>>
  BY <1>1 DEF Present, GuestWrite
<1> QED
  BY <1>2, OutsideBeside

LEMMA OverlappingBeside ==
    ASSUME Sound, Beside, Overlapping
    PROVE  Beside'
<1>1. CASE Power
  BY <1>1, OutsideBeside DEF Power, Beside, Present
<1>2. ASSUME NEW t \in Threads, Request(t) PROVE Beside'
  BY <1>2, CreateBeside, CopyDiskBeside, EndsBeside, WriteMetadataBeside, PruneBackupsBeside,
     PruneListBeside, DeleteBackupBeside, RemoveBeside, RemovedBeside, RestoreBeside,
     RestoreDiskBeside, RestoreFailsBeside, RestoreDefineBeside DEF Request
<1> QED
  BY <1>1, <1>2, GuestWriteBeside DEF Overlapping

LEMMA BesideStep == BesideInv /\ [ModeNext]_<<mode, vars>> => BesideInv'
<1> SUFFICES ASSUME BesideInv, [ModeNext]_<<mode, vars>>, mode' = "overlapping" PROVE Beside'
  BY ModesAreSteps, SoundStep DEF BesideInv
<1>1. CASE UNCHANGED <<mode, vars>>
  BY <1>1, OutsideBeside DEF vars, BesideInv, Beside, Present
<1>2. CASE mode = "overlapping" /\ Overlapping
  BY <1>2, OverlappingBeside DEF BesideInv
<1> QED
  BY <1>1, <1>2 DEF ModeNext

(* However requests overlap, a VM that was restored has disks of its own    *)
(* and only those, and a backup that is listed and not being removed has an *)
(* image of every disk it says it has copied.                               *)
THEOREM RestoresRightHolds == ModeSpec => []RestoresRight
<1>1. ModeInit => BesideInv
  BY SoundInit, BesideInit DEF ModeInit, BesideInv
<1>2. BesideInv => RestoresRight
  <2> SUFFICES ASSUME BesideInv, mode = "overlapping" PROVE RestoredApart /\ ListedWhole
    BY DEF RestoresRight
  <2>1. Beside
    BY DEF BesideInv
  <2>2. ASSUME NEW s \in Listed, \A t \in Threads : s \notin th[t].old
        PROVE  \A k \in backup[s].copied : backup[s].img[k] # Gone
    <3>1. s \in Stamps /\ backup[s].meta /\ Whole(s)
      BY <2>1, <2>2 DEF Listed, Beside
    <3> QED
      BY <2>2, <3>1 DEF Whole
  <2> QED
    BY <2>1, <2>2 DEF Beside, ListedWhole
<1> QED
  BY <1>1, <1>2, BesideStep, PTL DEF ModeSpec

-----------------------------------------------------------------------------
(* One request at a time.                                                   *)

(* What a retention removes leaves enough that is newer.                    *)
Left(t) == th[t].pc = "remove" /\ th[t].keep > 0 =>
              \A s \in th[t].old :
                 Cardinality({r \in Listed \ th[t].old : r > s}) >= th[t].keep

Alone == (\A t \in Threads : t # t1 => th[t].pc = "idle") /\ Left(t1)

AloneInv == Sound /\ (mode = "one" => Alone)

(* The least-number principle, from the library's well-founded order.       *)
Below == {p \in Nat \X Nat : p[1] < p[2]}

LEMMA NatMin ==
    ASSUME NEW S, S \subseteq Nat, NEW n \in S
    PROVE  \E m \in S : \A k \in S : m <= k
<1>1. IsWellFoundedOn(Below, Nat)
  BY NatLessThanWellFounded DEF OpToRel, Below
<1>2. PICK m \in S : \A k \in S : ~(<<k, m>> \in Below)
  BY <1>1, WFMin
<1>3. \A k \in S : ~(k < m)
  BY <1>2 DEF Below
<1> QED
  BY <1>3

(* Among stamps there is a latest.                                          *)
LEMMA Latest ==
    ASSUME NEW S, S \subseteq Stamps, NEW n \in S
    PROVE  \E m \in S : \A k \in S : k <= m
<1> DEFINE D == {MaxBackups - k : k \in S}
<1>1. MaxBackups \in Nat /\ \A k \in S : k \in 1..MaxBackups
  BY Constants DEF Stamps
<1>2. D \subseteq Nat /\ MaxBackups - n \in D
  BY <1>1
<1> HIDE DEF D
<1>3. PICK d \in D : \A e \in D : d <= e
  BY <1>2, NatMin
<1>4. PICK m \in S : d = MaxBackups - m
  BY <1>3 DEF D
<1>5. \A k \in S : MaxBackups - m <= MaxBackups - k
  BY <1>3, <1>4 DEF D
<1>6. \A k \in S : k <= m
  BY <1>1, <1>5
<1> QED
  BY <1>6

(* What is newer than the latest outdated backup is not outdated: so many   *)
(* backups are left as are to be kept.                                      *)
LEMMA OutdatedLeft ==
    ASSUME Sound, NEW keep \in Nat, NEW s \in Outdated(keep)
    PROVE  Cardinality({r \in Listed \ Outdated(keep) : r > s}) >= keep
<1> DEFINE O == Outdated(keep)
           L == Listed
<1>1. O \subseteq L /\ L \subseteq Stamps /\ s \in O
  BY OutdatedListed
<1>2. \A o \in O : Cardinality({r \in L : r > o}) >= keep
  BY DEF Outdated
<1> HIDE DEF O, L
<1>3. PICK m \in O : \A k \in O : k <= m
  BY <1>1, Latest
<1>4. {r \in L : r > m} \subseteq {r \in L \ O : r > s}
  <2>1. s <= m /\ \A r \in L : r \in Int /\ m \in Int /\ s \in Int
    BY <1>1, <1>3, Constants
  <2>2. \A r \in L : r > m => r \notin O /\ r > s
    BY <1>3, <2>1
  <2> QED
    BY <2>2
<1>5. IsFiniteSet({r \in L \ O : r > s})
  BY <1>1, Constants, FS_Subset
<1>6. /\ Cardinality({r \in L : r > m}) <= Cardinality({r \in L \ O : r > s})
      /\ Cardinality({r \in L \ O : r > s}) \in Nat
      /\ Cardinality({r \in L : r > m}) \in Nat
  BY <1>4, <1>5, FS_Subset, FS_CardinalityType
<1>7. Cardinality({r \in L : r > m}) >= keep
  BY <1>2
<1>8. Cardinality({r \in L \ O : r > s}) >= keep
  BY <1>6, <1>7
<1> QED
  BY <1>8 DEF O, L

(* No other request moves.                                                  *)
LEMMA OthersStay ==
    ASSUME Sound, NEW t \in Threads, Request(t)
    PROVE  \A u \in Threads : u # t => th'[u] = th[u]
<1>1. UNCHANGED th \/ \E q : Goto(t, q)
  BY DEF Request, Create, CopyDisk, CopyFails, WriteMetadata, PruneBackups, PruneList,
         DeleteBackup, Remove, Removed, RemoveDone, Restore, RestoreDisk, RestoreFails,
         RestoreDefine, Return
<1> QED
  BY <1>1 DEF Goto, Sound, TypeOK

LEMMA PruneListLeft ==
    ASSUME Sound, NEW t \in Threads, PruneList(t)
    PROVE  Left(t)'
<1>1. th'[t] = [th[t] EXCEPT !.pc = "remove", !.old = Outdated(th[t].keep)]
      /\ UNCHANGED backup /\ th[t].keep \in Nat
  BY Constants DEF PruneList, Goto, Sound, TypeOK, Requests
<1>2. th'[t].old = Outdated(th[t].keep) /\ th'[t].keep = th[t].keep /\ Listed' = Listed
  BY <1>1 DEF Sound, TypeOK, Requests, Listed
<1>3. \A s \in Outdated(th[t].keep) :
         Cardinality({r \in Listed \ Outdated(th[t].keep) : r > s}) >= th[t].keep
  BY <1>1, OutdatedLeft
<1> QED
  BY <1>2, <1>3 DEF Left

LEMMA RemoveLeft ==
    ASSUME Sound, NEW t \in Threads, Left(t), NEW s \in Stamps, Remove(t, s)
    PROVE  Left(t)'
<1>1. UNCHANGED th /\ s \in th[t].old
  BY DEF Remove
<1>2. \A r \in Stamps : r # s => backup'[r].meta = backup[r].meta
  <2>1. CASE backup' = [backup EXCEPT ![s].meta = FALSE]
    BY <2>1 DEF Sound, TypeOK, Dirs
  <2>2. ASSUME NEW k \in Slots, backup' = [backup EXCEPT ![s].img[k] = Gone]
        PROVE  \A r \in Stamps : r # s => backup'[r].meta = backup[r].meta
    BY <2>2 DEF Sound, TypeOK, Dirs
  <2> QED
    BY <2>1, <2>2 DEF Remove
<1>3. Listed' \ th[t].old = Listed \ th[t].old
  BY <1>1, <1>2 DEF Listed
<1>4. th'[t] = th[t]
  BY <1>1
<1> QED
  BY <1>3, <1>4 DEF Left

LEMMA RemovedLeft ==
    ASSUME Sound, NEW t \in Threads, Left(t), NEW s \in Stamps, Removed(t, s)
    PROVE  Left(t)'
<1>1. /\ th'[t] = [th[t] EXCEPT !.old = @ \ {s}] /\ UNCHANGED backup
      /\ s \notin Listed /\ th[t] \in Requests /\ th[t].pc = "remove"
  BY DEF Removed, At, Goto, Sound, TypeOK, Listed
<1>2. th'[t].old = th[t].old \ {s} /\ th'[t].keep = th[t].keep /\ Listed' = Listed
  BY <1>1 DEF Requests, Listed
<1>3. Listed \ th'[t].old = Listed \ th[t].old
  BY <1>1, <1>2
<1> QED
  BY <1>1, <1>2, <1>3 DEF Left

LEMMA DeleteLeft ==
    ASSUME Sound, NEW t \in Threads, NEW s \in Stamps, DeleteBackup(t, s)
    PROVE  Left(t)'
<1>1. th'[t] = [Idle EXCEPT !.pc = "remove", !.old = {s}]
  BY DEF DeleteBackup, Goto, Sound, TypeOK
<1>2. th'[t].keep = 0
  BY <1>1 DEF Idle
<1> QED
  BY <1>2 DEF Left

(* The other actions do not go to removing.                                 *)
LEMMA OtherLeft ==
    ASSUME Sound, NEW t \in Threads,
           \/ \E r \in BOOLEAN : Create(t, r)
           \/ CopyDisk(t) \/ CopyFails(t) \/ WriteMetadata(t) \/ RemoveDone(t)
           \/ \E keep \in 1..Keep : PruneBackups(t, keep)
           \/ \E s \in Stamps, n \in News : Restore(t, s, n)
           \/ RestoreDisk(t) \/ RestoreFails(t) \/ RestoreDefine(t)
    PROVE  Left(t)'
<1> USE DEF Goto, Sound, TypeOK
<1>1. CASE CopyFails(t) \/ RemoveDone(t) \/ RestoreFails(t) \/ RestoreDefine(t)
  <2>1. th'[t].pc = "idle"
    BY <1>1 DEF CopyFails, RemoveDone, RestoreFails, RestoreDefine, Return, Idle
  <2> QED
    BY <2>1 DEF Left
<1>2. ASSUME NEW r \in BOOLEAN, Create(t, r) PROVE Left(t)'
  <2>1. th'[t].pc = "copy"
    BY <1>2 DEF Create, Idle
  <2> QED
    BY <2>1 DEF Left
<1>3. CASE CopyDisk(t)
  <2>1. th'[t].pc = IF th[t].k = MaxDisk THEN "meta" ELSE "copy"
    BY <1>3 DEF CopyDisk, Requests
  <2> QED
    BY <2>1 DEF Left
<1>4. ASSUME NEW keep, Goto(t, [Idle EXCEPT !.pc = "prune", !.keep = keep]) PROVE Left(t)'
  <2>1. th'[t].pc = "prune"
    BY <1>4 DEF Idle
  <2> QED
    BY <2>1 DEF Left
<1>5. ASSUME NEW s \in Stamps, NEW n \in News, Restore(t, s, n) PROVE Left(t)'
  <2>1. th'[t].pc = "restore"
    BY <1>5 DEF Restore, Idle
  <2> QED
    BY <2>1 DEF Left
<1>6. CASE RestoreDisk(t)
  <2>1. th'[t].pc = "restore"
    BY <1>6 DEF RestoreDisk, At, Requests
  <2> QED
    BY <2>1 DEF Left
<1> QED
  BY <1>1, <1>2, <1>3, <1>4, <1>5, <1>6 DEF WriteMetadata, PruneBackups

LEMMA RequestAlone ==
    ASSUME Sound, Alone, Request(t1)
    PROVE  Alone'
<1>1. \A t \in Threads : t # t1 => th'[t].pc = "idle"
  BY OthersStay, ModesAssumption DEF Alone
<1>2. Left(t1)'
  BY PruneListLeft, RemoveLeft, RemovedLeft, DeleteLeft, OtherLeft, ModesAssumption
     DEF Alone, Request
<1> QED
  BY <1>1, <1>2 DEF Alone

LEMMA AloneStep == AloneInv /\ [ModeNext]_<<mode, vars>> => AloneInv'
<1> SUFFICES ASSUME AloneInv, [ModeNext]_<<mode, vars>>, mode' = "one" PROVE Alone'
  BY ModesAreSteps, SoundStep DEF AloneInv
<1>1. CASE mode = "one" /\ (UNCHANGED vars \/ Power \/ \E k \in Slots : LoseDisk(k))
  <2>1. UNCHANGED <<backup, th>>
    BY <1>1 DEF vars, Power, LoseDisk
  <2> QED
    BY <1>1, <2>1 DEF AloneInv, Alone, Left, Listed
<1>2. CASE mode = "one" /\ AtlasRestarts
  <2>1. \A t \in Threads : th'[t].pc = "idle"
    BY <1>2 DEF AtlasRestarts, Idle
  <2> QED
    BY <2>1, ModesAssumption DEF Alone, Left
<1>3. CASE mode = "one" /\ Request(t1)
  BY <1>3, RequestAlone DEF AloneInv
<1> QED
  BY <1>1, <1>2, <1>3 DEF ModeNext, OneByOne

(* One request at a time, whatever is lost or restarted in between: the     *)
(* retention never takes a backup off the list while fewer newer ones are   *)
(* listed than it is to keep.                                               *)
THEOREM RetentionKeepsHolds == ModeSpec => RetentionKeeps
<1>1. ModeInit => AloneInv
  <2> SUFFICES ASSUME ModeInit PROVE Alone
    BY SoundInit DEF ModeInit, AloneInv
  <2>1. \A t \in Threads : th[t].pc = "idle"
    BY DEF ModeInit, Init, Idle
  <2> QED
    BY <2>1, ModesAssumption DEF Alone, Left
<1>2. AloneInv => [mode = "one" => KeepsRecent]_vars
  <2> SUFFICES ASSUME AloneInv, mode = "one", NEW t \in Threads, NEW s \in Stamps,
                      Remove(t, s), backup[s].meta, th[t].keep > 0
               PROVE  Cardinality({r \in Listed : r > s}) >= th[t].keep
    BY DEF KeepsRecent
  <2>1. th[t].pc = "remove" /\ s \in th[t].old /\ th[t].keep \in Nat
    BY Constants DEF Remove, At, AloneInv, Sound, TypeOK, Requests
  <2>2. t = t1
    BY <2>1 DEF AloneInv, Alone
  <2>3. Cardinality({r \in Listed \ th[t].old : r > s}) >= th[t].keep
    BY <2>1, <2>2 DEF AloneInv, Alone, Left
  <2>4. IsFiniteSet({r \in Listed : r > s})
    <3>1. {r \in Listed : r > s} \subseteq Stamps
      BY DEF Listed
    <3> QED
      BY <3>1, Constants, FS_Subset
  <2>5. {r \in Listed \ th[t].old : r > s} \subseteq {r \in Listed : r > s}
    OBVIOUS
  <2>6. /\ Cardinality({r \in Listed \ th[t].old : r > s}) <= Cardinality({r \in Listed : r > s})
        /\ Cardinality({r \in Listed \ th[t].old : r > s}) \in Nat
        /\ Cardinality({r \in Listed : r > s}) \in Nat
    BY <2>4, <2>5, FS_Subset, FS_CardinalityType
  <2> HIDE DEF Listed
  <2> QED
    BY <2>1, <2>3, <2>6
<1> QED
  BY <1>1, <1>2, AloneStep, PTL DEF ModeSpec, RetentionKeeps
=============================================================================
