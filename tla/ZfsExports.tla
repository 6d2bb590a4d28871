------------------------------ MODULE ZfsExports ------------------------------
(***************************************************************************)
(* ZFS snapshots and their exports (zfs_service.py): a background job picks *)
(* a file name that is free, lets zfs send write to it, removes it if that  *)
(* fails, and writes the metadata beside it.  Jobs run side by side with    *)
(* the requests that destroy snapshots and delete exports; AtlasVM may die. *)
(***************************************************************************)
CONSTANTS
    Snaps,       \* snapshots
    Bases,       \* file names; two snapshots may be given the same one
    Stamps,      \* seconds; one is part of the name when the plain one is taken
    Jobs, NoStamp, NoFile, NoSnap, NoPath

Plain(b) == <<b, NoStamp>>
Paths == Bases \X (Stamps \cup {NoStamp})
Files == [snap : Snaps, writer : Jobs, whole : BOOLEAN]

ConstantsAssumption == NoStamp \notin Stamps /\ NoPath \notin Paths /\ NoFile \notin Files

VARIABLES
    baseOf,     \* the plain name of each snapshot's export
    snaps,      \* the snapshots there are
    files,      \* the exports: snapshot, writer, whether the stream is whole
    meta,       \* their metadata: the snapshot it names
    job,        \* what each job does
    made,       \* the exports a job has reported and nobody deleted (ghost)
    disturbed   \* paths that were given or taken away under a job (ghost)

vars == <<baseOf, snaps, files, meta, job, made, disturbed>>

Idle == [pc |-> "idle", snap |-> NoSnap, path |-> NoPath]

(* Snapshots, files and jobs are what the code makes of them; a job at work *)
(* has a snapshot and a path.                                               *)
TypeOK ==
    /\ baseOf \in [Snaps -> Bases]
    /\ snaps \subseteq Snaps
    /\ files \in [Paths -> Files \cup {NoFile}]
    /\ meta \in [Paths -> Snaps \cup {NoSnap}]
    /\ \A j \in Jobs : \/ job[j] = Idle
                       \/ job[j].pc \in {"open", "send", "meta"} /\ job[j].snap \in Snaps
                          /\ job[j].path \in Paths
    /\ made \in SUBSET (Paths \X Snaps) /\ disturbed \subseteq Paths

Init ==
    /\ baseOf \in [Snaps -> Bases]
    /\ snaps = {}
    /\ files = [p \in Paths |-> NoFile] /\ meta = [p \in Paths |-> NoSnap]
    /\ job = [j \in Jobs |-> Idle]
    /\ made = {} /\ disturbed = {}

At(j, pc) == job[j].pc = pc
Working(p) == \E j \in Jobs : job[j].path = p
Return(j) == job' = [job EXCEPT ![j] = Idle]

-----------------------------------------------------------------------------
(* create_snapshot and destroy_snapshot; zfs refuses a name that is taken,  *)
(* and keeps a snapshot that is being sent.                                 *)
CreateSnapshot(s) ==
    /\ s \notin snaps
    /\ snaps' = snaps \cup {s}
    /\ UNCHANGED <<baseOf, files, meta, job, made, disturbed>>

DestroySnapshot(s) ==
    /\ s \in snaps /\ \A j \in Jobs : ~(At(j, "send") /\ job[j].snap = s)
    /\ snaps' = snaps \ {s}
    /\ UNCHANGED <<baseOf, files, meta, job, made, disturbed>>

(* A mutant of ChosenPath: whether the name is taken is not asked.          *)
PlainPath(s, stamp) == Plain(baseOf[s])

(* The plain name, or if it is taken the one with the time.                 *)
ChosenPath(s, stamp) ==
    IF files[Plain(baseOf[s])] = NoFile THEN Plain(baseOf[s]) ELSE <<baseOf[s], stamp>>

(* send_snapshot up to the choice of the path.  A stamp of a second that    *)
(* has been used, or a name another job has chosen and not opened, is taken *)
(* all the same.                                                            *)
Send(j, s, stamp) ==
    LET p == ChosenPath(s, stamp) IN
    /\ At(j, "idle")
    /\ job' = [job EXCEPT ![j] = [pc |-> "open", snap |-> s, path |-> p]]
    /\ disturbed' = IF Working(p) \/ (p # Plain(baseOf[s]) /\ files[p] # NoFile)
                    THEN disturbed \cup {p} ELSE disturbed
    /\ UNCHANGED <<baseOf, snaps, files, meta, made>>

OpenExport(j) ==
    /\ At(j, "open")
    /\ files' = [files EXCEPT ![job[j].path] =
                   [snap |-> job[j].snap, writer |-> j, whole |-> FALSE]]
    /\ job' = [job EXCEPT ![j].pc = "send"]
    /\ UNCHANGED <<baseOf, snaps, meta, made, disturbed>>

(* zfs send ends: with the whole stream, if the file is still the job's, ...*)
Sent(j) ==
    LET p == job[j].path IN
    /\ At(j, "send") /\ job[j].snap \in snaps
    /\ files' = IF files[p] # NoFile /\ files[p].writer = j
                THEN [files EXCEPT ![p].whole = TRUE] ELSE files
    /\ job' = [job EXCEPT ![j].pc = "meta"]
    /\ UNCHANGED <<baseOf, snaps, meta, made, disturbed>>

(* ... or with an error: whatever has the name is removed.                  *)
SendFails(j) ==
    /\ At(j, "send")
    /\ files' = [files EXCEPT ![job[j].path] = NoFile]
    /\ Return(j)
    /\ UNCHANGED <<baseOf, snaps, meta, made, disturbed>>

WriteMeta(j) ==
    /\ At(j, "meta")
    /\ meta' = [meta EXCEPT ![job[j].path] = job[j].snap]
    /\ made' = made \cup {<<job[j].path, job[j].snap>>}
    /\ Return(j)
    /\ UNCHANGED <<baseOf, snaps, files, disturbed>>

(* delete_export: the file first, then its metadata; AtlasVM may die        *)
(* between the two.                                                         *)
DeleteExport(p, dies) ==
    /\ files[p] # NoFile
    /\ files' = [files EXCEPT ![p] = NoFile]
    /\ meta' = IF dies THEN meta ELSE [meta EXCEPT ![p] = NoSnap]
    /\ made' = {m \in made : m[1] # p}
    /\ disturbed' = disturbed \cup {q \in Paths : Working(q) /\ (dies \/ q = p)}
    /\ job' = IF dies THEN [j \in Jobs |-> Idle] ELSE job
    /\ UNCHANGED <<baseOf, snaps>>

(* AtlasVM dies, and zfs send with it: the partial files stay.              *)
Crash ==
    /\ job' = [j \in Jobs |-> Idle]
    /\ disturbed' = disturbed \cup {p \in Paths : Working(p)}
    /\ UNCHANGED <<baseOf, snaps, files, meta, made>>

Next ==
    \/ \E s \in Snaps : CreateSnapshot(s) \/ DestroySnapshot(s)
    \/ \E j \in Jobs :
          \/ \E s \in snaps, stamp \in Stamps : Send(j, s, stamp)
          \/ OpenExport(j) \/ Sent(j) \/ SendFails(j) \/ WriteMeta(j)
    \/ \E p \in Paths, dies \in BOOLEAN : DeleteExport(p, dies)
    \/ Crash

Spec == Init /\ [][Next]_vars

-----------------------------------------------------------------------------
(* Properties.                                                              *)

(* An export whose job has reported success is the whole stream of its      *)
(* snapshot until somebody deletes it: later exports, also of a snapshot    *)
(* whose name reads the same in a file name, and those that fail, leave it  *)
(* alone, but for two jobs that chose one name in the same moment.          *)
MadeWhole ==
    \A m \in made : m[1] \notin disturbed =>
        /\ files[m[1]] # NoFile
        /\ files[m[1]].whole /\ files[m[1]].snap = m[2]

(* What is there and not whole is being written: an export that fails       *)
(* leaves nothing.                                                          *)
PartialAtWork ==
    \A p \in Paths : files[p] # NoFile /\ ~files[p].whole => Working(p) \/ p \in disturbed
=============================================================================
