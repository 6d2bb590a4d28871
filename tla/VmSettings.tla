------------------------------ MODULE VmSettings ------------------------------
(***************************************************************************)
(* One VM's definition and the machine that runs from it (libvirt_service): *)
(* its size, the ISO in its drive, the template marker in its description,  *)
(* its snapshots.  A request asks libvirt whether the VM runs, reads what   *)
(* it is to change, and writes it, in calls between which the VM may be     *)
(* switched on or off and another request may write.                        *)
(***************************************************************************)
CONSTANTS
    Isos,      \* images in the library's directory
    Sizes,     \* memory and vCPUs
    Snaps,     \* names of snapshots
    Threads, NoIso, NoSize, NoRun, NoSnap

VARIABLES
    conf,      \* the definition
    machine,   \* what the running machine has, NoRun if it is off
    isos,      \* the images there are
    snaps,     \* the snapshots
    th,        \* what each request has found out and where it is
    crossed,   \* it was started under a request that asked before (ghost)
    stale      \* requests whose reading of the description is old (ghost)

vars == <<conf, machine, isos, snaps, th, crossed, stale>>

Confs    == [iso : Isos \cup {NoIso}, size : Sizes, template : BOOLEAN]
Machines == [iso : Isos \cup {NoIso}, size : Sizes]
Snapshots == [conf : Confs, machine : Machines \cup {NoRun}, crossed : BOOLEAN]
Requested == [pc : {"idle", "flags", "media", "size", "readEdit", "writeEdit", "writeMark"},
              iso : Isos \cup {NoIso}, size : Sizes \cup {NoSize},
              live : BOOLEAN, flag : BOOLEAN]
Idle     == [pc |-> "idle", iso |-> NoIso, size |-> NoSize,
             live |-> FALSE, flag |-> FALSE]

ConstantsAssumption == NoRun \notin Machines /\ NoSnap \notin Snapshots

(* Definition, machine, snapshots and requests are what the code makes of   *)
(* them, and only a running machine differs from its definition.            *)
TypeOK ==
    /\ conf \in Confs /\ machine \in Machines \cup {NoRun}
    /\ isos \subseteq Isos
    /\ snaps \in [Snaps -> Snapshots \cup {NoSnap}]
    /\ th \in [Threads -> Requested]
    /\ crossed \in BOOLEAN /\ (crossed => machine # NoRun)
    /\ stale \subseteq {t \in Threads : th[t].pc = "writeEdit"}

Init ==
    /\ \E s \in Sizes :
          conf = [iso |-> NoIso, size |-> s, template |-> FALSE]
    /\ machine = NoRun /\ isos = {}
    /\ snaps = [s \in Snaps |-> NoSnap]
    /\ th = [t \in Threads |-> Idle]
    /\ crossed = FALSE /\ stale = {}

-----------------------------------------------------------------------------

On == machine # NoRun
At(t, pc) == th[t].pc = pc
Goto(t, r) == th' = [th EXCEPT ![t] = r]
Pending    == \E t \in Threads : ~At(t, "idle")

-----------------------------------------------------------------------------
(* attach_iso and eject_iso: a running VM needs the operator's "live", ...  *)
Media(t, iso, live) ==
    /\ At(t, "idle")
    /\ iso \in isos \cup {NoIso}
    /\ ~(On /\ ~live)
    /\ Goto(t, [Idle EXCEPT !.pc = "flags", !.iso = iso, !.live = live])
    /\ UNCHANGED <<conf, machine, isos, snaps, crossed, stale>>

(* A mutant of MediaFlags: the definition alone is changed.                 *)
MediaConfig(t) ==
    /\ At(t, "flags")
    /\ Goto(t, [th[t] EXCEPT !.pc = "media", !.flag = FALSE])
    /\ UNCHANGED <<conf, machine, isos, snaps, crossed, stale>>

(* ... libvirt is asked once more whether it runs, ...                      *)
MediaFlags(t) ==
    /\ At(t, "flags")
    /\ Goto(t, [th[t] EXCEPT !.pc = "media", !.flag = On /\ th[t].live])
    /\ UNCHANGED <<conf, machine, isos, snaps, crossed, stale>>

(* ... and changes the drive: of the machine too, which must run then.      *)
MediaUpdate(t) ==
    /\ At(t, "media")
    /\ \/ /\ th[t].flag => On
          /\ conf' = [conf EXCEPT !.iso = th[t].iso]
          /\ machine' = IF th[t].flag THEN [machine EXCEPT !.iso = th[t].iso] ELSE machine
       \/ UNCHANGED <<conf, machine>>
    /\ Goto(t, Idle)
    /\ UNCHANGED <<isos, snaps, crossed, stale>>

(* update_vm_basic: another size is refused while the VM runs, ...          *)
Edit(t, size, marked) ==
    /\ At(t, "idle")
    /\ ~(On /\ size # conf.size)
    /\ Goto(t, [Idle EXCEPT !.pc = IF size = conf.size THEN "readEdit" ELSE "size",
                            !.size = size, !.live = marked])
    /\ UNCHANGED <<conf, machine, isos, snaps, crossed, stale>>

(* ... the new one is written to the definition, or libvirt refuses, ...    *)
EditSize(t) ==
    /\ At(t, "size")
    /\ \/ /\ conf' = [conf EXCEPT !.size = th[t].size]
          /\ Goto(t, [th[t] EXCEPT !.pc = "readEdit"])
       \/ UNCHANGED conf /\ Goto(t, Idle)
    /\ UNCHANGED <<machine, isos, snaps, crossed, stale>>

(* ... the old description is read for the marker, ...                      *)
EditRead(t) ==
    /\ At(t, "readEdit")
    /\ Goto(t, [th[t] EXCEPT !.pc = "writeEdit", !.flag = conf.template])
    /\ UNCHANGED <<conf, machine, isos, snaps, crossed, stale>>

(* The requests that have read the description before this one writes it.   *)
Overtaken(t) == (stale \cup {q \in Threads : At(q, "writeEdit")}) \ {t}

(* A mutant of EditWrite: the description is what the form says.            *)
EditWriteForm(t) ==
    /\ At(t, "writeEdit")
    /\ conf' = [conf EXCEPT !.template = th[t].live]
    /\ stale' = Overtaken(t)
    /\ Goto(t, Idle)
    /\ UNCHANGED <<machine, isos, snaps, crossed>>

(* ... and the new one written, with the marker if either has it.           *)
EditWrite(t) ==
    /\ At(t, "writeEdit")
    /\ \/ /\ conf' = [conf EXCEPT !.template = th[t].flag \/ th[t].live]
          /\ stale' = Overtaken(t)
       \/ UNCHANGED conf /\ stale' = stale \ {t}
    /\ Goto(t, Idle)
    /\ UNCHANGED <<machine, isos, snaps, crossed>>

(* set_template: refused while the VM runs; then the description is read    *)
(* and written with or without the marker (autostart is left out).          *)
Mark(t, enabled) ==
    /\ At(t, "idle")
    /\ ~On
    /\ Goto(t, [Idle EXCEPT !.pc = "writeMark", !.flag = enabled])
    /\ UNCHANGED <<conf, machine, isos, snaps, crossed, stale>>

MarkWrite(t) ==
    /\ At(t, "writeMark")
    /\ \/ /\ conf' = [conf EXCEPT !.template = th[t].flag]
          /\ stale' = Overtaken(t)
       \/ UNCHANGED conf /\ stale' = stale \ {t}
    /\ Goto(t, Idle)
    /\ UNCHANGED <<machine, isos, snaps, crossed>>

-----------------------------------------------------------------------------
(* create_snapshot, revert_snapshot, delete_snapshot: libvirt keeps the     *)
(* definition and, if it runs, the machine.                                 *)
CreateSnapshot(s) ==
    /\ snaps[s] = NoSnap
    /\ snaps' = [snaps EXCEPT ![s] = [conf |-> conf, machine |-> machine,
                                      crossed |-> crossed]]
    /\ UNCHANGED <<conf, machine, isos, th, crossed, stale>>

Revert(s) ==
    /\ snaps[s] # NoSnap
    /\ conf' = snaps[s].conf
    /\ machine' = snaps[s].machine
    /\ crossed' = (snaps[s].machine # NoRun /\ (snaps[s].crossed \/ Pending))
    /\ stale' = stale \cup {t \in Threads : At(t, "writeEdit")}
    /\ UNCHANGED <<isos, snaps, th>>

DeleteSnapshot(s) ==
    /\ snaps[s] # NoSnap
    /\ snaps' = [snaps EXCEPT ![s] = NoSnap]
    /\ UNCHANGED <<conf, machine, isos, th, crossed, stale>>

(* The machine starts from its definition, if its ISO is still there.       *)
Start ==
    /\ ~On
    /\ conf.iso \in isos \cup {NoIso}
    /\ machine' = [iso |-> conf.iso, size |-> conf.size]
    /\ crossed' = Pending
    /\ UNCHANGED <<conf, isos, snaps, th, stale>>

Stop ==
    /\ On
    /\ machine' = NoRun /\ crossed' = FALSE
    /\ UNCHANGED <<conf, isos, snaps, th, stale>>

(* upload_iso and delete_iso: nobody asks whether the image is in a drive.  *)
UploadIso(i) ==
    /\ isos' = isos \cup {i}
    /\ UNCHANGED <<conf, machine, snaps, th, crossed, stale>>

DeleteIso(i) ==
    /\ i \in isos
    /\ isos' = isos \ {i}
    /\ UNCHANGED <<conf, machine, snaps, th, crossed, stale>>

Requests(t) ==
    \/ \E i \in Isos \cup {NoIso}, live \in BOOLEAN : Media(t, i, live)
    \/ \E s \in Sizes, marked \in BOOLEAN : Edit(t, s, marked)
    \/ \E enabled \in BOOLEAN : Mark(t, enabled)

Calls(t) ==
    \/ MediaFlags(t) \/ MediaUpdate(t)
    \/ EditSize(t) \/ EditRead(t) \/ EditWrite(t) \/ MarkWrite(t)

Next ==
    \/ \E t \in Threads : Requests(t) \/ Calls(t)
    \/ \E s \in Snaps : CreateSnapshot(s) \/ Revert(s) \/ DeleteSnapshot(s)
    \/ Start \/ Stop
    \/ \E i \in Isos : UploadIso(i) \/ DeleteIso(i)

Spec == Init /\ [][Next]_vars

-----------------------------------------------------------------------------
(* Properties.                                                              *)

(* A running machine has the size and the medium its definition says, by    *)
(* way of live changes, stops in the middle of one, and snapshots taken and *)
(* restored; only one that was started under a request that had already     *)
(* asked whether it runs may differ.                                        *)
RunsAsDefined ==
    On /\ ~crossed => machine = [iso |-> conf.iso, size |-> conf.size]

(* A template stays one until an operator unmarks it or restores a snapshot *)
(* of before: an edit of the description does not, unless another request   *)
(* has written the description since this one read it.                      *)
TemplatesKept ==
    [][conf.template /\ ~conf'.template =>
         \/ \E s \in Snaps : Revert(s)
         \/ \E t \in Threads : At(t, "writeMark") /\ MarkWrite(t)
         \/ \E t \in stale : EditWrite(t)]_vars
=============================================================================
