----------------------------- MODULE HostNetwork -----------------------------
(***************************************************************************)
(* The management network of the host (host_mgmt_network.py): a plan is     *)
(* saved, applied under a rollback timer, and confirmed or rolled back.     *)
(* AtlasVM's requests, the timer and the rollback service it starts run     *)
(* side by side over the files of /etc/systemd/network, which outlive a     *)
(* reboot.  A file's content is the plan that wrote it.                     *)
(***************************************************************************)
EXTENDS Integers, Sequences

CONSTANTS
    Plans,    \* what the form can hold: interface, VLAN or NoVlan, address
    NoVlan,
    NoPlan,   \* no plan saved; no such file
    NoConf,   \* no rollback script; no backup
    Threads,  \* request threads
    Habits,   \* what operators are careful about, see below
    Faults    \* what may go wrong: "reboot", "restart", "write", "systemctl"

Service == "atlasvm-network-rollback.service"
Procs   == Threads \cup {Service}

(* 10-atlasvm-<iface>.network, 10-atlasvm-<vlan>.netdev, 11-atlasvm-<vlan>  *)
Networks == {<<"10-network", p.iface>> : p \in Plans}
Netdevs  == {<<"10-netdev", p.vlan>> : p \in {q \in Plans : q.vlan # NoVlan}}
Vlans    == {<<"11-network", p.vlan>> : p \in {q \in Plans : q.vlan # NoVlan}}
Files    == Networks \cup Netdevs \cup Vlans
Confs    == [Files -> Plans \cup {NoPlan}]

ASSUME ConstantsAssumption ==
    /\ NoPlan \notin Plans
    /\ NoConf \notin Confs
    /\ Service \notin Threads
    /\ Habits \subseteq {"confirm_first", "no_overlap"}
    /\ Faults \subseteq {"reboot", "restart", "write", "systemctl"}

VARIABLES
    plan,     \* PLAN_FILE
    conf,     \* AtlasVM's files in /etc/systemd/network
    live,     \* the files systemd-networkd last read
    st,       \* STATE_FILE: applied or confirmed, and the backup
    script,   \* the backup the rollback script restores
    timer,    \* the rollback timer: inactive, waiting or elapsed
    enabled,  \* whether the timer starts at boot
    pc, loc,  \* each process's place in the code and what it has read
    missed    \* history: the last confirmation's call to disable the timer
              \* failed, or came when a rollback was already running

vars == <<plan, conf, live, st, script, timer, enabled, pc, loc, missed>>

Empty   == [f \in Files |-> NoPlan]
Nothing == [plan |-> NoPlan, backup |-> NoConf]

(* The files and units have the states the code and systemd give them.      *)
TypeOK ==
    /\ plan \in Plans \cup {NoPlan}
    /\ conf \in Confs /\ live \in Confs
    /\ st \in [status : {"none", "applied", "confirmed"}, backup : Confs \cup {NoConf}]
    /\ script \in Confs \cup {NoConf}
    /\ timer \in {"inactive", "waiting", "elapsed"}
    /\ enabled \in BOOLEAN /\ missed \in BOOLEAN
    /\ pc \in [Procs -> {"idle", "write", "state", "script", "timer", "restart",
                         "confirm", "wipe", "copy"}]
    /\ loc \in [Procs -> [plan : Plans \cup {NoPlan}, backup : Confs \cup {NoConf}]]

Init ==
    /\ plan = NoPlan
    /\ conf = Empty /\ live = Empty
    /\ st = [status |-> "none", backup |-> NoConf]
    /\ script = NoConf
    /\ timer = "inactive" /\ enabled = FALSE /\ missed = FALSE
    /\ pc = [p \in Procs |-> "idle"]
    /\ loc = [p \in Procs |-> Nothing]

At(p, l)   == pc[p] = l
Goto(p, l) == pc' = [pc EXCEPT ![p] = l]
Read(p, pl, b) == loc' = [loc EXCEPT ![p] = [plan |-> pl, backup |-> b]]
Stay(p, l) == Goto(p, l) /\ UNCHANGED loc
Finish(p)  == Goto(p, "idle") /\ loc' = [loc EXCEPT ![p] = Nothing]

files == <<plan, conf, live, st, script>>
units == <<timer, enabled, missed>>

(* A request of an operator who is careful not to overlap a rollback.       *)
Requested(t) ==
    /\ At(t, "idle")
    /\ "no_overlap" \in Habits => At(Service, "idle")

(* A call of systemctl or a write that raises ends the request.             *)
Raises(t, fault) ==
    /\ fault \in Faults
    /\ Finish(t)

-----------------------------------------------------------------------------
(* save_plan *)
SavePlan(t, p) ==
    /\ Requested(t)
    /\ plan' = p
    /\ UNCHANGED <<conf, live, st, script, units, pc, loc>>

(* apply_plan: load_plan and backup_network_config.  An operator may be     *)
(* careful to confirm one plan before applying the next.                    *)
ApplyBackup(t) ==
    /\ Requested(t)
    /\ plan # NoPlan
    /\ "confirm_first" \in Habits => st.status # "applied"
    /\ Read(t, plan, conf)
    /\ Goto(t, "write")
    /\ UNCHANGED <<files, units>>

(* The files a plan writes, in turn; those of an earlier plan stay.         *)
Writes(p) ==
    IF p.vlan = NoVlan
    THEN << <<"10-network", p.iface>> >>
    ELSE << <<"10-netdev", p.vlan>>, <<"10-network", p.iface>>, <<"11-network", p.vlan>> >>

(* write_networkd_config: a write that fails leaves the files before it.    *)
ApplyWrite(t) ==
    LET w == Writes(loc[t].plan) IN
    /\ At(t, "write")
    /\ \E n \in 0..Len(w) :
          /\ conf' = [f \in Files |-> IF f \in {w[i] : i \in 1..n} THEN loc[t].plan ELSE conf[f]]
          /\ \/ n = Len(w) /\ Stay(t, "state")
             \/ n < Len(w) /\ Raises(t, "write")
    /\ UNCHANGED <<plan, live, st, script, units>>

ApplyState(t) ==
    /\ At(t, "state")
    /\ st' = [status |-> "applied", backup |-> loc[t].backup]
    /\ Goto(t, "script")
    /\ UNCHANGED <<plan, conf, live, script, units, loc>>

(* A mutant of ApplyScript: the script restores the plan.                   *)
ApplyScriptPlan(t) ==
    /\ At(t, "script")
    /\ script' = loc[t].plan
    /\ Goto(t, "timer")
    /\ UNCHANGED <<plan, conf, live, st, units, loc>>

(* install_rollback: the script, its service and its timer are written.     *)
ApplyScript(t) ==
    /\ At(t, "script")
    /\ script' = loc[t].backup
    /\ Goto(t, "timer")
    /\ UNCHANGED <<plan, conf, live, st, units, loc>>

(* A mutant of StartTimer: the timer is left to the next boot.              *)
StartTimerLater == UNCHANGED timer

(* Starting a timer that is active, waiting or elapsed, does nothing.       *)
StartTimer == timer' = IF timer = "inactive" THEN "waiting" ELSE timer

(* systemctl enable --now atlasvm-network-rollback.timer: a call that fails *)
(* may have enabled the timer without starting it.                          *)
ApplyTimer(t) ==
    /\ At(t, "timer")
    /\ \/ StartTimer /\ enabled' = TRUE /\ Stay(t, "restart")
       \/ Raises(t, "systemctl") /\ enabled' \in {enabled, TRUE} /\ UNCHANGED timer
    /\ UNCHANGED <<files, missed>>

(* systemctl restart systemd-networkd, in apply_plan, where it may raise,   *)
(* and in the script, which goes on.                                        *)
Restart(p) ==
    /\ At(p, "restart")
    /\ \/ live' = conf
       \/ "systemctl" \in Faults /\ UNCHANGED live
    /\ Finish(p)
    /\ UNCHANGED <<plan, conf, st, script, units>>

-----------------------------------------------------------------------------
(* A mutant of ConfirmDisable: the timer is stopped, but starts at boot.    *)
ConfirmStop(t) ==
    /\ Requested(t)
    /\ timer' = "inactive"
    /\ missed' = ~At(Service, "idle")
    /\ Goto(t, "confirm")
    /\ UNCHANGED <<files, enabled, loc>>

(* cancel_rollback: systemctl disable --now, whose result the code does not *)
(* look at: it may do nothing, or disable the timer and leave it running.   *)
ConfirmDisable(t) ==
    /\ Requested(t)
    /\ \/ timer' = "inactive" /\ enabled' = FALSE /\ missed' = ~At(Service, "idle")
       \/ /\ "systemctl" \in Faults
          /\ enabled' \in {enabled, FALSE}
          /\ missed' = TRUE
          /\ UNCHANGED timer
    /\ Goto(t, "confirm")
    /\ UNCHANGED <<files, loc>>

ConfirmState(t) ==
    /\ At(t, "confirm")
    /\ st' = [st EXCEPT !.status = "confirmed"]
    /\ Goto(t, "idle")
    /\ UNCHANGED <<plan, conf, live, script, units, loc>>

(* rollback_now: the timer keeps running.                                   *)
RollbackNow(t) ==
    /\ Requested(t)
    /\ script # NoConf
    /\ Read(t, NoPlan, script)
    /\ Goto(t, "wipe")
    /\ UNCHANGED <<files, units>>

(* The timer starts the rollback service, unless that is still running.     *)
TimerFires ==
    /\ timer = "waiting"
    /\ timer' = "elapsed"
    /\ IF At(Service, "idle")
       THEN Read(Service, NoPlan, script) /\ Goto(Service, "wipe")
       ELSE UNCHANGED <<pc, loc>>
    /\ UNCHANGED <<files, enabled, missed>>

(* A mutant of Wiped: the files of the VLANs are forgotten.                 *)
WipedNetworks == Networks \cup Netdevs

(* The patterns of the script's rm -f.                                      *)
Wiped == Networks \cup Netdevs \cup Vlans

Wipe(p) ==
    /\ At(p, "wipe")
    /\ conf' = [f \in Files |-> IF f \in Wiped THEN NoPlan ELSE conf[f]]
    /\ Goto(p, "copy")
    /\ UNCHANGED <<plan, live, st, script, units, loc>>

(* cp -a of the backup.                                                     *)
Copy(p) ==
    LET b == loc[p].backup IN
    /\ At(p, "copy")
    /\ conf' = [f \in Files |-> IF b[f] # NoPlan THEN b[f] ELSE conf[f]]
    /\ Goto(p, "restart")
    /\ UNCHANGED <<plan, live, st, script, units, loc>>

-----------------------------------------------------------------------------
(* AtlasVM's service starts again; the rollback service is another unit.    *)
AtlasRestarts ==
    /\ "restart" \in Faults
    /\ pc' = [p \in Procs |-> IF p = Service THEN pc[p] ELSE "idle"]
    /\ loc' = [p \in Procs |-> IF p = Service THEN loc[p] ELSE Nothing]
    /\ UNCHANGED <<files, units>>

(* Power loss, or a reboot: networkd reads what is on disk, and an enabled  *)
(* timer waits anew.                                                        *)
Reboot ==
    /\ "reboot" \in Faults
    /\ pc' = [p \in Procs |-> "idle"]
    /\ loc' = [p \in Procs |-> Nothing]
    /\ live' = conf
    /\ timer' = IF enabled THEN "waiting" ELSE "inactive"
    /\ UNCHANGED <<plan, conf, st, script, enabled, missed>>

Request(t) ==
    \/ \E p \in Plans : SavePlan(t, p)
    \/ ApplyBackup(t) \/ ConfirmDisable(t) \/ RollbackNow(t)

Continue(t) ==
    \/ ApplyWrite(t) \/ ApplyState(t) \/ ApplyScript(t) \/ ApplyTimer(t)
    \/ ConfirmState(t)

Script(p) == Wipe(p) \/ Copy(p) \/ Restart(p)

Next ==
    \/ \E t \in Threads : Request(t) \/ Continue(t)
    \/ \E p \in Procs : Script(p)
    \/ TimerFires
    \/ AtlasRestarts \/ Reboot

Spec == Init /\ [][Next]_vars

-----------------------------------------------------------------------------
Quiet == \A t \in Threads : At(t, "idle")

(* main.py:1028, "Confirm within the rollback window or it will revert":    *)
(* between requests, a plan that is applied under an installed timer, and   *)
(* not confirmed, is live only while a rollback is waiting or under way.    *)
Guarded ==
    Quiet /\ st.status = "applied" /\ enabled /\ live # st.backup =>
       timer = "waiting" \/ ~At(Service, "idle")

(* main.py:1037, "Management network confirmed. Rollback cancelled.": it is *)
(* so unless the confirmation missed, because its call failed or a rollback *)
(* was running: none runs, waits, or comes with the next boot.              *)
ConfirmSticks ==
    st.status = "confirmed" /\ ~missed =>
       timer = "inactive" /\ ~enabled /\ At(Service, "idle")

(* A rollback that has copied its backup leaves the files as they were when *)
(* the backup was made: none of the plan's own files survives.              *)
RollbackRestores ==
    Quiet /\ At(Service, "restart") => conf = loc[Service].backup

(* Once the host stops rebooting, a plan applied under an installed timer   *)
(* is confirmed, which disables the timer, or reverted, even if nobody asks *)
(* for anything again.                                                      *)
AppliedResolves ==
    (<>[][~Reboot]_vars) =>
       ((st.status = "applied" /\ enabled) ~> (~enabled \/ live = st.backup))

=============================================================================
