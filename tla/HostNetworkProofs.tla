------------------------- MODULE HostNetworkProofs -------------------------
(***************************************************************************)
(* Proofs about the management network: types, for any operators, faults    *)
(* and habits; that, with one request at a time, a confirmation that did    *)
(* not miss sticks across restarts, reboots and failed calls; and that a    *)
(* rollback is ahead and restores the files when, besides, the operator is  *)
(* careful and no call of systemctl fails.                                  *)
(***************************************************************************)
EXTENDS HostNetworkModes, TLAPS

(* A process that runs a script has read a backup: there is one to read     *)
(* once the timer has been started.                                         *)
ScriptRead ==
    /\ timer = "waiting" \/ enabled \/ (\E t \in Threads : At(t, "timer")) => script \in Confs
    /\ \A p \in Procs : pc[p] \in {"wipe", "copy"} => loc[p].backup \in Confs
    /\ \A t \in Threads : pc[t] \in {"write", "state", "script"} =>
          loc[t].backup \in Confs /\ loc[t].plan \in Plans
    /\ pc[Service] \in {"idle", "wipe", "copy", "restart"}

Labels == {"idle", "write", "state", "script", "timer", "restart", "confirm",
           "wipe", "copy"}
Locals == [plan : Plans \cup {NoPlan}, backup : Confs \cup {NoConf}]

LEMMA TypeInit == Init => TypeOK /\ ScriptRead
<1> SUFFICES ASSUME Init PROVE TypeOK /\ ScriptRead
  OBVIOUS
<1>1. /\ pc = [p \in Procs |-> "idle"] /\ Service \in Procs /\ Threads \subseteq Procs
      /\ loc \in [Procs -> Locals]
  BY DEF Init, Procs, Locals, Nothing
<1>2. Empty \in Confs
  BY DEF Empty, Confs
<1> QED
  BY <1>1, <1>2 DEF Init, TypeOK, ScriptRead, At, Locals

LEMMA TypeStep ==
    ASSUME TypeOK, ScriptRead, [Next]_vars
    PROVE  TypeOK' /\ ScriptRead'
<1> USE DEF Labels, Locals, Stay, Finish, Nothing
<1>a. Service \notin Threads /\ Service \in Procs /\ Threads \subseteq Procs
  BY ConstantsAssumption DEF Procs
<1>t. /\ pc \in [Procs -> Labels] /\ loc \in [Procs -> Locals]
      /\ plan \in Plans \cup {NoPlan} /\ conf \in Confs /\ live \in Confs
      /\ script \in Confs \cup {NoConf}
  BY DEF TypeOK
<1>1. ASSUME NEW t \in Threads, NEW p \in Plans, SavePlan(t, p)
      PROVE  TypeOK' /\ ScriptRead'
  BY <1>1 DEF SavePlan, TypeOK, ScriptRead, At, units
<1>2. ASSUME NEW t \in Threads, ApplyBackup(t) PROVE TypeOK' /\ ScriptRead'
  BY <1>2, <1>a, <1>t
     DEF ApplyBackup, Requested, Goto, Read, TypeOK, ScriptRead, At, files, units
<1>3. ASSUME NEW t \in Threads, ApplyWrite(t) PROVE TypeOK' /\ ScriptRead'
  <2> PICK n :
        /\ conf' = [f \in Files |-> IF f \in {Writes(loc[t].plan)[i] : i \in 1..n}
                                     THEN loc[t].plan ELSE conf[f]]
        /\ Stay(t, "state") \/ Finish(t)
    BY <1>3 DEF ApplyWrite, Raises
  <2>1. conf' \in Confs
    <3>1. loc[t].plan \in Plans
      BY <1>3 DEF ApplyWrite, At, ScriptRead
    <3> QED
      BY <3>1, <1>t DEF Confs
  <2>2. pc' \in [Procs -> Labels] /\ ScriptRead'
    BY <1>3, <1>a, <1>t DEF ApplyWrite, Goto, ScriptRead, At, units
  <2> QED
    BY <1>3, <2>1, <2>2 DEF ApplyWrite, TypeOK, units
<1>4. ASSUME NEW t \in Threads, ApplyState(t) PROVE TypeOK' /\ ScriptRead'
  BY <1>4, <1>a, <1>t DEF ApplyState, Goto, TypeOK, ScriptRead, At, units
<1>5. ASSUME NEW t \in Threads, ApplyScript(t) PROVE TypeOK' /\ ScriptRead'
  BY <1>5, <1>a, <1>t DEF ApplyScript, Goto, TypeOK, ScriptRead, At, units
<1>6. ASSUME NEW t \in Threads, ApplyTimer(t) PROVE TypeOK' /\ ScriptRead'
  <2>1. CASE StartTimer /\ enabled' = TRUE /\ Stay(t, "restart")
    BY <1>6, <2>1, <1>a, <1>t
       DEF ApplyTimer, StartTimer, Goto, TypeOK, ScriptRead, At, files
  <2>2. CASE Raises(t, "systemctl") /\ enabled' \in {enabled, TRUE} /\ UNCHANGED timer
    BY <1>6, <2>2, <1>a, <1>t
       DEF ApplyTimer, Raises, Goto, TypeOK, ScriptRead, At, files
  <2> QED
    BY <1>6, <2>1, <2>2 DEF ApplyTimer
<1>7. ASSUME NEW p \in Procs, Restart(p) PROVE TypeOK' /\ ScriptRead'
  BY <1>7, <1>a, <1>t DEF Restart, Goto, TypeOK, ScriptRead, At, units
<1>8. ASSUME NEW t \in Threads, ConfirmDisable(t) PROVE TypeOK' /\ ScriptRead'
  <2>1. CASE timer' = "inactive" /\ enabled' = FALSE /\ missed' = ~At(Service, "idle")
    BY <1>8, <2>1, <1>a, <1>t
       DEF ConfirmDisable, Requested, Goto, TypeOK, ScriptRead, At, files
  <2>2. CASE enabled' = enabled /\ missed' = TRUE /\ UNCHANGED timer
    BY <1>8, <2>2, <1>a, <1>t
       DEF ConfirmDisable, Requested, Goto, TypeOK, ScriptRead, At, files
  <2>3. CASE enabled' = FALSE /\ missed' = TRUE /\ UNCHANGED timer
    BY <1>8, <2>3, <1>a, <1>t
       DEF ConfirmDisable, Requested, Goto, TypeOK, ScriptRead, At, files
  <2> QED
    BY <1>8, <2>1, <2>2, <2>3 DEF ConfirmDisable
<1>9. ASSUME NEW t \in Threads, ConfirmState(t) PROVE TypeOK' /\ ScriptRead'
  BY <1>9, <1>a, <1>t DEF ConfirmState, Goto, TypeOK, ScriptRead, At, units
<1>10. ASSUME NEW t \in Threads, RollbackNow(t) PROVE TypeOK' /\ ScriptRead'
  BY <1>10, <1>a, <1>t
     DEF RollbackNow, Requested, Goto, Read, TypeOK, ScriptRead, At, files, units
<1>11. CASE TimerFires
  BY <1>11, <1>a, <1>t DEF TimerFires, Goto, Read, TypeOK, ScriptRead, At, files
<1>12. ASSUME NEW p \in Procs, Wipe(p) PROVE TypeOK' /\ ScriptRead'
  <2>1. conf' \in Confs
    BY <1>12, <1>t DEF Wipe, Confs
  <2>2. pc' \in [Procs -> Labels] /\ ScriptRead'
    BY <1>12, <1>a, <1>t DEF Wipe, Goto, ScriptRead, At, units
  <2> QED
    BY <1>12, <2>1, <2>2 DEF Wipe, TypeOK, units
<1>13. ASSUME NEW p \in Procs, Copy(p) PROVE TypeOK' /\ ScriptRead'
  <2>1. conf' \in Confs
    BY <1>13, <1>t DEF Copy, ScriptRead, At, Confs
  <2>2. pc' \in [Procs -> Labels] /\ ScriptRead'
    BY <1>13, <1>a, <1>t DEF Copy, Goto, ScriptRead, At, units
  <2> QED
    BY <1>13, <2>1, <2>2 DEF Copy, TypeOK, units
<1>14. CASE AtlasRestarts
  BY <1>14, <1>a, <1>t DEF AtlasRestarts, TypeOK, ScriptRead, At, files, units
<1>15. CASE Reboot
  BY <1>15, <1>a, <1>t DEF Reboot, TypeOK, ScriptRead, At
<1>16. CASE UNCHANGED vars
  BY <1>16 DEF vars, TypeOK, ScriptRead, At
<1> QED
  BY <1>1, <1>2, <1>3, <1>4, <1>5, <1>6, <1>7, <1>8, <1>9, <1>10, <1>11, <1>12,
     <1>13, <1>14, <1>15, <1>16 DEF Next, Request, Continue, Script

(* Files, units and processes keep the states the code and systemd give     *)
(* them; in particular no script restores a backup that was never made.     *)
THEOREM TypeCorrect == Spec => []TypeOK
<1>1. TypeOK /\ ScriptRead /\ [Next]_vars => TypeOK' /\ ScriptRead'
  BY TypeStep
<1> QED
  BY <1>1, TypeInit, PTL DEF Spec

-----------------------------------------------------------------------------
(* With one request thread: what it is about to confirm has no rollback to  *)
(* come, and the timer is only started for a plan that is not confirmed.    *)
Disarmed == timer = "inactive" /\ enabled = FALSE /\ pc[Service] = "idle"

Sticks(t) ==
    /\ pc \in [Procs -> Labels]
    /\ (pc[t] = "confirm" \/ st.status = "confirmed") /\ ~missed => Disarmed
    /\ pc[t] \in {"script", "timer"} => st.status = "applied"
    /\ enabled \in BOOLEAN
    /\ pc[Service] # "timer"

LEMMA SticksStep ==
    ASSUME NEW t, Threads = {t}, TypeOK, ScriptRead, Sticks(t), [Next]_vars
    PROVE  Sticks(t)'
<1> USE DEF Labels, Sticks, Disarmed, At, Stay, Finish
<1>a. t # Service /\ Procs = {t, Service}
  BY ConstantsAssumption DEF Procs
<1>s. st \in [status : {"none", "applied", "confirmed"}, backup : Confs \cup {NoConf}]
      /\ pc[Service] \in {"idle", "wipe", "copy", "restart"}
  BY DEF TypeOK, ScriptRead
<1>1. ASSUME NEW p, SavePlan(t, p) PROVE Sticks(t)'
  BY <1>1 DEF SavePlan, units
<1>2. CASE ApplyBackup(t)
  BY <1>2, <1>a DEF ApplyBackup, Requested, Goto, files, units
<1>3. CASE ApplyWrite(t)
  BY <1>3, <1>a DEF ApplyWrite, Raises, Goto, units
<1>4. CASE ApplyState(t)
  BY <1>4, <1>a DEF ApplyState, Goto, units
<1>5. CASE ApplyScript(t)
  BY <1>5, <1>a DEF ApplyScript, Goto, units
<1>6. CASE ApplyTimer(t)
  BY <1>6, <1>a DEF ApplyTimer, StartTimer, Raises, Goto, files, units
<1>7. ASSUME NEW p \in Procs, Restart(p) PROVE Sticks(t)'
  BY <1>7, <1>a DEF Restart, Goto, units
<1>8. CASE ConfirmDisable(t)
  BY <1>8, <1>a DEF ConfirmDisable, Requested, Goto, files
<1>9. CASE ConfirmState(t)
  BY <1>9, <1>a, <1>s DEF ConfirmState, Goto, units
<1>10. CASE RollbackNow(t)
  BY <1>10, <1>a DEF RollbackNow, Requested, Goto, files, units
<1>11. CASE TimerFires
  BY <1>11, <1>a DEF TimerFires, Goto, files
<1>12. ASSUME NEW p \in Procs, Wipe(p) PROVE Sticks(t)'
  BY <1>12, <1>a, <1>s DEF Wipe, Goto, units
<1>13. ASSUME NEW p \in Procs, Copy(p) PROVE Sticks(t)'
  BY <1>13, <1>a, <1>s DEF Copy, Goto, units
<1>14. CASE AtlasRestarts
  BY <1>14, <1>a, <1>s DEF AtlasRestarts, files, units
<1>15. CASE Reboot
  BY <1>15, <1>a DEF Reboot
<1>16. CASE UNCHANGED vars
  BY <1>16 DEF vars
<1> QED
  BY <1>1, <1>2, <1>3, <1>4, <1>5, <1>6, <1>7, <1>8, <1>9, <1>10, <1>11, <1>12,
     <1>13, <1>14, <1>15, <1>16, <1>a DEF Next, Request, Continue, Script

(* A confirmed plan stays unless its confirmation missed, by a failed call  *)
(* or for a rollback under way: no rollback starts until a plan is applied  *)
(* again, whatever restarts, reboots, failed writes and failed calls come   *)
(* between, and whatever the habits of the operator.                        *)
THEOREM ConfirmSticksHolds ==
    ASSUME NEW t, Threads = {t}
    PROVE  Spec => []ConfirmSticks
<1>1. Init => TypeOK /\ ScriptRead /\ Sticks(t)
  <2> SUFFICES ASSUME Init PROVE TypeOK /\ ScriptRead /\ Sticks(t)
    OBVIOUS
  <2>1. pc = [p \in Procs |-> "idle"] /\ t \in Procs /\ Service \in Procs
    BY DEF Init, Procs
  <2>2. st.status = "none" /\ enabled \in BOOLEAN
    BY DEF Init
  <2>3. pc \in [Procs -> Labels] /\ pc[t] = "idle" /\ pc[Service] = "idle"
    BY <2>1 DEF Labels
  <2> QED
    BY <2>2, <2>3, TypeInit DEF Sticks
<1>2. TypeOK /\ ScriptRead /\ Sticks(t) /\ [Next]_vars
         => TypeOK' /\ ScriptRead' /\ Sticks(t)'
  BY TypeStep, SticksStep
<1>3. Sticks(t) => ConfirmSticks
  BY DEF Sticks, Disarmed, ConfirmSticks, At
<1> QED
  BY <1>1, <1>2, <1>3, PTL DEF Spec

-----------------------------------------------------------------------------
(* What a step of the calm is, in the terms of the module itself: requests  *)
(* are careful, restarts of AtlasVM are out, and calls of systemctl succeed. *)
CalmRequest(t) ==
    /\ At(Service, "idle")
    /\ \/ \E p \in Plans : SavePlan(t, p)
       \/ ApplyBackup(t) /\ st.status # "applied"
       \/ ConfirmDisable(t) /\ timer' = "inactive" /\ enabled' = FALSE
       \/ RollbackNow(t)

CalmNext ==
    \/ \E t \in Threads :
          \/ CalmRequest(t)
          \/ ApplyWrite(t) \/ ApplyState(t) \/ ApplyScript(t) \/ ConfirmState(t)
          \/ At(t, "timer") /\ StartTimer /\ enabled' = TRUE /\ Stay(t, "restart")
             /\ UNCHANGED <<files, missed>>
    \/ \E p \in Procs : Wipe(p) \/ Copy(p) \/ (Restart(p) /\ live' = conf)
    \/ TimerFires \/ Reboot

LEMMA CalmStep == ASSUME Calm!Next PROVE CalmNext
<1> USE DEF Calm!At, At, Calm!Goto, Goto, Calm!Stay, Stay, Calm!Finish, Finish,
        Calm!Read, Read, Calm!Requested, Requested, Calm!Raises, Raises,
        Calm!files, files, Calm!units, units
<1>a. /\ Calm!Service = Service /\ Calm!Procs = Procs /\ Calm!Files = Files
      /\ Calm!Wiped = Wiped /\ Calm!Nothing = Nothing
  BY DEF Calm!Service, Service, Calm!Procs, Procs, Calm!Files, Files, Calm!Networks, Networks,
         Calm!Netdevs, Netdevs, Calm!Vlans, Vlans, Calm!Wiped, Wiped, Calm!Nothing, Nothing
<1>1. ASSUME NEW t \in Threads, Calm!Request(t) PROVE CalmRequest(t)
  <2>1. ASSUME NEW p \in Plans, Calm!SavePlan(t, p) PROVE CalmRequest(t)
    BY <2>1, <1>a DEF Calm!SavePlan, SavePlan, CalmRequest
  <2>2. CASE Calm!ApplyBackup(t)
    BY <2>2, <1>a DEF Calm!ApplyBackup, ApplyBackup, CalmRequest
  <2>3. CASE Calm!ConfirmDisable(t)
    BY <2>3, <1>a DEF Calm!ConfirmDisable, ConfirmDisable, CalmRequest
  <2>4. CASE Calm!RollbackNow(t)
    BY <2>4, <1>a DEF Calm!RollbackNow, RollbackNow, CalmRequest
  <2> QED
    BY <1>1, <2>1, <2>2, <2>3, <2>4 DEF Calm!Request
<1>2. ASSUME NEW t \in Threads, Calm!ApplyWrite(t) PROVE ApplyWrite(t)
  <2>1. Calm!Writes(loc[t].plan) = Writes(loc[t].plan)
    BY DEF Calm!Writes, Writes
  <2> QED
    BY <1>2, <2>1, <1>a, ModesAssumption DEF Calm!ApplyWrite, ApplyWrite
<1>3. ASSUME NEW t \in Threads, Calm!ApplyState(t) PROVE ApplyState(t)
  BY <1>3 DEF Calm!ApplyState, ApplyState
<1>4. ASSUME NEW t \in Threads, Calm!ApplyScript(t) PROVE ApplyScript(t)
  BY <1>4 DEF Calm!ApplyScript, ApplyScript
<1>5. ASSUME NEW t \in Threads, Calm!ApplyTimer(t)
      PROVE  /\ At(t, "timer") /\ StartTimer /\ enabled' = TRUE
             /\ Stay(t, "restart") /\ UNCHANGED <<files, missed>>
  BY <1>5 DEF Calm!ApplyTimer, Calm!StartTimer, StartTimer
<1>6. ASSUME NEW t \in Threads, Calm!ConfirmState(t) PROVE ConfirmState(t)
  BY <1>6 DEF Calm!ConfirmState, ConfirmState
<1>7. ASSUME NEW p \in Procs, Calm!Script(p)
      PROVE  Wipe(p) \/ Copy(p) \/ (Restart(p) /\ live' = conf)
  <2>1. CASE Calm!Wipe(p)
    BY <2>1, <1>a DEF Calm!Wipe, Wipe
  <2>2. CASE Calm!Copy(p)
    BY <2>2, <1>a DEF Calm!Copy, Copy
  <2>3. CASE Calm!Restart(p)
    BY <2>3, <1>a DEF Calm!Restart, Restart
  <2> QED
    BY <1>7, <2>1, <2>2, <2>3 DEF Calm!Script
<1>8. CASE Calm!TimerFires
  BY <1>8, <1>a DEF Calm!TimerFires, TimerFires, CalmNext
<1>9. CASE Calm!Reboot
  BY <1>9, <1>a, ModesAssumption DEF Calm!Reboot, Reboot, CalmNext
<1>10. ~Calm!AtlasRestarts
  BY DEF Calm!AtlasRestarts
<1> QED
  BY <1>a, <1>1, <1>2, <1>3, <1>4, <1>5, <1>6, <1>7, <1>8, <1>9, <1>10
     DEF Calm!Next, Calm!Continue, CalmNext

LEMMA CalmIsStep == ASSUME CalmNext PROVE Next
<1>1. ASSUME NEW t \in Threads, CalmRequest(t) PROVE Next
  BY <1>1 DEF CalmRequest, Request, Next
<1>2. ASSUME NEW t \in Threads, At(t, "timer"), StartTimer, enabled' = TRUE,
             Stay(t, "restart"), UNCHANGED <<files, missed>>
      PROVE  Next
  BY <1>2 DEF ApplyTimer, Continue, Next
<1> QED
  BY <1>1, <1>2 DEF CalmNext, Next, Continue, Script

-----------------------------------------------------------------------------
(* With one careful request thread, in the calm.  A rollback that waits,    *)
(* runs, or comes with the next boot restores the backup of the plan that   *)
(* is applied, and no other plan is being applied; the files a copy leaves  *)
(* are the backup, as nothing but the backup's files was left by the wipe.  *)
Armed == timer # "inactive" \/ enabled \/ pc[Service] # "idle"

Ahead(t) ==
    /\ Armed => /\ st.status = "applied" /\ script = st.backup
                /\ pc[t] \in {"idle", "restart", "wipe", "copy"}
    /\ enabled => timer # "inactive"
    /\ pc[t] = "script" => st.status = "applied" /\ st.backup = loc[t].backup
    /\ pc[t] = "timer" => st.status = "applied" /\ st.backup = script

Restores(t) ==
    /\ \A p \in Procs : pc[p] \in {"wipe", "copy"} => loc[p].backup = script
    /\ pc[Service] # "idle" => loc[Service].backup = script
    /\ \A p \in Procs : pc[p] = "copy" =>
          \A f \in Files : script[f] = NoPlan => conf[f] = NoPlan
    /\ pc[t] \notin {"wipe", "copy"} /\ pc[Service] = "restart" => conf = script
    /\ enabled /\ timer = "elapsed" /\ pc[Service] = "idle" =>
          /\ pc[t] \notin {"wipe", "copy"} => conf = script
          /\ pc[t] = "idle" => live = script

LEMMA CalmKept ==
    ASSUME NEW t, Threads = {t}, TypeOK, ScriptRead, Ahead(t), Restores(t),
           CalmNext \/ UNCHANGED vars
    PROVE  Ahead(t)' /\ Restores(t)'
<1> USE DEF Labels, Armed, Ahead, Restores, At, Stay, Finish, Goto, Read, Requested
<1>a. t # Service /\ Procs = {t, Service}
  BY ConstantsAssumption DEF Procs
<1>t. /\ pc \in [Procs -> Labels] /\ loc \in [Procs -> Locals]
      /\ conf \in Confs /\ script \in Confs \cup {NoConf}
      /\ st \in [status : {"none", "applied", "confirmed"}, backup : Confs \cup {NoConf}]
      /\ pc[Service] \in {"idle", "wipe", "copy", "restart"}
      /\ timer \in {"inactive", "waiting", "elapsed"} /\ enabled \in BOOLEAN
  BY DEF TypeOK, ScriptRead, Locals
<1>1. ASSUME NEW p \in Plans, SavePlan(t, p) PROVE Ahead(t)' /\ Restores(t)'
  BY <1>1 DEF SavePlan, units
<1>2. CASE At(Service, "idle") /\ ApplyBackup(t) /\ st.status # "applied"
  BY <1>2, <1>a, <1>t DEF ApplyBackup, files, units
<1>3. CASE ApplyWrite(t)
  BY <1>3, <1>a, <1>t DEF ApplyWrite, Raises, units
<1>4. CASE ApplyState(t)
  BY <1>4, <1>a, <1>t DEF ApplyState, units
<1>5. CASE ApplyScript(t)
  BY <1>5, <1>a, <1>t DEF ApplyScript, units
<1>6. CASE /\ At(t, "timer") /\ StartTimer /\ enabled' = TRUE
           /\ Stay(t, "restart") /\ UNCHANGED <<files, missed>>
  BY <1>6, <1>a, <1>t DEF StartTimer, files
<1>7. ASSUME NEW p \in Procs, Restart(p), live' = conf PROVE Ahead(t)' /\ Restores(t)'
  BY <1>7, <1>a, <1>t DEF Restart, units
<1>8. CASE /\ At(Service, "idle") /\ ConfirmDisable(t)
           /\ timer' = "inactive" /\ enabled' = FALSE
  BY <1>8, <1>a, <1>t DEF ConfirmDisable, files
<1>9. CASE ConfirmState(t)
  BY <1>9, <1>a, <1>t DEF ConfirmState, units
<1>10. CASE At(Service, "idle") /\ RollbackNow(t)
  BY <1>10, <1>a, <1>t DEF RollbackNow, files, units
<1>11. CASE TimerFires
  BY <1>11, <1>a, <1>t DEF TimerFires, files
<1>12. ASSUME NEW p \in Procs, Wipe(p) PROVE Ahead(t)' /\ Restores(t)'
  BY <1>12, <1>a, <1>t DEF Wipe, Wiped, Files, units
<1>13. ASSUME NEW p \in Procs, Copy(p) PROVE Ahead(t)' /\ Restores(t)'
  BY <1>13, <1>a, <1>t DEF Copy, units, ScriptRead, Confs
<1>14. CASE Reboot
  BY <1>14, <1>a, <1>t DEF Reboot
<1>15. CASE UNCHANGED vars
  BY <1>15 DEF vars
<1> QED
  BY <1>1, <1>2, <1>3, <1>4, <1>5, <1>6, <1>7, <1>8, <1>9, <1>10, <1>11, <1>12,
     <1>13, <1>14, <1>15 DEF CalmNext, CalmRequest

(* Whatever the mode, it is the management network that runs, so what holds *)
(* of it (TypeCorrect, ConfirmSticksHolds) holds in both modes.             *)
THEOREM ModesAreRuns == ModeSpec => Spec
<1>1. ModeInit => Init
  BY DEF ModeInit
<1>2. [ModeNext]_<<mode, vars>> => [Next]_vars
  BY CalmStep, CalmIsStep DEF ModeNext, InCalm
<1> QED
  BY <1>1, <1>2, PTL DEF ModeSpec, Spec

(* While calls of systemctl succeed and AtlasVM is not restarted, an        *)
(* applied and unconfirmed plan that is live has a rollback ahead whenever  *)
(* no request is under way, and a rollback that has copied its backup has   *)
(* restored every file: for any plans, however often writes fail and the    *)
(* host reboots, with a careful operator.                                   *)
THEOREM RollbackRightHolds ==
    ASSUME NEW t, Threads = {t}
    PROVE  ModeSpec => []RollbackRight
<1> DEFINE IInv == /\ TypeOK /\ ScriptRead
                   /\ mode = "calm" => Ahead(t) /\ Restores(t)
<1>1. ModeInit => IInv
  <2> SUFFICES ASSUME Init PROVE IInv
    BY DEF ModeInit
  <2>1. /\ pc = [p \in Procs |-> "idle"] /\ t \in Procs /\ Service \in Procs
        /\ timer = "inactive" /\ enabled = FALSE
    BY DEF Init, Procs
  <2>2. Ahead(t)
    BY <2>1 DEF Ahead, Armed
  <2>3. Restores(t)
    BY <2>1 DEF Restores
  <2> QED
    BY <2>2, <2>3, TypeInit
<1>2. IInv /\ [ModeNext]_<<mode, vars>> => IInv'
  <2> SUFFICES ASSUME IInv, [ModeNext]_<<mode, vars>> PROVE IInv'
    OBVIOUS
  <2>1. TypeOK' /\ ScriptRead'
    BY TypeStep, CalmStep, CalmIsStep DEF ModeNext, InCalm
  <2>2. ASSUME mode' = "calm" PROVE Ahead(t)' /\ Restores(t)'
    <3>1. mode = "calm" /\ (CalmNext \/ UNCHANGED vars)
      BY <2>2, CalmStep DEF ModeNext, InCalm
    <3> QED
      BY <3>1, CalmKept
  <2> QED
    BY <2>1, <2>2
<1>3. IInv => RollbackRight
  <2> SUFFICES ASSUME IInv, mode = "calm" PROVE Guarded /\ RollbackRestores
    BY DEF RollbackRight
  <2>1. /\ timer \in {"inactive", "waiting", "elapsed"} /\ t \in Threads
        /\ Ahead(t) /\ Restores(t)
    BY DEF TypeOK
  <2>2. Guarded
    BY <2>1 DEF Guarded, Quiet, At, Ahead, Armed, Restores
  <2>3. RollbackRestores
    BY <2>1 DEF RollbackRestores, Quiet, At, Restores
  <2> QED
    BY <2>2, <2>3
<1> QED
  BY <1>1, <1>2, <1>3, PTL DEF ModeSpec

=============================================================================
