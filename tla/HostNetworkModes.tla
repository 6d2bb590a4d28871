-------------------------- MODULE HostNetworkModes --------------------------
(* Two instances of HostNetwork over the same variables.  In one everything *)
(* may fail and the operator has the Habits given; in the other ("calm")    *)
(* writes fail and the host reboots, what has begun ends, and the operator  *)
(* confirms a plan before the next and does not overlap a rollback.         *)
EXTENDS HostNetwork

CONSTANT FaultPlans  \* the plans operators save when everything may fail

(* What happens in the calm is part of what may go wrong.                   *)
ASSUME ModesAssumption ==
    /\ {"write", "reboot"} \subseteq Faults
    /\ FaultPlans \subseteq Plans

VARIABLE mode

Calm == INSTANCE HostNetwork WITH Faults <- {"write", "reboot"},
                                  Habits <- {"confirm_first", "no_overlap"}

InCalm(A) == mode = "calm" /\ A /\ UNCHANGED mode

ModeInit == mode \in {"calm", "faults"} /\ Init

ModeNext ==
    \/ InCalm(Calm!Next)
    \/ mode = "faults" /\ Next /\ plan' \in FaultPlans \cup {NoPlan} /\ UNCHANGED mode

(* The timer fires, and requests and the rollback run to their ends.        *)
ModeSpec ==
    /\ ModeInit /\ [][ModeNext]_<<mode, vars>>
    /\ WF_<<mode, vars>>(InCalm(Calm!TimerFires))
    /\ \A p \in Procs : WF_<<mode, vars>>(InCalm(Calm!Script(p)))
    /\ \A t \in Threads : WF_<<mode, vars>>(InCalm(Calm!Continue(t)))

-----------------------------------------------------------------------------
(* The properties of HostNetwork that need calm; TypeOK and ConfirmSticks   *)
(* hold in both instances.                                                  *)

(* Between requests an unconfirmed plan is live only with a rollback ahead, *)
(* and a rollback restores the files as they were.                          *)
RollbackRight == mode = "calm" => Guarded /\ RollbackRestores

(* Once the host stops rebooting a plan ends up confirmed or reverted.      *)
PlansResolve == mode = "calm" => AppliedResolves

=============================================================================
