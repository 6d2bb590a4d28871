-------------------------------- MODULE VmNics --------------------------------
(***************************************************************************)
(* The network interfaces of one VM: switching one to another network,      *)
(* adding and removing (the /vms/{name}/network routes of main.py).  Each   *)
(* request asks once whether the VM runs and decides with that answer       *)
(* whether its calls are for the running VM and its definition or for the   *)
(* definition alone.  The VM is started and stopped meanwhile, networks too. *)
(***************************************************************************)
CONSTANTS Macs, Nets, Threads, NoMac, NoNet

ASSUME ConstantsAssumption == NoMac \notin Macs /\ NoNet \notin Nets

VARIABLES
    netw,   \* "on", "off" or "gone"
    on,     \* whether the VM runs
    conf,   \* the networks each MAC is on in the VM's definition
    live,   \* and in the running VM
    th,     \* what each request has read and where it is
    (* History, for the properties only. *)
    owed,   \* the MACs the finished requests say the VM has
    raced,  \* the VM was started or stopped during a request
    missed, \* MACs a stopped VM's detach has failed for
    lost    \* MACs whose way back failed, or whose request died holding them

vars == <<netw, on, conf, live, th, owed, raced, missed, lost>>

Idle == [pc |-> "idle", mac |-> NoMac, old |-> NoNet, new |-> NoNet, active |-> FALSE]
None == [m \in Macs |-> {}]

(* Interfaces, networks and requests are what the code makes of them.       *)
TypeOK ==
    /\ netw \in [Nets -> {"on", "off", "gone"}]
    /\ conf \in [Macs -> SUBSET Nets] /\ live \in [Macs -> SUBSET Nets]
    /\ on \in BOOLEAN /\ (~on => live = None)
    /\ th \in [Threads -> [pc : {"idle", "detach", "attach", "reattach", "add", "remove"},
                           mac : Macs \cup {NoMac}, old : Nets \cup {NoNet},
                           new : Nets \cup {NoNet}, active : BOOLEAN]]
    /\ \A t \in Threads : th[t].pc \in {"detach", "attach", "reattach"} =>
           th[t].old # NoNet /\ th[t].new # NoNet
    /\ owed \subseteq Macs /\ raced \in BOOLEAN
    /\ missed \subseteq Macs /\ lost \subseteq Macs

Init ==
    /\ netw \in [Nets -> {"on", "off"}]
    /\ on = FALSE /\ conf = None /\ live = None
    /\ th = [t \in Threads |-> Idle]
    /\ owed = {} /\ raced = FALSE /\ missed = {} /\ lost = {}

-----------------------------------------------------------------------------
(* libvirt.  A call for the running VM and its definition does both or      *)
(* nothing.                                                                 *)

Has(c, m) == c[m] # {}

(* detachDeviceFlags finds the interface by its MAC: one of them, if there  *)
(* are two.                                                                 *)
CanDetach(m, active) ==
    /\ Has(conf, m)
    /\ active => on /\ Has(live, m)

Without(c, m, n) == [c EXCEPT ![m] = IF n \in @ THEN @ \ {n} ELSE {}]

Detach(m, active) ==
    \E n \in conf[m] :
        /\ conf' = Without(conf, m, n)
        /\ live' = IF active THEN Without(live, m, n) ELSE live

(* attachDeviceFlags: a running VM needs an active network.                 *)
CanAttach(n, active) == active => on /\ netw[n] = "on"

Attach(m, n, active) ==
    /\ conf' = [conf EXCEPT ![m] = @ \cup {n}]
    /\ live' = IF active THEN [live EXCEPT ![m] = @ \cup {n}] ELSE live
    /\ lost' = lost \ {m}

(* The running VM, or the definition when it does not run (XMLDesc).        *)
Shown(m) == IF on THEN live[m] ELSE conf[m]

At(t, pc) == th[t].pc = pc
End(t)    == th' = [th EXCEPT ![t] = Idle]
Goto(t, pc) == th' = [th EXCEPT ![t].pc = pc]
Quiet     == UNCHANGED <<conf, live, owed>>

-----------------------------------------------------------------------------
(* vm_network_update: the network is looked up, the VM asked whether it     *)
(* runs, the old interface read.  A running VM needs the "Apply live" tick. *)
SwitchNic(t, m, n) ==
    /\ At(t, "idle")
    /\ netw[n] # "gone"
    /\ \E old \in Shown(m) :
         th' = [th EXCEPT ![t] = [pc |-> "detach", mac |-> m, old |-> old,
                                  new |-> n, active |-> on]]
    /\ UNCHANGED <<netw, on, raced, missed, lost>> /\ Quiet

(* A detach that fails ends the request, but for a stopped VM: then the old *)
(* interface is attached all the same.                                      *)
SwitchDetach(t) ==
    /\ At(t, "detach")
    /\ \/ /\ CanDetach(th[t].mac, th[t].active)
          /\ Detach(th[t].mac, th[t].active) /\ Goto(t, "attach")
          /\ UNCHANGED missed
       \/ /\ IF th[t].active THEN End(t) /\ UNCHANGED missed
             ELSE Goto(t, "reattach") /\ missed' = missed \cup {th[t].mac}
          /\ UNCHANGED <<conf, live>>
    /\ UNCHANGED <<netw, on, owed, raced, lost>>

(* A mutant of SwitchAttach: an attach that fails ends the request.         *)
SwitchNoWayBack(t) ==
    /\ At(t, "attach")
    /\ IF CanAttach(th[t].new, th[t].active)
       THEN Attach(th[t].mac, th[t].new, th[t].active)
       ELSE UNCHANGED <<conf, live, lost>>
    /\ End(t)
    /\ UNCHANGED <<netw, on, owed, raced, missed>>

SwitchAttach(t) ==
    /\ At(t, "attach")
    /\ \/ /\ CanAttach(th[t].new, th[t].active)
          /\ Attach(th[t].mac, th[t].new, th[t].active) /\ End(t)
       \/ UNCHANGED <<conf, live, lost>> /\ Goto(t, "reattach")
    /\ UNCHANGED <<netw, on, owed, raced, missed>>

(* The requests that may still attach a MAC they, or others, detached.      *)
Holds(t, m) == th[t].mac = m /\ th[t].pc \in {"attach", "reattach"}

(* Back to the old network; a failure is swallowed and the NIC is gone.     *)
SwitchReattach(t) ==
    LET m == th[t].mac IN
    /\ At(t, "reattach")
    /\ \/ /\ CanAttach(th[t].old, th[t].active)
          /\ Attach(m, th[t].old, th[t].active)
       \/ /\ lost' = IF Has(conf, m) \/ \E u \in Threads \ {t} : Holds(u, m)
                     THEN lost ELSE lost \cup {m}
          /\ UNCHANGED <<conf, live>>
    /\ End(t)
    /\ UNCHANGED <<netw, on, owed, raced, missed>>

(* vm_network_add: libvirt gives the interface a fresh MAC, or refuses.     *)
AddNic(t, n) ==
    /\ At(t, "idle")
    /\ netw[n] # "gone"
    /\ th' = [th EXCEPT ![t] = [Idle EXCEPT !.pc = "add", !.new = n, !.active = on]]
    /\ UNCHANGED <<netw, on, raced, missed, lost>> /\ Quiet

FreshMacs == {m \in Macs : ~Has(conf, m) /\ ~Has(live, m) /\ m \notin owed
                           /\ \A t \in Threads : th[t].mac # m}

AddAttach(t) ==
    /\ At(t, "add")
    /\ \/ /\ CanAttach(th[t].new, th[t].active)
          /\ \E m \in FreshMacs : Attach(m, th[t].new, th[t].active)
                                  /\ owed' = owed \cup {m}
       \/ UNCHANGED <<conf, live, owed, lost>>
    /\ End(t)
    /\ UNCHANGED <<netw, on, raced, missed>>

(* vm_network_remove.                                                       *)
RemoveNic(t, m) ==
    /\ At(t, "idle")
    /\ Shown(m) # {}
    /\ th' = [th EXCEPT ![t] = [Idle EXCEPT !.pc = "remove", !.mac = m, !.active = on]]
    /\ UNCHANGED <<netw, on, raced, missed, lost>> /\ Quiet

RemoveDetach(t) ==
    /\ At(t, "remove")
    /\ \/ /\ CanDetach(th[t].mac, th[t].active)
          /\ Detach(th[t].mac, th[t].active) /\ owed' = owed \ {th[t].mac}
       \/ Quiet
    /\ End(t)
    /\ UNCHANGED <<netw, on, raced, missed, lost>>

-----------------------------------------------------------------------------
(* Around the requests.                                                     *)

Busy == \E t \in Threads : ~At(t, "idle")

(* A VM starts with the interfaces of its definition, on active networks.   *)
VmStart ==
    /\ ~on /\ \A m \in Macs : \A n \in conf[m] : netw[n] = "on"
    /\ on' = TRUE /\ live' = conf
    /\ raced' = (raced \/ Busy)
    /\ UNCHANGED <<netw, conf, th, owed, missed, lost>>

VmStop ==
    /\ on
    /\ on' = FALSE /\ live' = None
    /\ raced' = (raced \/ Busy)
    /\ UNCHANGED <<netw, conf, th, owed, missed, lost>>

NetworkStart(n) ==
    /\ netw[n] = "off"
    /\ netw' = [netw EXCEPT ![n] = "on"]
    /\ UNCHANGED <<on, conf, live, th, owed, raced, missed, lost>>

(* Neither stopping nor deleting a network asks who is on it.               *)
NetworkStop(n, how) ==
    /\ netw[n] = "on" \/ (netw[n] = "off" /\ how = "gone")
    /\ netw' = [netw EXCEPT ![n] = how]
    /\ UNCHANGED <<on, conf, live, th, owed, raced, missed, lost>>

(* AtlasVM dies, and with it the requests that are between two calls.       *)
AtlasDies ==
    /\ th' = [t \in Threads |-> Idle]
    /\ lost' = lost \cup {m \in Macs : ~Has(conf, m) /\ \E t \in Threads : Holds(t, m)}
    /\ UNCHANGED <<netw, on, raced, missed>> /\ Quiet

Next ==
    \/ \E t \in Threads, m \in Macs, n \in Nets : SwitchNic(t, m, n)
    \/ \E t \in Threads : SwitchDetach(t) \/ SwitchAttach(t) \/ SwitchReattach(t)
                          \/ AddAttach(t) \/ RemoveDetach(t)
    \/ \E t \in Threads, n \in Nets : AddNic(t, n)
    \/ \E t \in Threads, m \in Macs : RemoveNic(t, m)
    \/ VmStart \/ VmStop \/ AtlasDies
    \/ \E n \in Nets : NetworkStart(n) \/ \E how \in {"off", "gone"} : NetworkStop(n, how)

Spec == Init /\ [][Next]_vars

-----------------------------------------------------------------------------
(* Properties.                                                              *)

(* A MAC is never in the VM twice, whatever two requests and the VM's       *)
(* starts and stops do: only the request whose detach succeeded attaches,   *)
(* unless one found no interface to detach from the stopped VM, which       *)
(* attaches the one it had read as if its attach had failed.                *)
OneNicPerMac ==
    \A m \in Macs \ missed : \A c \in {conf, live} : \A a, b \in c[m] : a = b

(* An interface is lost in one way only: its own request has detached it    *)
(* and dies, or fails to attach it to the old network as well.  Other       *)
(* requests, the VM's starts and stops and the networks' lose none.         *)
NicKept == \A m \in owed \ lost : Has(conf, m) \/ \E t \in Threads : Holds(t, m)

(* What the running VM has is what its definition says, unless it was       *)
(* started or stopped during a request: no request leaves one of the two    *)
(* behind.                                                                  *)
LiveMatchesDefinition == on /\ ~raced => live = conf

(* No interface is doubled, changed in one place only, or lost but by the   *)
(* failing end of its own request.                                          *)
NicsRight == OneNicPerMac /\ NicKept /\ LiveMatchesDefinition
=============================================================================
