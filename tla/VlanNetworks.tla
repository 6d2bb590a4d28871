----------------------------- MODULE VlanNetworks -----------------------------
(***************************************************************************)
(* Libvirt networks and the host links behind them (network_phase8.py, the  *)
(* routes of main.py, network_reconcile.py).  One request changes, in turn, *)
(* the host's links, libvirt and the metadata file, and each call may fail; *)
(* links vanish at a reboot and the reconciliation makes them again from    *)
(* the file.  A request is one step here: the hazards of two requests that  *)
(* rewrite the metadata file at once are listed, not modelled.  The         *)
(* reconciliation works through a copy of the file, one record a step, and  *)
(* requests come in between.                                                *)
(***************************************************************************)
EXTENDS Naturals

CONSTANTS
    MaxNetwork,  \* networks are numbered in the order of their names in the file
    Parents,     \* the interfaces an operator may name
    Present,     \* those the host has
    Tags, Bridges,
    MaxRequests, \* bound on requests and reboots
    Faults,      \* "ip": a call of ip fails; "libvirt": a call of libvirt fails;
                 \* "file": writing the metadata fails, or AtlasVM dies before it
    NoRec, NoTag, NoParent, NoBridge, NoVif

Networks == 1..MaxNetwork

Vifs  == {<<p>> : p \in Parents} \cup (Parents \X Tags)
Ports == Parents \cup Vifs

Records == [type : {"none", "vlan", "bridge", "plain"}, parent : Parents \cup {NoParent},
            bridge : Bridges \cup {NoBridge}, tag : Tags \cup {NoTag},
            vif : Vifs \cup {NoVif}]

(* Links of different kinds have different names.                           *)
ConstantsAssumption ==
    /\ MaxNetwork \in Nat /\ MaxRequests \in Nat
    /\ Present \subseteq Parents
    /\ Faults \subseteq {"ip", "libvirt", "file"}
    /\ Parents \cap Vifs = {} /\ Bridges \cap Ports = {}
    /\ NoTag \notin Tags /\ NoParent \notin Ports /\ NoBridge \notin Bridges
    /\ NoVif \notin Vifs /\ NoRec \notin Records

VARIABLES
    meta,     \* atlasvm_networks.json: the record of each network
    net,      \* what libvirt knows of it
    host,     \* bridges, the tag of each VLAN interface, each port's bridge
    recon,    \* the last reconciliation
    long,     \* the parents whose name leaves no room for a tag
    requests,
    orphans   \* history: networks undefined by a deletion that then broke off

vars == <<meta, net, host, recon, long, requests, orphans>>

(* The name of a VLAN interface.  It is cut to 15 characters, and cutting   *)
(* takes the tag off when the parent's name is long (enx001122334455).      *)
Vif(p, t) == IF p \in long THEN <<p>> ELSE <<p, t>>

Bare   == [bridges |-> {}, tagOf |-> [v \in Vifs |-> NoTag],
           master |-> [x \in Ports |-> NoBridge]]
Blank  == [type |-> "none", parent |-> NoParent, bridge |-> NoBridge,
           tag |-> NoTag, vif |-> NoVif]
Undefined  == [def |-> FALSE, on |-> FALSE, auto |-> FALSE]

(* Records, networks and links are what the code makes of them, and nothing *)
(* is a port of a bridge that does not exist.                               *)
TypeOK ==
    /\ meta \in [Networks -> Records \cup {NoRec}]
    /\ \A n \in Networks : meta[n] # NoRec /\ meta[n].type = "vlan" =>
           meta[n].vif # NoVif /\ meta[n].bridge # NoBridge
    /\ net \in [Networks -> [def : BOOLEAN, on : BOOLEAN, auto : BOOLEAN]]
    /\ host \in [bridges : SUBSET Bridges, tagOf : [Vifs -> Tags \cup {NoTag}],
                 master : [Ports -> Bridges \cup {NoBridge}]]
    /\ \A x \in Ports : host.master[x] # NoBridge =>
           host.master[x] \in host.bridges /\ (x \in Vifs => host.tagOf[x] # NoTag)
    /\ long \subseteq Parents
    /\ requests \in 0..MaxRequests
    /\ orphans \subseteq Networks

Init ==
    /\ meta = [n \in Networks |-> NoRec]
    /\ net = [n \in Networks |-> Undefined]
    /\ host = Bare
    /\ recon = [snap |-> meta, todo |-> {}, failed |-> {},
                clean |-> FALSE, boot |-> FALSE]
    /\ long \in SUBSET Parents
    /\ requests = 0
    /\ orphans = {}

-----------------------------------------------------------------------------
(* The host's links: each ensure_... is a sequence of calls of ip, and one  *)
(* that fails leaves what the calls before it made.                         *)

AddVif(h, v, t) == IF h.tagOf[v] = NoTag THEN [h EXCEPT !.tagOf[v] = t] ELSE h
AddBridge(h, b) == [h EXCEPT !.bridges = @ \cup {b}]
Enslave(h, x, b) == [h EXCEPT !.master[x] = b]

(* A link that goes leaves its bridge, a bridge that goes lets its ports go.*)
DropLinks(h, links) ==
    [bridges |-> h.bridges \ links,
     tagOf   |-> [v \in Vifs |-> IF v \in links THEN NoTag ELSE h.tagOf[v]],
     master  |-> [x \in Ports |-> IF x \in links \/ h.master[x] \in links THEN NoBridge
                                  ELSE h.master[x]]]

Done(h)   == [ok |-> TRUE, host |-> h]
Failed(h) == [ok |-> FALSE, host |-> h]

(* All the calls go through, or one of them fails.                          *)
Outcomes(before, after) ==
    {Done(after)}
    \cup (IF "ip" \in Faults THEN {Failed(h) : h \in before \cup {after}} ELSE {})

Calls(v, t, b) ==
    LET h1 == AddVif(host, v, t)
        h2 == AddBridge(h1, b)
    IN  Outcomes({host, h1, h2}, Enslave(h2, v, b))

(* _ensure_vlan_bridge                                                      *)
EnsureVlan(p, t, b) ==
    IF p \notin Present \/ t = NoTag THEN {Failed(host)} ELSE Calls(Vif(p, t), t, b)

(* _ensure_parent_to_bridge                                                 *)
EnsureParent(p, b) ==
    IF p \notin Present THEN {Failed(host)}
    ELSE LET h1 == AddBridge(host, b) IN Outcomes({host, h1}, Enslave(h1, p, b))

-----------------------------------------------------------------------------
(* The requests.  After a reboot AtlasVM starts when the reconciliation has *)
(* ended (Before=atlasvm.service).                                          *)

Request ==
    /\ recon.boot => recon.todo = {}
    /\ requests < MaxRequests
    /\ requests' = requests + 1
    /\ UNCHANGED long

Touch == recon' = [recon EXCEPT !.clean = FALSE, !.boot = FALSE]

(* _write_json empties the file before it writes, and _read_json reads an   *)
(* empty file as no records: a write that fails leaves the old or none.     *)
Unsaved == "file" \in Faults /\ meta' \in {meta, [n \in Networks |-> NoRec]}

(* What the form of a new network may say.                                  *)
VlanRecord(p, b, t) ==
    [type |-> "vlan", parent |-> p, bridge |-> b, tag |-> t, vif |-> Vif(p, t)]
BridgeRecord(p, b) == [Blank EXCEPT !.type = "bridge", !.parent = p, !.bridge = b]
PlainRecord(b)     == [Blank EXCEPT !.type = "plain", !.bridge = b]

NewRecords == {VlanRecord(p, b, t) : p \in Parents, b \in Bridges, t \in Tags}
              \cup {BridgeRecord(p, b) : p \in Parents, b \in Bridges}
              \cup {PlainRecord(b) : b \in Bridges}

WireNew(r) ==
    CASE r.type = "vlan"   -> EnsureVlan(r.parent, r.tag, r.bridge)
      [] r.type = "bridge" -> EnsureParent(r.parent, r.bridge)
      [] OTHER             -> {Done(host)}

(* create_network: the links are made before the name is looked up; a       *)
(* network whose autostart or start fails stays defined, without a record,  *)
(* as does one whose record cannot be written.                              *)
CreateNetwork(n, r, auto, start) ==
    /\ Request /\ Touch
    /\ \E o \in WireNew(r) :
         /\ host' = o.host
         /\ \/ /\ (~o.ok \/ net[n].def \/ "libvirt" \in Faults)
               /\ UNCHANGED <<meta, net, orphans>>
            \/ /\ o.ok /\ ~net[n].def
               /\ net' = [net EXCEPT ![n] = [def |-> TRUE, on |-> start, auto |-> auto]]
               /\ \/ meta' = [meta EXCEPT ![n] = r]
                  \/ Unsaved
               /\ orphans' = orphans \ {n}
            \/ /\ o.ok /\ ~net[n].def /\ "libvirt" \in Faults
               /\ (auto \/ start)
               /\ \E a \in {FALSE, auto /\ start} :
                    net' = [net EXCEPT ![n] = [def |-> TRUE, on |-> FALSE, auto |-> a]]
               /\ orphans' = orphans \ {n}
               /\ UNCHANGED meta

(* A mutant of Merged: what the form leaves empty is emptied.               *)
MergedBlank(n, t, p, b) ==
    [(IF meta[n] = NoRec THEN Blank ELSE meta[n]) EXCEPT !.tag = t, !.parent = p, !.bridge = b]

(* What the form leaves empty stays as it was, but for the tag.             *)
Merged(n, t, p, b) ==
    LET cur == IF meta[n] = NoRec THEN Blank ELSE meta[n]
    IN  [cur EXCEPT !.tag = t, !.parent = IF p = NoParent THEN @ ELSE p,
                    !.bridge = IF b = NoBridge THEN @ ELSE b]

(* network_edit_save and update_network_meta: the network must exist; a     *)
(* VLAN network with a tag is wired as the form now says, and nothing of    *)
(* its old wiring is undone.  Failing to set autostart is ignored.          *)
SetAuto(n, auto) ==
    \/ net' = [net EXCEPT ![n].auto = auto]
    \/ "libvirt" \in Faults /\ UNCHANGED net

(* A mutant of EditNetwork: whether the network exists is not asked.        *)
EditNetworkAny(n, t, p, b, auto) ==
    /\ Request /\ Touch
    /\ meta' = [meta EXCEPT ![n] = Merged(n, t, p, b)]
    /\ SetAuto(n, auto)
    /\ UNCHANGED <<host, orphans>>

EditNetwork(n, t, p, b, auto) ==
    LET r == Merged(n, t, p, b)
        Save(new) == \/ meta' = [meta EXCEPT ![n] = new] /\ SetAuto(n, auto)
                     \/ Unsaved /\ UNCHANGED net
    IN  /\ Request /\ Touch
        /\ net[n].def
        /\ IF t # NoTag /\ r.type = "vlan"
           THEN \E o \in EnsureVlan(r.parent, t, r.bridge) :
                  /\ host' = o.host
                  /\ IF o.ok THEN Save([r EXCEPT !.vif = Vif(r.parent, t)])
                     ELSE UNCHANGED <<meta, net>>
           ELSE Save(r) /\ UNCHANGED host
        /\ UNCHANGED orphans

(* action: starting a network wires it again from its record; a record      *)
(* without a type starts as it is.                                          *)
StartNetwork(n) ==
    /\ Request /\ Touch
    /\ net[n].def /\ ~net[n].on
    /\ \E o \in (IF meta[n] = NoRec THEN {Done(host)} ELSE WireNew(meta[n])) :
         /\ host' = o.host
         /\ \/ o.ok /\ net' = [net EXCEPT ![n].on = TRUE]
            \/ (~o.ok \/ "libvirt" \in Faults) /\ UNCHANGED net
    /\ UNCHANGED <<meta, orphans>>

StopNetwork(n) ==
    /\ Request /\ Touch
    /\ net[n].on
    /\ net' = [net EXCEPT ![n].on = FALSE]
    /\ UNCHANGED <<meta, host, orphans>>

AutostartNetwork(n, auto) ==
    /\ Request /\ Touch
    /\ net[n].def
    /\ net' = [net EXCEPT ![n].auto = auto]
    /\ UNCHANGED <<meta, host, orphans>>

(* A mutant of OwnLinks: every VLAN interface of the record's parent.       *)
ParentsLinks(r) == ({r.bridge} \ {NoBridge}) \cup {v \in Vifs : v[1] = r.parent}

(* The links a deletion tries to remove, from the record read at the start. *)
OwnLinks(r) == {r.bridge, r.vif} \ {NoBridge, NoVif}

(* delete_network: stop, undefine, drop the record, remove bridge and VLAN  *)
(* interface; the status of a removal is not looked at.  A call that fails  *)
(* ends the request: before the record is touched, or, when the record      *)
(* cannot be dropped, with a record that no later deletion drops, for       *)
(* libvirt does not know its network any more.                              *)
DeleteNetwork(n) ==
    /\ Request /\ Touch
    /\ net[n].def
    /\ \/ /\ net' = [net EXCEPT ![n] = Undefined]
          /\ meta' = [meta EXCEPT ![n] = NoRec]
          /\ \E links \in SUBSET (IF meta[n] = NoRec THEN {} ELSE OwnLinks(meta[n])) :
               /\ "ip" \notin Faults => meta[n] = NoRec \/ links = OwnLinks(meta[n])
               /\ host' = DropLinks(host, links)
          /\ UNCHANGED orphans
       \/ /\ net' = [net EXCEPT ![n] = Undefined]
          /\ Unsaved
          /\ orphans' = orphans \cup {n}
          /\ UNCHANGED host
       \/ /\ "libvirt" \in Faults
          /\ net' \in {net, [net EXCEPT ![n].on = FALSE]}
          /\ UNCHANGED <<meta, host, orphans>>

-----------------------------------------------------------------------------
(* The host goes down: links vanish, libvirt starts what is autostarted,    *)
(* and atlasvm-network-reconcile.service runs.  networks_reconcile runs the *)
(* same reconciliation at any time.                                         *)

Reconciliation(boot) ==
    [snap |-> meta, todo |-> Networks, failed |-> {}, clean |-> TRUE, boot |-> boot]

Reboot ==
    /\ Request
    /\ host' = Bare
    /\ net' = [n \in Networks |-> [net[n] EXCEPT !.on = net[n].def /\ net[n].auto]]
    /\ recon' = Reconciliation(TRUE)
    /\ UNCHANGED <<meta, orphans>>

ReconcileAll ==
    /\ Request
    /\ recon.todo = {}
    /\ recon' = Reconciliation(FALSE)
    /\ UNCHANGED <<meta, net, host, orphans>>

(* ensure_vlan_bridge of network_reconcile: the recorded interface, else    *)
(* one that carries the tag, else a new one of the recorded name; without a *)
(* tag a new one cannot be made.                                            *)
ReconcileVlan(r) ==
    LET same == {v \in Vifs : v[1] = r.parent /\ r.tag # NoTag /\ host.tagOf[v] = r.tag}
        vif  == IF host.tagOf[r.vif] = NoTag /\ same # {} THEN CHOOSE v \in same : TRUE
                ELSE r.vif
    IN  IF r.parent \notin Present \/ (r.tag = NoTag /\ host.tagOf[vif] = NoTag)
        THEN {Failed(host)}
        ELSE Calls(vif, r.tag, r.bridge)

(* reconcile_network: errors are logged and the next record is taken up.    *)
(* The metadata is never written: what would be saved is the very object it *)
(* is compared with.  Records never say autostart, start or active.         *)
Rewire(r) ==
    CASE r # NoRec /\ r.type = "vlan"   -> ReconcileVlan(r)
      [] r # NoRec /\ r.type = "bridge" -> EnsureParent(r.parent, r.bridge)
      [] OTHER -> {Done(host)}

ReconcileNetwork(n) ==
    /\ n \in recon.todo /\ \A m \in recon.todo : n <= m
    /\ \E o \in Rewire(recon.snap[n]) :
         /\ host' = o.host
         /\ recon' = [recon EXCEPT !.todo = @ \ {n},
                                   !.snap = [@ EXCEPT ![n] = NoRec],
                                   !.failed = IF o.ok THEN @ ELSE @ \cup {n}]
    /\ UNCHANGED <<meta, net, long, requests, orphans>>

Operators ==
    \E n \in Networks :
       \/ \E r \in NewRecords, ticked \in BOOLEAN : CreateNetwork(n, r, ticked, ticked)
       \/ \E t \in Tags \cup {NoTag}, p \in Parents \cup {NoParent},
             b \in Bridges \cup {NoBridge}, auto \in BOOLEAN : EditNetwork(n, t, p, b, auto)
       \/ StartNetwork(n) \/ StopNetwork(n) \/ DeleteNetwork(n)
       \/ \E auto \in BOOLEAN : AutostartNetwork(n, auto)

Next == \/ Operators \/ Reboot \/ ReconcileAll
        \/ \E n \in Networks : ReconcileNetwork(n)

Spec == Init /\ [][Next]_vars

-----------------------------------------------------------------------------
(* Properties.                                                              *)

Recorded(n) == meta[n] # NoRec /\ meta[n].type \in {"vlan", "bridge"}
Uplink(r)   == IF r.type = "vlan" THEN r.vif ELSE r.parent
SharesUplink(n, m) == n # m /\ Recorded(m) /\ Uplink(meta[n]) = Uplink(meta[m])
Alone(n) == \A m \in Networks : ~SharesUplink(n, m)
Wired(n) == host.master[Uplink(meta[n])] = meta[n].bridge

(* A record belongs to a network libvirt knows, whichever call of a request *)
(* fails, unless it was left by a deletion that broke off between libvirt   *)
(* and the file; such a record is wired again at every boot.                *)
MetaBacked == \A n \in Networks \ orphans : meta[n] # NoRec => net[n].def

(* A reconciliation no request has interfered with leaves the uplink of     *)
(* every network in its bridge, but for records it gave up on and uplinks   *)
(* two records claim.                                                       *)
ReconcileRestores ==
    recon.todo = {} /\ recon.clean =>
        \A n \in Networks : Recorded(n) /\ n \notin recon.failed /\ Alone(n) => Wired(n)

(* After a reboot its bridges hold nothing but uplinks some record gives    *)
(* them, and a VLAN interface carries the tag its network's record says:    *)
(* whatever edits and refused creations left behind is gone.                *)
BootExact ==
    recon.todo = {} /\ recon.boot =>
        /\ \A x \in Ports : host.master[x] # NoBridge =>
              \E n \in Networks : Recorded(n) /\ Uplink(meta[n]) = x
                                          /\ meta[n].bridge = host.master[x]
        /\ \A n \in Networks : Recorded(n) /\ meta[n].type = "vlan" /\ n \notin recon.failed
                             /\ Alone(n) => host.tagOf[meta[n].vif] = meta[n].tag

(* Deleting a network, to its end or not, does not cut off another one,     *)
(* unless both share a bridge or an uplink.                                 *)
DeleteSparesOthers ==
    [][\A n, m \in Networks :
          (/\ net[n].def /\ ~net'[n].def /\ meta[n] # NoRec
           /\ n # m /\ Recorded(m) /\ Wired(m)
           /\ meta[n].bridge # meta[m].bridge /\ ~SharesUplink(m, n))
          => host'.master[Uplink(meta[m])] = meta[m].bridge]_vars
=============================================================================
