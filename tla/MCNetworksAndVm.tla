---------------------------- MODULE MCNetworksAndVm ----------------------------
(* The networks of one host, VLAN and storage, and one VM, its interfaces   *)
(* and its settings.  The modules share no state; a behaviour belongs to    *)
(* one of them, named by part, and the others' variables stay as they are.  *)
EXTENDS VmNics, TLC

CONSTANTS
    Pair, Twins,   \* two values of one kind, of another
    MaxNetwork, Parents, Present, MaxRequests, MaxApplies, Faults, Long, Addrs,
    NoRec, NoTag, NoParent, NoBridge, NoVif, NoProfile, NoFile, NoName, NoRoute,
    Isos, Snaps, NoIso, NoSize, NoRun, NoSnap

VARIABLES
    part,
    meta, net, host, recon, long, requests, orphans,
    profile, files, route, netTh, netRequests, netStale, netLost,
    vmConf, machine, isos, snaps, vmTh, crossed, vmStale

vlanVars == <<meta, net, host, recon, long, requests, orphans>>
netVars  == <<profile, files, route, netTh, netRequests, netStale, netLost>>
vmVars   == <<vmConf, machine, isos, snaps, vmTh, crossed, vmStale>>

V == INSTANCE VlanNetworks WITH Tags <- Pair, Bridges <- Twins
S == INSTANCE StorageNetworks WITH Names <- Pair, Tags <- {"tag"}, th <- netTh, lost <- netLost,
                  stale <- netStale, MaxRequests <- MaxApplies, requests <- netRequests
C == INSTANCE VmSettings WITH Sizes <- Pair, conf <- vmConf, th <- vmTh, stale <- vmStale

ASSUME InstancesAssumption ==
    V!ConstantsAssumption /\ S!ConstantsAssumption /\ C!ConstantsAssumption

HostInit ==
    /\ part \in {"vlan", "nics", "storage", "settings"}
    /\ V!Init /\ Init /\ S!Init /\ C!Init
    /\ part # "vlan" => long = {}
    /\ part # "nics" => netw = [n \in Nets |-> "off"]
    /\ part # "storage" => route = NoRoute

HostNext ==
    \/ part = "vlan" /\ V!Next /\ UNCHANGED <<part, vars, netVars, vmVars>>
    \/ part = "nics" /\ Next /\ UNCHANGED <<part, vlanVars, netVars, vmVars>>
    \/ part = "storage" /\ S!Next /\ UNCHANGED <<part, vars, vlanVars, vmVars>>
    \/ part = "settings" /\ C!Next /\ UNCHANGED <<part, vars, vlanVars, netVars>>

HostSpec == HostInit /\ [][HostNext]_<<part, vars, vlanVars, netVars, vmVars>>

Symmetric == Permutations(Pair) \cup Permutations(Twins) \cup Permutations(Threads)

-----------------------------------------------------------------------------
(* The properties of the parts, stated and explained in their modules;      *)
(* NicsRight is VmNics's own.                                               *)

(* Every part's variables are in range.                                     *)
TypesOK == TypeOK /\ V!TypeOK /\ S!TypeOK /\ C!TypeOK

(* Records belong to networks, and what a reconciliation has made is what   *)
(* they say.                                                                *)
UplinksRight == V!MetaBacked /\ V!ReconcileRestores /\ V!BootExact

(* A deletion cuts off no other network.                                    *)
DeleteSparesOthers == V!DeleteSparesOthers

(* A storage network that says it is applied is what networkd's files say.  *)
AppliedMatches == S!AppliedMatches

(* A running VM is what its definition says.                                *)
RunsAsDefined == C!RunsAsDefined

(* An edit does not make a template an ordinary VM.                         *)
TemplatesKept == C!TemplatesKept
=============================================================================
