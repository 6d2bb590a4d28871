--------------------------- MODULE StorageNetworks ---------------------------
(***************************************************************************)
(* Storage networks (storage_phase9.py): profiles in one file, and the      *)
(* files systemd-networkd reads.  An apply reads all profiles, writes its   *)
(* network's files one by one, restarts networkd and writes all profiles    *)
(* back; the reconciliation applies every profile in turn.                  *)
(***************************************************************************)
EXTENDS Naturals

CONSTANTS
    Names, Long,    \* profiles; those whose names are cut off the interface's
    Parents, Tags, Addrs,
    MaxRequests,    \* bounds how many requests are made
    Threads, NoProfile, NoFile, NoName, NoTag, NoRoute

(* storage_interface_name *)
InterfaceName(n, mode, parent, tag) ==
    IF mode # "vlan" THEN parent
    ELSE IF n \in Long THEN <<"st", tag>> ELSE <<"st", tag, n>>

Interfaces == Parents \cup {InterfaceName(n, "vlan", p, t) : n \in Names, p \in Parents, t \in Tags}

Profiles == [mode : {"existing", "vlan", "dedicated"}, parent : Parents,
             tag : Tags \cup {NoTag}, addr : Addrs, iface : Interfaces, applied : BOOLEAN]

ConstantsAssumption == /\ Long \subseteq Names /\ NoName \notin Names
                       /\ NoTag \notin Tags /\ NoRoute \notin Parents
                       /\ NoProfile \notin Profiles /\ MaxRequests \in Nat

VARIABLES
    profile,   \* atlasvm_storage_networks.json
    files,     \* the .netdev, parent .network and .network file of each name
    route,     \* the interface of the default route, if it is one of Parents
    th,        \* what each request has read and where it is
    requests,  \* how many were made
    (* History, for the property only. *)
    stale,     \* the names in each request's copy that were overtaken
    lost       \* the names a request wrote from an overtaken copy

vars == <<profile, files, route, th, requests, stale, lost>>

NoFiles == [netdev |-> NoFile, parent |-> NoFile, network |-> NoFile]
Idle    == [pc |-> "idle", name |-> NoName, snap |-> [n \in Names |-> NoProfile], todo |-> {}]

(* Profiles, files and requests are what the code makes of them.            *)
TypeOK ==
    /\ profile \in [Names -> Profiles \cup {NoProfile}]
    /\ files \in [Names -> [netdev : (Interfaces \X Tags) \cup {NoFile},
                            parent : (Parents \X Interfaces) \cup {NoFile},
                            network : (Interfaces \X Addrs) \cup {NoFile}]]
    /\ route \in Parents \cup {NoRoute}
    /\ \A r \in Threads :
          /\ th[r].pc \in {"idle", "apply", "note", "query", "netdev", "parent", "network", "restart"}
          /\ th[r].name \in Names \cup {NoName} /\ th[r].todo \subseteq Names
    /\ requests \in 0 .. MaxRequests
    /\ stale \in [Threads -> SUBSET Names] /\ lost \subseteq Names

Init ==
    /\ profile = [n \in Names |-> NoProfile]
    /\ files = [n \in Names |-> NoFiles]
    /\ route \in Parents \cup {NoRoute}
    /\ th = [r \in Threads |-> Idle]
    /\ requests = 0
    /\ stale = [r \in Threads |-> {}] /\ lost = {}

-----------------------------------------------------------------------------

At(r, pc) == th[r].pc = pc

Requested(r) ==
    /\ At(r, "idle")
    /\ requests < MaxRequests /\ requests' = requests + 1

(* Between reading the profiles and writing them back.                      *)
Holds(r) == th[r].pc \notin {"idle", "apply"}

(* The profiles named change; the copies the others hold are overtaken.     *)
Overtake(r, names) ==
    stale' = [q \in Threads |-> IF q # r /\ Holds(q) THEN stale[q] \cup names ELSE {}]

(* The next profile of a reconciliation, or the end of the request.         *)
Proceed(r) ==
    IF th[r].todo = {} THEN th' = [th EXCEPT ![r] = Idle]
    ELSE \E n \in th[r].todo :
           th' = [th EXCEPT ![r] = [Idle EXCEPT !.pc = "apply", !.name = n,
                                                !.todo = th[r].todo \ {n}]]

(* save_storage_network: the profile is written anew.                       *)
SaveNetwork(r, n, mode, parent, tag, addr) ==
    /\ Requested(r)
    /\ mode = "vlan" <=> tag # NoTag
    /\ profile' = [profile EXCEPT ![n] =
                     [mode |-> mode, parent |-> parent, tag |-> tag, addr |-> addr,
                      iface |-> InterfaceName(n, mode, parent, tag), applied |-> FALSE]]
    /\ Overtake(r, {n}) /\ lost' = lost \ {n}
    /\ UNCHANGED <<files, route, th>>

(* delete_storage_network: the files stay.                                  *)
DeleteNetwork(r, n) ==
    /\ Requested(r)
    /\ profile[n] # NoProfile
    /\ profile' = [profile EXCEPT ![n] = NoProfile]
    /\ Overtake(r, {n}) /\ lost' = lost \ {n}
    /\ UNCHANGED <<files, route, th>>

StartApply(r, n) ==
    /\ Requested(r)
    /\ th' = [th EXCEPT ![r] = [Idle EXCEPT !.pc = "apply", !.name = n]]
    /\ UNCHANGED <<profile, files, route, stale, lost>>

(* reconcile_storage_networks: the names are read once, each profile when   *)
(* its turn comes; an apply that is refused does not stop the others.       *)
Reconcile(r) ==
    /\ Requested(r)
    /\ \E n \in Names :
         /\ profile[n] # NoProfile
         /\ th' = [th EXCEPT ![r] = [Idle EXCEPT !.pc = "apply", !.name = n,
                     !.todo = {m \in Names \ {n} : profile[m] # NoProfile}]]
    /\ UNCHANGED <<profile, files, route, stale, lost>>

(* apply_storage_network reads all the profiles, its own among them.        *)
ReadProfiles(r) ==
    LET p == profile[th[r].name] IN
    /\ At(r, "apply")
    /\ IF p = NoProfile THEN Proceed(r)
       ELSE th' = [th EXCEPT ![r].snap = profile,
                             ![r].pc = CASE p.mode = "existing" -> "note"
                                         [] p.mode = "dedicated" -> "query"
                                         [] OTHER -> "netdev"]
    /\ stale' = [stale EXCEPT ![r] = {}]
    /\ UNCHANGED <<profile, files, route, requests, lost>>

(* is_default_route_interface: the interface of the default route is refused. *)
QueryRoute(r) ==
    /\ At(r, "query")
    /\ IF th[r].snap[th[r].name].parent = route THEN Proceed(r)
       ELSE th' = [th EXCEPT ![r].pc = "network"]
    /\ UNCHANGED <<profile, files, route, requests, stale, lost>>

(* The texts of the three files, networkd_network_text among them.          *)
Text(p, f) ==
    CASE f = "netdev" -> <<p.iface, p.tag>>
      [] f = "parent" -> <<p.parent, p.iface>>
      [] f = "network" -> <<p.iface, p.addr>>

Then(f) == CASE f = "netdev" -> "parent" [] f = "parent" -> "network" [] f = "network" -> "restart"

(* A file the mode does not need is left as it is.                          *)
WriteFile(r, f) ==
    LET n == th[r].name IN
    /\ At(r, f)
    /\ files' = [files EXCEPT ![n][f] = Text(th[r].snap[n], f)]
    /\ th' = [th EXCEPT ![r].pc = Then(f)]
    /\ lost' = IF n \in stale[r] THEN lost \cup {n} ELSE lost
    /\ UNCHANGED <<profile, route, requests, stale>>

(* A mutant of ApplyDone: the profiles are read again, and whatever the     *)
(* name's profile is by now is marked; nothing older is written.            *)
MarkCurrent(r) ==
    /\ th[r].pc \in {"note", "restart"}
    /\ profile' = IF profile[th[r].name] = NoProfile THEN profile
                  ELSE [profile EXCEPT ![th[r].name].applied = TRUE]
    /\ Overtake(r, {}) /\ Proceed(r)
    /\ UNCHANGED <<files, route, requests, lost>>

(* The end of apply_storage_network: networkd has restarted, or not, or the *)
(* interface exists and is only noted, and the profiles read before are     *)
(* written back.                                                            *)
ApplyDone(r) ==
    /\ th[r].pc \in {"note", "restart"}
    /\ profile' = [th[r].snap EXCEPT ![th[r].name].applied = TRUE]
    /\ lost' = lost \cup stale[r]
    /\ Overtake(r, stale[r]) /\ Proceed(r)
    /\ UNCHANGED <<files, route, requests>>

(* A write that raises ends the apply, not the reconciliation.              *)
ApplyFails(r) ==
    /\ Holds(r)
    /\ Proceed(r)
    /\ UNCHANGED <<profile, files, route, requests, stale, lost>>

AtlasDies ==
    /\ th' = [r \in Threads |-> Idle]
    /\ UNCHANGED <<profile, files, route, requests, stale, lost>>

(* The host's default route moves to another interface.                     *)
MoveRoute ==
    /\ route' \in (Parents \cup {NoRoute}) \ {route}
    /\ UNCHANGED <<profile, files, th, requests, stale, lost>>

StorageNetworkRequests ==
    \E r \in Threads :
       \/ \E n \in Names, mode \in {"existing", "vlan", "dedicated"}, p \in Parents,
             t \in Tags \cup {NoTag}, a \in Addrs : SaveNetwork(r, n, mode, p, t, a)
       \/ \E n \in Names : DeleteNetwork(r, n) \/ StartApply(r, n)
       \/ Reconcile(r)

Next ==
    \/ StorageNetworkRequests
    \/ \E r \in Threads :
          \/ ReadProfiles(r) \/ QueryRoute(r) \/ ApplyDone(r) \/ ApplyFails(r)
          \/ \E f \in {"netdev", "parent", "network"} : WriteFile(r, f)
    \/ MoveRoute \/ AtlasDies

Spec == Init /\ [][Next]_vars

-----------------------------------------------------------------------------
(* Properties.                                                              *)

Matches(n, p) ==
    /\ p.mode = "vlan" => \A f \in {"netdev", "parent"} : files[n][f] = Text(p, f)
    /\ p.mode # "existing" => files[n].network = Text(p, "network")

(* A profile that says it was applied is what networkd's files say, through *)
(* saves, deletions, crashes and other applies between any two steps of an  *)
(* apply, until a request writes one of its files, or its profile, from a   *)
(* copy older than the profile's last save.                                 *)
AppliedMatches ==
    \A n \in Names \ lost : profile[n] # NoProfile /\ profile[n].applied =>
        Matches(n, profile[n])
=============================================================================
