--------------------------- MODULE MCStorageAndNodes ---------------------------
(* The storage of one host, mounted targets, thin pools on LUNs and exports *)
(* of snapshots, and its part among the nodes, the registry and the actions *)
(* sent to them.  The modules share no state; a behaviour belongs to one of *)
(* them, named by part, and the others' variables stay as they are.  Of     *)
(* IscsiLvm there are two: without passwords, and without devices.          *)
EXTENDS NodeRegistry, TLC

CONSTANTS
    Pair, Twins,   \* two values of one kind, of another
    Nfs, Smb, Shares, WithPool, NoRec, NoSrc, NoPath, Guest,
    IscsiTargets, Units, Kinds, NoDev, NoVG, NoTarget,
    Bases, Stamps, NoStamp, NoSnap,
    Nodes, Tokens, NoToken, NoNode, NoHost

VARIABLES
    part,
    rec, credfile, unit, mnt, pool, shared, half, torn,
    iscsi, secrets, dev, lun, vg, busy, lunTh, lunTorn, wrecked,
    baseOf, snaps, files, meta, job, made, disturbed,
    nodes, secret, click, message, ran

mountVars  == <<rec, credfile, unit, mnt, pool, shared, half, torn>>
lunVars    == <<iscsi, secrets, dev, lun, vg, busy, lunTh, lunTorn, wrecked>>
exportVars == <<baseOf, snaps, files, meta, job, made, disturbed>>
remoteVars == <<nodes, secret, click, message, ran>>

M == INSTANCE MountTargets WITH Exports <- Pair, Paths <- Twins
I == INSTANCE IscsiLvm WITH Targets <- IscsiTargets, Devs <- Pair, VGs <- Twins,
                            file <- iscsi, secret <- secrets, th <- lunTh,
                            torn <- lunTorn
Z == INSTANCE ZfsExports WITH Snaps <- Pair, Jobs <- Threads
R == INSTANCE RemoteActions WITH Hosts <- Urls, Clicks <- Threads

ASSUME InstancesAssumption ==
    /\ M!ConstantsAssumption /\ I!ConstantsAssumption
    /\ Z!ConstantsAssumption /\ R!ConstantsAssumption

HostInit ==
    /\ part \in {"mounts", "luns", "secrets", "exports", "registry", "remote"}
    /\ M!Init /\ I!Init /\ Z!Init /\ Init /\ R!Init
    /\ part # "luns" => lun = [l \in IscsiTargets \X Units |-> "blank"]
    /\ part # "exports" => \E b \in Bases : baseOf = [s \in Pair |-> b]
    /\ part # "remote" => \E k \in Tokens : secret = [h \in Urls |-> k]

HostNext ==
    \/ part = "mounts" /\ M!Next
                       /\ UNCHANGED <<part, lunVars, exportVars, vars, remoteVars>>
    \/ part = "luns" /\ UNCHANGED secrets /\ I!Next
                     /\ UNCHANGED <<part, mountVars, exportVars, vars, remoteVars>>
    \/ part = "secrets" /\ UNCHANGED dev /\ I!Next
                        /\ UNCHANGED <<part, mountVars, exportVars, vars, remoteVars>>
    \/ part = "exports" /\ Z!Next
                        /\ UNCHANGED <<part, mountVars, lunVars, vars, remoteVars>>
    \/ part = "registry" /\ Next
                         /\ UNCHANGED <<part, mountVars, lunVars, exportVars, remoteVars>>
    \/ part = "remote" /\ R!Next
                       /\ UNCHANGED <<part, mountVars, lunVars, exportVars, vars>>

HostSpec ==
    HostInit /\ [][HostNext]_<<part, mountVars, lunVars, exportVars, vars, remoteVars>>

Symmetric == Permutations(Pair) \cup Permutations(Twins) \cup Permutations(Threads)
                                 \cup Permutations(Tokens)

-----------------------------------------------------------------------------
(* The properties of the parts, stated and explained in their modules;      *)
(* RegistryRight is NodeRegistry's own.                                     *)

(* Every part's variables are in range.                                     *)
TypesOK == M!TypeOK /\ I!TypeOK /\ Z!TypeOK /\ TypeOK /\ R!TypeOK

(* What records say of mounts, units and credentials is so.                 *)
MountsRight == M!MountsRight

(* What iSCSI records say of secrets and thin pools is so.                  *)
LunRecordsRight == I!RecordedPoolExists /\ I!SecretsAgree

(* Thin pools and data the check can see are destroyed only by a request    *)
(* that saw nothing, or whose device was taken away since.                  *)
LunDataSafe == I!DataKept

(* Exports that were made are whole, and what is not whole is at work.      *)
ExportsRight == Z!MadeWhole /\ Z!PartialAtWork

(* What the page tells of a remote action is so, and it happens once.       *)
RemoteRight == R!RemoteRight
=============================================================================
